--------------------------- MODULE WorkflowProofs ---------------------------
(***************************************************************************)
(* Proofs about Workflow, for any set of workers, any DAG, any retry       *)
(* limits, crashes included:                                               *)
(*                                                                         *)
(*  - its types and rows, and that a claim is never taken over;            *)
(*  - what relates the tables to their past: no task before its            *)
(*    dependencies were DONE, no verdict and no event without the rows     *)
(*    that justify it, and no event fed to an agent's state machine where  *)
(*    it is illegal;                                                       *)
(*  - how often a task is tried: never given up early, and, as long as no *)
(*    sweep takes it from its holder, a claim is a lease, a final status   *)
(*    is final and no retry goes uncounted;                                *)
(*  - the deployments in which the engine promises more: when engine calls *)
(*    do not overlap (WorkflowSerial) every node gets at most one task;    *)
(*    and without sweeps the cursor keeps up with the run and the detailed *)
(*    model implements DagRun.                                             *)
(***************************************************************************)
EXTENDS WorkflowSerial, TLAPS, SequenceTheorems, WellFoundedInduction

-----------------------------------------------------------------------------
(* Lemmas on the operators.                                                *)

\* handle() leaves the machine in one of its states.
LEMMA AfterType ==
    ASSUME NEW s \in AgentState, NEW e
    PROVE  After(s, e) \in AgentState
<1>1. CASE Legal(s, e)
  <2>1. PICK t \in Transitions : t[1] = s /\ t[2] = e
    BY <1>1 DEF Legal
  <2>2. t[3] \in AgentState /\ t = <<t[1], t[2], t[3]>>
    BY <2>1 DEF Transitions, AgentState
  <2>3. \E x \in AgentState : <<s, e, x>> \in Transitions
    BY <2>1, <2>2
  <2> QED BY <1>1, <2>3 DEF After
<1>2. CASE ~Legal(s, e)
  BY <1>2 DEF After
<1> QED BY <1>1, <1>2

\* Two events in a row lead from a state of the machine to a state of it.
LEMMA AfterTwoType ==
    ASSUME NEW s \in AgentState, NEW e, NEW f
    PROVE  AfterTwo(s, e, f) \in AgentState
BY AfterType DEF AfterTwo

\* Writing a row keeps the tables well formed and every other row as it is.
LEMMA WithRowType ==
    ASSUME tasks \in [Node -> Seq(Task)], NEW id \in TaskId, NEW r \in Task
    PROVE  /\ WithRow(id, r) \in [Node -> Seq(Task)]
           /\ \A n \in Node : DOMAIN WithRow(id, r)[n] = DOMAIN tasks[n]
           /\ \A n \in Node : \A k \in DOMAIN tasks[n] :
                 WithRow(id, r)[n][k] = IF <<n, k>> = id THEN r ELSE tasks[n][k]
<1> DEFINE m == id[1]
           j == id[2]
           new == [tasks[m] EXCEPT ![j] = r]
<1>1. m \in Node /\ j \in Nat \ {0} /\ id = <<m, j>>
  BY DEF TaskId
<1>2. tasks[m] \in Seq(Task)
  BY <1>1
<1>3. new \in Seq(Task) /\ DOMAIN new = DOMAIN tasks[m]
  <2>1. CASE j \in 1..Len(tasks[m])
    BY <1>2, <2>1, ExceptSeq
  <2>2. CASE j \notin 1..Len(tasks[m])
    <3>1. DOMAIN tasks[m] = 1..Len(tasks[m]) /\ tasks[m] = [i \in DOMAIN tasks[m] |-> tasks[m][i]]
      BY <1>2
    <3>2. new = tasks[m]
      BY <2>2, <3>1, Zenon
    <3> QED BY <1>2, <3>2
  <2> QED BY <2>1, <2>2
<1>4. WithRow(id, r) = [tasks EXCEPT ![m] = new]
  BY <1>1 DEF WithRow
<1>5. WithRow(id, r) \in [Node -> Seq(Task)]
  BY <1>3, <1>4
<1>6. \A n \in Node : WithRow(id, r)[n] = IF n = m THEN new ELSE tasks[n]
  BY <1>4
<1>7. ASSUME NEW n \in Node PROVE DOMAIN WithRow(id, r)[n] = DOMAIN tasks[n]
  BY <1>3, <1>6
<1>8. ASSUME NEW n \in Node, NEW k \in DOMAIN tasks[n]
      PROVE  WithRow(id, r)[n][k] = IF <<n, k>> = id THEN r ELSE tasks[n][k]
  BY <1>1, <1>3, <1>6
<1> QED BY <1>5, <1>7, <1>8

\* A row exists exactly when its index is in its node's sequence.
LEMMA RowsChar ==
    ASSUME tasks \in [Node -> Seq(Task)]
    PROVE  /\ Rows \subseteq TaskId
           /\ \A id \in Rows : id[2] \in DOMAIN tasks[id[1]] /\ Row(id) \in Task
           /\ \A n \in Node : \A k \in DOMAIN tasks[n] : <<n, k>> \in Rows
<1>1. \A n \in Node : tasks[n] \in Seq(Task) /\ DOMAIN tasks[n] = 1..Len(tasks[n])
  OBVIOUS
<1>2. \A n \in Node : \A k \in DOMAIN tasks[n] :
          k \in Nat \ {0} /\ tasks[n][k] \in Task /\ <<n, k>> \in Rows
  BY <1>1 DEF Rows
<1>3. \A id \in Rows : \E n \in Node : \E k \in DOMAIN tasks[n] : id = <<n, k>>
  BY DEF Rows
<1> QED BY <1>2, <1>3 DEF TaskId, Row

\* Rows are never deleted: more indices, more rows.
LEMMA RowsGrow ==
    ASSUME \A n \in Node : DOMAIN tasks[n] \subseteq DOMAIN tasks'[n]
    PROVE  Rows \subseteq Rows'
BY DEF Rows

\* What a sweep makes of a row is a row.
LEMMA SweptType ==
    ASSUME NEW t \in Task, NEW n, NEW a \in Int
    PROVE  Requeued(t) \in Task /\ Unstuck(n, t, a) \in Task
<1>1. Requeued(t) \in Task
  BY DEF Requeued, Task, TaskStatus
<1>2. \A x \in Task : [x EXCEPT !.attempts = a + 1] \in Task
  BY DEF Task
<1>3. [t EXCEPT !.status = "FAILED", !.old = FALSE, !.swept = TRUE] \in Task
  BY DEF Task, TaskStatus
<1> QED BY <1>1, <1>2, <1>3 DEF Unstuck

\* Rewriting rows in place, as the sweeps' transactions do.
LEMMA RewriteType ==
    ASSUME tasks \in [Node -> Seq(Task)],
           NEW T, T = [n \in Node |-> [k \in DOMAIN tasks[n] |-> T[n][k]]],
           \A n \in Node : \A k \in DOMAIN tasks[n] : T[n][k] \in Task
    PROVE  /\ T \in [Node -> Seq(Task)]
           /\ \A n \in Node : DOMAIN T[n] = DOMAIN tasks[n]
<1>1. ASSUME NEW n \in Node
      PROVE  T[n] \in Seq(Task) /\ DOMAIN T[n] = DOMAIN tasks[n]
  <2>1. T[n] = [k \in DOMAIN tasks[n] |-> T[n][k]]
    OBVIOUS
  <2>2. DOMAIN tasks[n] = 1..Len(tasks[n]) /\ Len(tasks[n]) \in Nat
    OBVIOUS
  <2>3. DOMAIN T[n] = 1..Len(tasks[n])
    BY <2>1, <2>2
  <2>4. \A k \in 1..Len(tasks[n]) : T[n][k] \in Task
    BY <2>2
  <2>5. T[n] \in Seq(Task)
    BY <2>1, <2>2, <2>3, <2>4
  <2> QED BY <2>1, <2>5
<1> QED BY <1>1

\* The new rows a step of the engine or of time may leave in place of an old one.
Claimed(t, w)  == [t EXCEPT !.status = "ASSIGNED", !.agent = w, !.old = FALSE,
                            !.tries = @ + 1]
Finished(t)    == [t EXCEPT !.status = "DONE", !.old = FALSE]
Given(n, t, a) == [t EXCEPT !.status = IF Exhausted(n, a) THEN "FAILED" ELSE "PENDING",
                            !.agent = NoAgent, !.attempts = a, !.old = FALSE]
Aged(t)        == [t EXCEPT !.old = TRUE]

\* They are rows.
LEMMA NewRowTypes ==
    ASSUME NEW t \in Task
    PROVE  /\ \A w \in Worker : Claimed(t, w) \in Task
           /\ Finished(t) \in Task /\ Aged(t) \in Task
           /\ \A n \in Node : \A a \in Int :
                 /\ Given(n, t, a) \in Task /\ Given(n, t, a).attempts = a
                 /\ Given(n, t, a).status = IF Exhausted(n, a) THEN "FAILED" ELSE "PENDING"
                 /\ Given(n, t, a).tries = t.tries /\ Given(n, t, a).swept = t.swept
<1>1. ASSUME NEW w \in Worker PROVE Claimed(t, w) \in Task
  <2>1. t.tries + 1 \in Nat
    BY DEF Task
  <2>2. ASSUME NEW i \in Nat
        PROVE  [t EXCEPT !.status = "ASSIGNED", !.agent = w, !.old = FALSE, !.tries = i] \in Task
    BY DEF Task, TaskStatus
  <2> QED BY <2>1, <2>2 DEF Claimed
<1>2. Finished(t) \in Task /\ Aged(t) \in Task
  BY DEF Finished, Aged, Task, TaskStatus
<1>3. ASSUME NEW n \in Node, NEW a \in Int
      PROVE  /\ Given(n, t, a) \in Task /\ Given(n, t, a).attempts = a
             /\ Given(n, t, a).status = IF Exhausted(n, a) THEN "FAILED" ELSE "PENDING"
             /\ Given(n, t, a).tries = t.tries /\ Given(n, t, a).swept = t.swept
  BY DEF Given, Task, TaskStatus
<1> QED BY <1>1, <1>2, <1>3

\* States the worker drives the machine through.
LEMMA SomeStates ==
    {"IDLE", "CLAIM_TASK", "PLANNING", "EXECUTING", "REVIEWING", "COOLDOWN"} \subseteq AgentState
BY DEF AgentState

\* A set of numbers has a least one.
LEMMA LeastOf ==
    ASSUME NEW S, S \subseteq Nat, S # {}
    PROVE  \E i \in S : \A j \in S : i <= j
<1>1. PICK i \in S : \A j \in S : ~(<<j, i>> \in OpToRel(<, Nat))
  BY NatLessThanWellFounded, WFMin
<1>2. \A j \in S : ~(j < i)
  BY <1>1 DEF OpToRel
<1>3. \A j \in S : j \in Nat
  OBVIOUS
<1> QED BY <1>2, <1>3

\* The frontier is the first node of the order that is not DONE, if there is one.
LEMMA FrontierIs ==
    ASSUME NEW v
    PROVE  \/ Frontier(v) = NoNode /\ \A n \in Node : v[n] = "DONE"
           \/ \E i \in DOMAIN Order :
                /\ Frontier(v) = Order[i] /\ Order[i] \in Node /\ v[Order[i]] # "DONE"
                /\ \A j \in DOMAIN Order : j < i => v[Order[j]] = "DONE"
<1> DEFINE at == { i \in DOMAIN Order : v[Order[i]] # "DONE" }
<1>1. /\ Order \in Seq(Node) /\ DOMAIN Order \subseteq Nat
      /\ \A n \in Node : \E i \in DOMAIN Order : Order[i] = n
  BY DefinitionAssumption
<1>2. CASE at = {}
  BY <1>1, <1>2 DEF Frontier
<1>3. CASE at # {}
  <2> DEFINE i == CHOOSE i \in at : \A j \in at : i <= j
  <2>1. at \subseteq Nat
    BY <1>1
  <2>2. i \in at /\ \A j \in at : i <= j
    <3> HIDE DEF at
    <3> QED BY <1>3, <2>1, LeastOf
  <2>3. Frontier(v) = Order[i]
    BY <1>3 DEF Frontier
  <2> HIDE DEF i
  <2>4. i \in DOMAIN Order /\ v[Order[i]] # "DONE" /\ Order[i] \in Node
    BY <1>1, <2>2
  <2>5. ASSUME NEW j \in DOMAIN Order, j < i PROVE v[Order[j]] = "DONE"
    <3>1. j \notin at
      <4> HIDE DEF at
      <4>1. i \in Nat /\ j \in Nat
        BY <1>1, <2>4
      <4> QED BY <2>2, <2>5, <4>1
    <3> QED BY <3>1
  <2> QED BY <2>3, <2>4, <2>5
<1> QED BY <1>2, <1>3

-----------------------------------------------------------------------------
(* Type correctness.  It is inductive together with: a worker that works   *)
(* on a task, or has tasks left to try, names rows that exist.             *)

\* Where a worker has a task in hand.
Holding == Labels \ {"down", "idle", "select", "claim", "raised"}

HeldRows ==
    \A w \in Worker : /\ pc[w] \in Holding => cur[w] \in Rows
                      /\ seen[w] \subseteq Rows

TypeInv == TypeOK /\ HeldRows

\* A run starts with no task, no agent and every type right.
LEMMA TypeInit == Init => TypeInv
<1> SUFFICES ASSUME Init PROVE TypeInv
  OBVIOUS
<1>1. tasks \in [Node -> Seq(Task)]
  BY EmptySeq DEF Init
<1>2. TypeOK
  BY <1>1, SomeStates, DeploymentAssumption
     DEF Init, TypeOK, RunStatus, Proc, Labels, NoView, NoSweep
<1>3. HeldRows
  BY DEF Init, HeldRows, Holding, Labels, Proc
<1> QED BY <1>2, <1>3 DEF TypeInv


\* The steps of a worker that write no row.
LEMMA TypeWorkerQuiet ==
    ASSUME TypeInv, NEW w \in Worker,
           \/ RunOnce(w) \/ RunOnceRefused(w) \/ Select(w) \/ ClaimLoses(w)
           \/ ClaimNothing(w) \/ Begin(w) \/ PlanningRaises(w) \/ ClaimRaises(w)
           \/ HandlerReturns(w) \/ HandlerRaises(w) \/ CompleteCheck(w)
           \/ CompletePublish(w) \/ FailCheck(w) \/ FailRefused(w) \/ FailPublish(w)
           \/ Escalate(w) \/ Approve(w) \/ Recover(w) \/ CompleteRaises(w)
           \/ FailRaises(w) \/ Crash(w) \/ Restart(w) \/ AgentGoesStale(w)
    PROVE  TypeInv'
<1> USE SomeStates, AfterType, AfterTwoType
<1> USE DEF TypeInv, TypeOK, HeldRows, tableVars, dbVars, locals, procVars,
            sweepVars, envVars
<1>1. CASE RunOnce(w)
  <2>1. Rows' = Rows
    BY <1>1 DEF RunOnce, Rows
  <2> QED BY <1>1, <2>1 DEF RunOnce, Proc, Labels, Holding, Heartbeat, Goto
<1>2. CASE RunOnceRefused(w)
  <2>1. Rows' = Rows
    BY <1>2 DEF RunOnceRefused, Rows
  <2> QED BY <1>2, <2>1 DEF RunOnceRefused, Proc, Labels, Holding, Heartbeat
<1>3. CASE Select(w)
  <2>1. Rows' = Rows
    BY <1>3 DEF Select, Rows
  <2> QED BY <1>3, <2>1, RowsChar DEF Select, Proc, Labels, Holding, Goto
<1>4. CASE ClaimLoses(w)
  <2>1. Rows' = Rows
    BY <1>4 DEF ClaimLoses, Rows
  <2> QED BY <1>4, <2>1 DEF ClaimLoses, Proc, Labels, Holding
<1>5. CASE ClaimNothing(w)
  <2>1. Rows' = Rows
    BY <1>5 DEF ClaimNothing, Rows, Leave
  <2> QED BY <1>5, <2>1 DEF ClaimNothing, Proc, Labels, Holding, Leave, Fire, Goto, Heartbeat
<1>6. CASE Begin(w)
  <2>1. Rows' = Rows
    BY <1>6 DEF Begin, Rows
  <2> QED BY <1>6, <2>1 DEF Begin, Proc, Labels, Holding, Heartbeat, Goto
<1>7. CASE ClaimRaises(w)
  <2>1. Rows' = Rows
    BY <1>7 DEF ClaimRaises, Rows, Leave
  <2> QED BY <1>7, <2>1, DeploymentAssumption DEF ClaimRaises, Proc, Labels, Holding, Leave, Fire, Goto, Heartbeat, Fault
<1>8. CASE HandlerReturns(w)
  <2>1. Rows' = Rows
    BY <1>8 DEF HandlerReturns, Rows
  <2> QED BY <1>8, <2>1 DEF HandlerReturns, Proc, Labels, Holding, Fire, Goto
<1>9. CASE HandlerRaises(w)
  <2>1. Rows' = Rows
    BY <1>9 DEF HandlerRaises, Rows
  <2> QED BY <1>9, <2>1 DEF HandlerRaises, Proc, Labels, Holding, Goto
<1>10. CASE CompleteCheck(w)
  <2>1. Rows' = Rows
    BY <1>10 DEF CompleteCheck, Rows
  <2> QED BY <1>10, <2>1 DEF CompleteCheck, Proc, Labels, Holding, Goto
<1>11. CASE CompletePublish(w)
  <2>1. Rows' = Rows
    BY <1>11 DEF CompletePublish, Rows
  <2> QED BY <1>11, <2>1 DEF CompletePublish, Proc, Labels, Holding, Goto
<1>12. CASE FailCheck(w)
  <2>1. Rows' = Rows
    BY <1>12 DEF FailCheck, Rows
  <2> QED BY <1>12, <2>1, RowsChar DEF FailCheck, Task, Proc, Labels, Holding, Goto
<1>13. CASE FailRefused(w)
  <2>1. Rows' = Rows
    BY <1>13 DEF FailRefused, Rows, Leave
  <2> QED BY <1>13, <2>1 DEF FailRefused, Proc, Labels, Holding, Leave, Goto, Heartbeat
<1>14. CASE FailPublish(w)
  <2>1. Rows' = Rows
    BY <1>14 DEF FailPublish, Rows
  <2> QED BY <1>14, <2>1 DEF FailPublish, Proc, Labels, Holding, Goto
<1>15. CASE Escalate(w)
  <2>1. Rows' = Rows
    BY <1>15 DEF Escalate, Rows
  <2> QED BY <1>15, <2>1 DEF Escalate, Proc, Labels, Holding, Goto
<1>16. CASE Approve(w)
  <2>1. Rows' = Rows
    BY <1>16 DEF Approve, Rows, Leave
  <2> QED BY <1>16, <2>1 DEF Approve, Proc, Labels, Holding, Leave, Goto, Heartbeat
<1>17. CASE Recover(w)
  <2>1. Rows' = Rows
    BY <1>17 DEF Recover, Rows, Leave
  <2> QED BY <1>17, <2>1 DEF Recover, Proc, Labels, Holding, Leave, Goto, Heartbeat
<1>18. CASE CompleteRaises(w)
  <2>1. Rows' = Rows
    BY <1>18 DEF CompleteRaises, Rows
  <2> QED BY <1>18, <2>1, DeploymentAssumption DEF CompleteRaises, Proc, Labels, Holding, Goto, Fault, NoView
<1>19. CASE FailRaises(w)
  <2>1. Rows' = Rows
    BY <1>19 DEF FailRaises, Rows, Leave
  <2> QED BY <1>19, <2>1, DeploymentAssumption DEF FailRaises, Proc, Labels, Holding, Leave, Goto, Heartbeat, Fault, NoView
<1>20. CASE Crash(w)
  <2>1. Rows' = Rows
    BY <1>20 DEF Crash, Rows
  <2> QED BY <1>20, <2>1, DeploymentAssumption DEF Crash, Proc, Labels, Holding, Goto, Fault, NoView
<1>21. CASE Restart(w)
  <2>1. Rows' = Rows
    BY <1>21 DEF Restart, Rows
  <2> QED BY <1>21, <2>1 DEF Restart, Proc, Labels, Holding, Goto
<1>22. CASE AgentGoesStale(w)
  <2>1. Rows' = Rows
    BY <1>22 DEF AgentGoesStale, Rows
  <2> QED BY <1>22, <2>1, DeploymentAssumption DEF AgentGoesStale, Proc, Labels, Holding, Fault, NoFault
<1>23. CASE PlanningRaises(w)
  <2>1. Rows' = Rows
    BY <1>23 DEF PlanningRaises, Rows
  <2> QED BY <1>23, <2>1, DeploymentAssumption DEF PlanningRaises, Proc, Labels, Holding, Fire, Goto, Fault
<1> QED BY <1>1, <1>2, <1>3, <1>4, <1>5, <1>6, <1>7, <1>8, <1>9, <1>10, <1>11, <1>12, <1>13, <1>14, <1>15, <1>16, <1>17, <1>18, <1>19, <1>20, <1>21, <1>22, <1>23

\* The steps of a worker that write its row.
LEMMA TypeWorkerWrites ==
    ASSUME TypeInv, NEW w \in Worker, ClaimWins(w) \/ CompleteWrite(w) \/ FailWrite(w)
    PROVE  TypeInv'
<1> USE DEF TypeInv, TypeOK, HeldRows, tableVars, dbVars, locals, procVars,
            sweepVars, envVars
<1>1. /\ Rows \subseteq TaskId
      /\ \A id \in Rows : id[2] \in DOMAIN tasks[id[1]] /\ Row(id) \in Task
  BY RowsChar
<1>2. ASSUME NEW id \in Rows, NEW r \in Task, tasks' = WithRow(id, r)
      PROVE  tasks' \in [Node -> Seq(Task)] /\ Rows' = Rows
  <2>1. id \in TaskId
    BY <1>1
  <2>2. /\ tasks' \in [Node -> Seq(Task)]
        /\ \A n \in Node : DOMAIN tasks'[n] = DOMAIN tasks[n]
    BY <2>1, <1>2, WithRowType
  <2> QED BY <2>2 DEF Rows
<1>3. CASE ClaimWins(w)
  <2>1. PICK id \in seen[w] : /\ tasks' = WithRow(id, Claimed(Row(id), w))
                              /\ cur' = [cur EXCEPT ![w] = id]
    BY <1>3 DEF ClaimWins, Claimed
  <2>2. id \in Rows /\ Row(id) \in Task
    BY <1>1
  <2>3. Claimed(Row(id), w) \in Task
    BY <2>2, NewRowTypes
  <2>4. tasks' \in [Node -> Seq(Task)] /\ Rows' = Rows
    BY <1>2, <2>1, <2>2, <2>3
  <2> QED BY <1>1, <1>3, <2>1, <2>2, <2>4 DEF ClaimWins, Goto, Proc, Labels, Holding
<1>4. ASSUME pc[w] \in {"completing", "failing"}
      PROVE  /\ cur[w] \in Rows /\ Row(cur[w]) \in Task
             /\ cur[w] = <<cur[w][1], cur[w][2]>>
             /\ cur[w][1] \in Node /\ cur[w][2] \in Nat \ {0}
  <2>1. cur[w] \in Rows
    BY <1>4 DEF Holding, Labels
  <2>2. cur[w] \in TaskId /\ Row(cur[w]) \in Task
    BY <1>1, <2>1
  <2> QED BY <2>1, <2>2 DEF TaskId
<1>5. CASE CompleteWrite(w)
  <2>1. Finished(Row(cur[w])) \in Task
    BY <1>4, <1>5, NewRowTypes DEF CompleteWrite
  <2>2. tasks' \in [Node -> Seq(Task)] /\ Rows' = Rows
    BY <1>2, <1>4, <1>5, <2>1 DEF CompleteWrite, Finished
  <2> QED BY <1>4, <1>5, <2>2 DEF CompleteWrite, Goto, Proc, Labels, Holding
<1>6. CASE FailWrite(w)
  <2>1. Given(cur[w][1], Row(cur[w]), att[w] + 1) \in Task
    <3>1. att[w] + 1 \in Int
      OBVIOUS
    <3> QED BY <1>4, <1>6, <3>1, NewRowTypes DEF FailWrite
  <2>2. tasks' \in [Node -> Seq(Task)] /\ Rows' = Rows
    BY <1>2, <1>4, <1>6, <2>1 DEF FailWrite, Given
  <2>3. reached' \subseteq (Node \X (Nat \ {0}) \X {"DONE", "FAILED"})
    BY <1>4, <1>6 DEF FailWrite
  <2>4. /\ pc' = [pc EXCEPT ![w] = "failed"]
        /\ UNCHANGED <<run, cursor, inst, fresh, events, ret, fsm, cur, seen, att, view, sweepVars, faults>>
    BY <1>6 DEF FailWrite, Goto
  <2> QED BY <1>4, <1>6, <2>2, <2>3, <2>4 DEF FailWrite, Proc, Labels, Holding
<1> QED BY <1>3, <1>5, <1>6

\* The steps of advance, in any process.
LEMMA TypeAdvance ==
    ASSUME TypeInv, NEW p \in Proc, Advance(p)
    PROVE  TypeInv'
<1> USE DEF TypeInv, TypeOK, HeldRows, tableVars, dbVars, locals, procVars,
            sweepVars, envVars
<1>1. CASE GetRun(p)
  <2>1. Rows' = Rows
    BY <1>1 DEF GetRun, Rows
  <2> QED BY <1>1, <2>1 DEF GetRun, Goto, Labels, Holding
<1>2. CASE ListTasks(p)
  <2>1. Rows' = Rows
    BY <1>2 DEF ListTasks, Rows
  <2>2. \A n \in Node : Latest(n) \in TaskStatus \cup {"none"}
    <3>1. SUFFICES ASSUME NEW n \in Node, tasks[n] # <<>>
                   PROVE  tasks[n][Len(tasks[n])].status \in TaskStatus
      BY DEF Latest
    <3>2. tasks[n][Len(tasks[n])] \in Task
      BY <3>1
    <3> QED BY <3>2 DEF Task
  <2> QED BY <1>2, <2>1, <2>2 DEF ListTasks, Goto, Labels, Holding
<1>3. CASE Settle(p)
  <2>1. NewTask \in Task
    BY DEF NewTask, Task, TaskStatus
  <2>2. \A n \in Node : /\ Append(tasks[n], NewTask) \in Seq(Task)
                        /\ DOMAIN tasks[n] \subseteq DOMAIN Append(tasks[n], NewTask)
    BY <2>1
  <2>3. /\ tasks' \in [Node -> Seq(Task)]
        /\ \A n \in Node : DOMAIN tasks[n] \subseteq DOMAIN tasks'[n]
    BY <1>3, <2>2 DEF Settle
  <2>4. Rows \subseteq Rows'
    BY <2>3, RowsGrow
  <2>5. run' \in RunStatus
    BY <1>3 DEF Settle, Verdict, RunStatus
  <2>6. cursor' \in Node \cup {NoNode}
    BY <1>3, FrontierIs DEF Settle
  <2> QED BY <1>3, <2>3, <2>4, <2>5, <2>6 DEF Settle, Goto, Labels, Holding
<1>4. CASE Settled(p)
  <2>1. Rows' = Rows
    BY <1>4 DEF Settled, Rows
  <2> QED BY <1>4, <2>1 DEF Settled, Goto, Labels, Holding, NoView
<1> QED BY <1>1, <1>2, <1>3, <1>4 DEF Advance

\* The steps of the client, of time and of the sweeps.
LEMMA TypeOthers ==
    ASSUME TypeInv,
           \/ StartRun \/ Resume \/ ClientStops
           \/ \E id \in Rows : TaskGoesStale(id)
           \/ HeartbeatSweep \/ HeartbeatSweepDies \/ StuckSweep \/ StuckSweepDies
    PROVE  TypeInv'
<1> USE DeploymentAssumption
<1> USE DEF TypeInv, TypeOK, HeldRows, tableVars, dbVars, locals, procVars,
            sweepVars, envVars
<1>1. CASE StartRun
  <2>1. Rows' = Rows
    BY <1>1 DEF StartRun, Rows
  <2> QED BY <1>1, <2>1 DEF StartRun, Goto, Proc, Labels, RunStatus
<1>2. CASE Resume
  <2>1. Rows' = Rows
    BY <1>2 DEF Resume, Rows
  <2> QED BY <1>2, <2>1 DEF Resume, Goto, Proc, Labels
<1>3. CASE ClientStops
  <2>1. Rows' = Rows
    BY <1>3 DEF ClientStops, Rows
  <2> QED BY <1>3, <2>1 DEF ClientStops, Fault, Goto, NoView, Proc, Labels
<1>4. ASSUME NEW id \in Rows, TaskGoesStale(id) PROVE TypeInv'
  <2>1. id \in TaskId /\ Row(id) \in Task
    BY RowsChar
  <2> DEFINE r == [Row(id) EXCEPT !.old = TRUE]
  <2>2. r \in Task
    BY <2>1 DEF Task
  <2>3. tasks' = WithRow(id, r)
    BY <1>4 DEF TaskGoesStale
  <2> HIDE DEF r
  <2>4. /\ tasks' \in [Node -> Seq(Task)]
        /\ \A n \in Node : DOMAIN tasks'[n] = DOMAIN tasks[n]
    BY <2>1, <2>2, <2>3, WithRowType
  <2>5. Rows' = Rows
    BY <2>4 DEF Rows
  <2>6. faults' \in 0..MaxFaults
    BY <1>4 DEF TaskGoesStale, Fault, NoFault
  <2>7. UNCHANGED <<run, cursor, inst, fresh, events, procVars, sweepVars, reached>>
    BY <1>4 DEF TaskGoesStale
  <2> QED BY <2>4, <2>5, <2>6, <2>7
<1>5. CASE HeartbeatSweepRead \/ HeartbeatSweepDies
  <2>1. Rows' = Rows
    BY <1>5 DEF HeartbeatSweepRead, HeartbeatSweepDies, Rows
  <2> QED BY <1>5, <2>1 DEF HeartbeatSweepRead, HeartbeatSweepDies, Fault
<1>6. CASE HeartbeatSweepWrite
  <2> DEFINE f(n, k) == IF tasks[n][k].status = "ASSIGNED" /\ tasks[n][k].agent \in hb
                        THEN Requeued(tasks[n][k]) ELSE tasks[n][k]
  <2>1. ASSUME NEW n \in Node, NEW k \in DOMAIN tasks[n] PROVE f(n, k) \in Task
    <3>1. tasks[n][k] \in Task
      OBVIOUS
    <3> QED BY <3>1, SweptType
  <2>2. /\ tasks' = [n \in Node |-> [k \in DOMAIN tasks[n] |-> f(n, k)]]
        /\ UNCHANGED <<run, cursor, fresh, events, procVars, stuck, reached, faults>>
        /\ hb' = {}
        /\ inst' = [w \in Worker |-> IF w \in hb THEN "UNRESPONSIVE" ELSE inst[w]]
    BY <1>6 DEF HeartbeatSweepWrite
  <2> HIDE DEF f
  <2>4. /\ tasks' \in [Node -> Seq(Task)]
        /\ \A n \in Node : DOMAIN tasks'[n] = DOMAIN tasks[n]
    <3>1. tasks' = [n \in Node |-> [k \in DOMAIN tasks[n] |-> tasks'[n][k]]]
      BY <2>2
    <3>2. \A n \in Node : \A k \in DOMAIN tasks[n] : tasks'[n][k] \in Task
      BY <2>1, <2>2
    <3> HIDE <2>2
    <3> QED BY <3>1, <3>2, RewriteType
  <2>5. Rows' = Rows
    BY <2>4 DEF Rows
  <2> QED BY <2>2, <2>4, <2>5
<1>7. CASE StuckSweepRead \/ StuckSweepPublish \/ StuckSweepDies
  <2>1. Rows' = Rows
    BY <1>7 DEF StuckSweepRead, StuckSweepPublish, StuckSweepDies, Rows
  <2>2. \A id \in Rows : <<id, Row(id).attempts>> \in TaskId \X Int
    BY RowsChar DEF Task
  <2> QED BY <1>7, <2>1, <2>2
          DEF StuckSweepRead, StuckSweepPublish, StuckSweepDies, NoSweep, Fault
<1>8. CASE StuckSweepWrite
  <2>1. ASSUME NEW n \in Node, NEW k \in DOMAIN tasks[n] PROVE Swept(n, k) \in Task
    <3>1. tasks[n][k] \in Task
      OBVIOUS
    <3>2. StuckHit(n, k) => AttemptsRead(n, k) \in Int
      <4>1. SUFFICES ASSUME \E r \in stuck.rows : r[1] = <<n, k>>
                     PROVE  AttemptsRead(n, k) \in Int
        BY DEF StuckHit
      <4>2. (CHOOSE r \in stuck.rows : r[1] = <<n, k>>) \in stuck.rows
        BY <4>1
      <4> QED BY <4>2 DEF AttemptsRead
    <3>3. ASSUME NEW a \in Int PROVE Unstuck(n, tasks[n][k], a) \in Task
      BY <3>1, SweptType
    <3> QED BY <3>1, <3>2, <3>3 DEF Swept
  <2>2. tasks' = [n \in Node |-> [k \in DOMAIN tasks[n] |-> Swept(n, k)]]
    BY <1>8 DEF StuckSweepWrite
  <2>3. /\ tasks' \in [Node -> Seq(Task)]
        /\ \A n \in Node : DOMAIN tasks'[n] = DOMAIN tasks[n]
    <3>1. tasks' = [n \in Node |-> [k \in DOMAIN tasks[n] |-> tasks'[n][k]]]
      BY <2>2
    <3>2. \A n \in Node : \A k \in DOMAIN tasks[n] : tasks'[n][k] \in Task
      BY <2>1, <2>2
    <3> HIDE <2>2
    <3> QED BY <3>1, <3>2, RewriteType
  <2>4. Rows' = Rows
    BY <2>3 DEF Rows
  <2>5. reached' \subseteq (Node \X (Nat \ {0}) \X {"DONE", "FAILED"})
    BY <1>8, RowsChar DEF StuckSweepWrite, TaskId
  <2>6. /\ stuck'.phase = "publish" /\ stuck'.rows = stuck.rows
        /\ UNCHANGED <<run, cursor, inst, fresh, events, procVars, hb, faults>>
    BY <1>8 DEF StuckSweepWrite
  <2> QED BY <2>3, <2>4, <2>5, <2>6
<1> QED BY <1>1, <1>2, <1>3, <1>4, <1>5, <1>6, <1>7, <1>8 DEF HeartbeatSweep, StuckSweep

\* A step that changes nothing keeps the types.
LEMMA TypeStutter == TypeInv /\ UNCHANGED vars => TypeInv'
<1> SUFFICES ASSUME TypeInv, UNCHANGED vars PROVE TypeInv'
  OBVIOUS
<1>1. Rows' = Rows
  BY DEF vars, dbVars, tableVars, Rows
<1> QED BY <1>1 DEF TypeInv, TypeOK, HeldRows, vars, tableVars, dbVars, locals,
                    procVars, sweepVars, envVars

\* Every step keeps the types.
LEMMA TypeStep == TypeInv /\ [Next]_vars => TypeInv'
<1> SUFFICES ASSUME TypeInv, [Next]_vars PROVE TypeInv'
  OBVIOUS
<1>1. CASE StartRun \/ Resume \/ ClientStops
  BY <1>1, TypeOthers
<1>2. ASSUME NEW p \in Proc, Advance(p) PROVE TypeInv'
  BY <1>2, TypeAdvance
<1>3. ASSUME NEW w \in Worker,
             \/ WorkerStep(w) \/ RunOnceRefused(w)
             \/ WorkerFault(w) \/ Restart(w) \/ AgentGoesStale(w)
      PROVE  TypeInv'
  BY <1>3, TypeWorkerQuiet, TypeWorkerWrites DEF WorkerStep, WorkerFault
<1>4. CASE \/ \E id \in Rows : TaskGoesStale(id)
           \/ HeartbeatSweep \/ HeartbeatSweepDies \/ StuckSweep \/ StuckSweepDies
  BY <1>4, TypeOthers
<1>5. CASE UNCHANGED vars
  BY <1>5, TypeStutter
<1> QED BY <1>1, <1>2, <1>3, <1>4, <1>5 DEF Next

\* Every variable keeps its type, and whatever row a worker works on exists.
THEOREM TypeCorrect == Spec => []TypeInv
<1> QED BY TypeInit, TypeStep, PTL DEF Spec

\* The type invariant of the module.
THEOREM TypeSafety == Spec => []TypeOK
<1>1. TypeInv => TypeOK
  BY DEF TypeInv
<1> QED BY <1>1, TypeCorrect, PTL

-----------------------------------------------------------------------------
(* Which steps write which rows.                                           *)

\* The steps that touch tasks or the history; all the others leave both alone.
LEMMA StepCases ==
    ASSUME [Next]_vars
    PROVE  \/ UNCHANGED <<tasks, reached>>
           \/ \E w \in Worker : ClaimWins(w) \/ CompleteWrite(w) \/ FailWrite(w)
           \/ \E p \in Proc : Settle(p)
           \/ \E id \in Rows : TaskGoesStale(id)
           \/ HeartbeatSweepWrite \/ StuckSweepWrite
<1> USE DEF dbVars, tableVars, sweepVars, envVars
<1>1. ASSUME NEW w \in Worker,
             \/ RunOnce(w) \/ RunOnceRefused(w) \/ Select(w) \/ ClaimLoses(w)
             \/ ClaimNothing(w) \/ Begin(w) \/ WorkerFault(w)
             \/ HandlerReturns(w) \/ HandlerRaises(w) \/ CompleteCheck(w)
             \/ CompletePublish(w) \/ FailCheck(w) \/ FailRefused(w) \/ FailPublish(w)
             \/ Escalate(w) \/ Approve(w) \/ Recover(w) \/ Restart(w) \/ AgentGoesStale(w)
      PROVE  UNCHANGED <<tasks, reached>>
  BY <1>1
     DEF RunOnce, RunOnceRefused, Select, ClaimLoses, ClaimNothing, Begin, WorkerFault,
         PlanningRaises, ClaimRaises, CompleteRaises, FailRaises, Crash, HandlerReturns, HandlerRaises,
         CompleteCheck, CompletePublish, FailCheck, FailRefused, FailPublish, Escalate,
         Approve, Recover, Restart, AgentGoesStale
<1>2. ASSUME NEW p \in Proc, GetRun(p) \/ ListTasks(p) \/ Settled(p)
      PROVE  UNCHANGED <<tasks, reached>>
  BY <1>2 DEF GetRun, ListTasks, Settled
<1>3. ASSUME \/ StartRun \/ Resume \/ ClientStops \/ HeartbeatSweepRead \/ HeartbeatSweepDies
             \/ StuckSweepRead \/ StuckSweepPublish \/ StuckSweepDies \/ UNCHANGED vars
      PROVE  UNCHANGED <<tasks, reached>>
  BY <1>3 DEF StartRun, Resume, ClientStops, HeartbeatSweepRead, HeartbeatSweepDies,
              StuckSweepRead, StuckSweepPublish, StuckSweepDies, vars
<1> QED BY <1>1, <1>2, <1>3 DEF Next, Advance, WorkerStep, HeartbeatSweep, StuckSweep

\* What a step can make of the k-th row t of node n, and which step it is.
RowStep(n, k, t, u) ==
    \/ u = t
    \/ t.status = "PENDING" /\ \E w \in Worker : ClaimWins(w) /\ u = Claimed(t, w)
    \/ \E w \in Worker : CompleteWrite(w) /\ cur[w] = <<n, k>> /\ u = Finished(t)
    \/ \E w \in Worker : FailWrite(w) /\ cur[w] = <<n, k>> /\ u = Given(n, t, att[w] + 1)
    \/ t.status = "ASSIGNED" /\ Sweeps /\ u = Aged(t)
    \/ t.status = "ASSIGNED" /\ HeartbeatSweepWrite /\ u = Requeued(t)
    \/ t.status = "ASSIGNED" /\ StuckSweepWrite
         /\ \E r \in stuck.rows : r[1] = <<n, k>> /\ u = Unstuck(n, t, r[2])

\* Every step leaves the rows of each node as they were, or makes one of the
\* listed changes to them, or (advance) appends a fresh row.
LEMMA RowSteps ==
    ASSUME TypeInv, [Next]_vars
    PROVE  \A n \in Node :
             /\ \A k \in DOMAIN tasks[n] : /\ k \in DOMAIN tasks'[n]
                                           /\ RowStep(n, k, tasks[n][k], tasks'[n][k])
             /\ \A k \in DOMAIN tasks'[n] : k \notin DOMAIN tasks[n] =>
                    /\ tasks'[n][k] = NewTask
                    /\ \E p \in Proc : pc[p] = "settle" /\ n \in Ready(view[p])
<1> DEFINE Same == tasks' = tasks
           Goal == \A n \in Node :
             /\ \A k \in DOMAIN tasks[n] : /\ k \in DOMAIN tasks'[n]
                                           /\ RowStep(n, k, tasks[n][k], tasks'[n][k])
             /\ \A k \in DOMAIN tasks'[n] : k \notin DOMAIN tasks[n] =>
                    /\ tasks'[n][k] = NewTask
                    /\ \E p \in Proc : pc[p] = "settle" /\ n \in Ready(view[p])
<1>1. Same => Goal
  BY DEF RowStep
<1>2. /\ tasks \in [Node -> Seq(Task)]
      /\ Rows \subseteq TaskId
      /\ \A id \in Rows : id[2] \in DOMAIN tasks[id[1]] /\ Row(id) \in Task
      /\ \A w \in Worker : pc[w] \in Holding => cur[w] \in Rows
      /\ \A w \in Worker : seen[w] \subseteq Rows
  BY RowsChar DEF TypeInv, TypeOK, HeldRows
<1>3. ASSUME NEW id \in Rows, NEW r \in Task, tasks' = WithRow(id, r),
             RowStep(id[1], id[2], Row(id), r)
      PROVE  Goal
  <2>1. id \in TaskId /\ id = <<id[1], id[2]>>
    BY <1>2 DEF TaskId
  <2>2. /\ \A n \in Node : DOMAIN tasks'[n] = DOMAIN tasks[n]
        /\ \A n \in Node : \A k \in DOMAIN tasks[n] :
              tasks'[n][k] = IF <<n, k>> = id THEN r ELSE tasks[n][k]
    BY <1>2, <1>3, <2>1, WithRowType
  <2>3. ASSUME NEW n \in Node, NEW k \in DOMAIN tasks[n]
        PROVE  RowStep(n, k, tasks[n][k], tasks'[n][k])
    <3>1. CASE <<n, k>> = id
      <4>1. n = id[1] /\ k = id[2] /\ tasks[n][k] = Row(id) /\ tasks'[n][k] = r
        BY <2>1, <2>2, <3>1 DEF Row
      <4> QED BY <1>3, <4>1
    <3>2. CASE <<n, k>> # id
      BY <2>2, <3>2 DEF RowStep
    <3> QED BY <3>1, <3>2
  <2> QED BY <2>2, <2>3
<1>4. ASSUME NEW w \in Worker, ClaimWins(w) PROVE Goal
  <2>1. PICK id \in seen[w] : /\ Row(id).status = "PENDING"
                              /\ tasks' = WithRow(id, Claimed(Row(id), w))
    BY <1>4 DEF ClaimWins, Claimable, Claimed
  <2>2. id \in Rows /\ Row(id) \in Task
    BY <1>2
  <2>3. Claimed(Row(id), w) \in Task
    BY <2>2, NewRowTypes
  <2>4. RowStep(id[1], id[2], Row(id), Claimed(Row(id), w))
    BY <1>4, <2>1 DEF RowStep
  <2> QED BY <1>3, <2>1, <2>2, <2>3, <2>4
<1>5. ASSUME NEW w \in Worker, CompleteWrite(w) PROVE Goal
  <2>1. cur[w] \in Rows /\ Row(cur[w]) \in Task /\ cur[w] = <<cur[w][1], cur[w][2]>>
    BY <1>2, <1>5 DEF CompleteWrite, Holding, Labels, TaskId
  <2>2. Finished(Row(cur[w])) \in Task
    BY <2>1, NewRowTypes
  <2>3. tasks' = WithRow(cur[w], Finished(Row(cur[w])))
    BY <1>5 DEF CompleteWrite, Finished
  <2>4. RowStep(cur[w][1], cur[w][2], Row(cur[w]), Finished(Row(cur[w])))
    BY <1>5, <2>1 DEF RowStep
  <2> QED BY <1>3, <2>1, <2>2, <2>3, <2>4
<1>6. ASSUME NEW w \in Worker, FailWrite(w) PROVE Goal
  <2> DEFINE r == Given(cur[w][1], Row(cur[w]), att[w] + 1)
  <2>1. /\ cur[w] \in Rows /\ Row(cur[w]) \in Task /\ cur[w] = <<cur[w][1], cur[w][2]>>
        /\ cur[w][1] \in Node
    BY <1>2, <1>6 DEF FailWrite, Holding, Labels, TaskId
  <2>2. r \in Task
    <3>1. att[w] + 1 \in Int
      BY DEF TypeInv, TypeOK
    <3> QED BY <2>1, <3>1, NewRowTypes
  <2>3. tasks' = WithRow(cur[w], r)
    BY <1>6 DEF FailWrite, Given
  <2>4. RowStep(cur[w][1], cur[w][2], Row(cur[w]), r)
    BY <1>6, <2>1 DEF RowStep
  <2> QED BY <1>3, <2>1, <2>2, <2>3, <2>4
<1>7. ASSUME NEW p \in Proc, Settle(p) PROVE Goal
  <2>1. \A n \in Node : tasks'[n] = IF n \in Ready(view[p])
                                    THEN Append(tasks[n], NewTask) ELSE tasks[n]
    BY <1>7 DEF Settle
  <2>2. NewTask \in Task
    BY DEF NewTask, Task, TaskStatus
  <2>3. ASSUME NEW n \in Node, n \in Ready(view[p])
        PROVE  /\ \A k \in DOMAIN tasks[n] : /\ k \in DOMAIN tasks'[n]
                                             /\ tasks'[n][k] = tasks[n][k]
               /\ \A k \in DOMAIN tasks'[n] : k \notin DOMAIN tasks[n] =>
                      tasks'[n][k] = NewTask
    <3>1. tasks[n] \in Seq(Task) /\ tasks'[n] = Append(tasks[n], NewTask)
      BY <1>2, <2>1, <2>3
    <3> QED BY <2>2, <3>1, AppendProperties
  <2> QED BY <1>7, <2>1, <2>3 DEF RowStep, Settle
<1>8. ASSUME NEW id \in Rows, TaskGoesStale(id) PROVE Goal
  <2>1. Aged(Row(id)) \in Task
    BY <1>2, NewRowTypes
  <2>2. tasks' = WithRow(id, Aged(Row(id))) /\ Row(id).status = "ASSIGNED" /\ Sweeps
    BY <1>8 DEF TaskGoesStale, Aged
  <2>3. RowStep(id[1], id[2], Row(id), Aged(Row(id)))
    BY <2>2 DEF RowStep
  <2> QED BY <1>3, <2>1, <2>2, <2>3
<1>9. ASSUME HeartbeatSweepWrite PROVE Goal
  <2>1. \A n \in Node : DOMAIN tasks'[n] = DOMAIN tasks[n]
    BY <1>9 DEF HeartbeatSweepWrite
  <2>2. ASSUME NEW n \in Node, NEW k \in DOMAIN tasks[n]
        PROVE  RowStep(n, k, tasks[n][k], tasks'[n][k])
    <3>1. \/ tasks'[n][k] = tasks[n][k]
          \/ tasks[n][k].status = "ASSIGNED" /\ tasks'[n][k] = Requeued(tasks[n][k])
      BY <1>9 DEF HeartbeatSweepWrite
    <3> QED BY <1>9, <3>1 DEF RowStep
  <2> QED BY <2>1, <2>2
<1>10. ASSUME StuckSweepWrite PROVE Goal
  <2>1. \A n \in Node : DOMAIN tasks'[n] = DOMAIN tasks[n]
    BY <1>10 DEF StuckSweepWrite
  <2>2. ASSUME NEW n \in Node, NEW k \in DOMAIN tasks[n]
        PROVE  RowStep(n, k, tasks[n][k], tasks'[n][k])
    <3>1. tasks'[n][k] = Swept(n, k)
      BY <1>10 DEF StuckSweepWrite
    <3>2. CASE StuckHit(n, k)
      <4>1. PICK r \in stuck.rows : r[1] = <<n, k>>
        BY <3>2 DEF StuckHit
      <4>2. (CHOOSE x \in stuck.rows : x[1] = <<n, k>>) \in stuck.rows
        BY <4>1
      <4>3. /\ tasks[n][k].status = "ASSIGNED"
            /\ tasks'[n][k] = Unstuck(n, tasks[n][k], AttemptsRead(n, k))
        BY <3>1, <3>2 DEF StuckHit, Swept
      <4> QED BY <1>10, <4>1, <4>2, <4>3 DEF RowStep, AttemptsRead
    <3>3. CASE ~StuckHit(n, k)
      BY <3>1, <3>3 DEF Swept, RowStep
    <3> QED BY <3>2, <3>3
  <2> QED BY <2>1, <2>2
<1> HIDE DEF Same, Goal
<1>11. Goal
  BY <1>1, <1>4, <1>5, <1>6, <1>7, <1>8, <1>9, <1>10, StepCases DEF Same
<1> QED BY <1>11 DEF Goal

-----------------------------------------------------------------------------
(* Assignee and attempts: properties of each row by itself, kept by every  *)
(* change a step can make to a row.                                        *)

RowOK(n, t) ==
    /\ t.status = "PENDING"  => t.agent = NoAgent
    /\ t.status = "ASSIGNED" => t.agent # NoAgent
    /\ t.status \in {"PENDING", "ASSIGNED"} => t.attempts = 0 \/ t.attempts < MaxAttempts[n]

\* Whatever a step may do to a row, agent and attempts go with its status.
LEMMA RowStepOK ==
    ASSUME TypeInv, NEW n \in Node, NEW k, NEW t \in Task, NEW u,
           RowOK(n, t), RowStep(n, k, t, u)
    PROVE  RowOK(n, u)
<1> USE DefinitionAssumption, DeploymentAssumption DEF RowOK, Task
<1>1. ASSUME NEW w \in Worker, t.status = "PENDING", u = Claimed(t, w) PROVE RowOK(n, u)
  BY <1>1 DEF Claimed
<1>2. CASE u = Finished(t)
  BY <1>2 DEF Finished
<1>3. ASSUME NEW a \in Int, u = Given(n, t, a) PROVE RowOK(n, u)
  BY <1>3 DEF Given, Exhausted
<1>4. CASE u = Aged(t)
  BY <1>4 DEF Aged
<1>5. CASE t.status = "ASSIGNED" /\ u = Requeued(t)
  BY <1>5 DEF Requeued
<1>6. ASSUME NEW a \in Int, u = Unstuck(n, t, a) PROVE RowOK(n, u)
  <2>1. CASE Exhausted(n, a + 1)
    BY <1>6, <2>1 DEF Unstuck
  <2>2. CASE ~Exhausted(n, a + 1)
    BY <1>6, <2>2 DEF Unstuck, Requeued, Exhausted
  <2> QED BY <2>1, <2>2
<1>7. /\ \A w \in Worker : att[w] + 1 \in Int
      /\ \A r \in stuck.rows : r[2] \in Int
  BY DEF TypeInv, TypeOK
<1> QED BY <1>1, <1>2, <1>3, <1>4, <1>5, <1>6, <1>7 DEF RowStep

RowsOK == \A n \in Node : \A k \in DOMAIN tasks[n] : RowOK(n, tasks[n][k])

\* No step leaves a row whose agent or attempts do not go with its status.
LEMMA RowsOKStep == TypeInv /\ RowsOK /\ [Next]_vars => RowsOK'
<1> SUFFICES ASSUME TypeInv, RowsOK, [Next]_vars,
                    NEW n \in Node, NEW k \in DOMAIN tasks'[n]
             PROVE  RowOK(n, tasks'[n][k])
  BY DEF RowsOK
<1>1. CASE k \in DOMAIN tasks[n]
  <2>1. tasks[n][k] \in Task
    BY <1>1 DEF TypeInv, TypeOK
  <2>2. RowStep(n, k, tasks[n][k], tasks'[n][k])
    BY <1>1, RowSteps
  <2> QED BY <1>1, <2>1, <2>2, RowStepOK DEF RowsOK
<1>2. CASE k \notin DOMAIN tasks[n]
  <2>1. tasks'[n][k] = NewTask
    BY <1>2, RowSteps
  <2> QED BY <2>1 DEF RowOK, NewTask
<1> QED BY <1>1, <1>2

\* In every behaviour.
LEMMA RowsOKHolds == Spec => []RowsOK
<1>1. Init => RowsOK
  BY DEF Init, RowsOK
<1> QED BY <1>1, RowsOKStep, TypeCorrect, PTL DEF Spec

\* Whatever stale writes the engine and the sweeps make over each other, each
\* row keeps an assignee that fits its status.
THEOREM RowsSafe == Spec => []AssigneeMatchesStatus
<1>1. RowsOK => AssigneeMatchesStatus
  BY DEF RowsOK, RowOK, AssigneeMatchesStatus
<1> QED BY <1>1, RowsOKHolds, PTL

\* No step takes a claimed task from one agent and gives it to another.
THEOREM ClaimsNotStolen == Spec => NoSteal
<1>1. TypeInv /\ [Next]_vars =>
        [\A n \in Node : \A k \in DOMAIN tasks[n] :
            tasks[n][k].status = "ASSIGNED" /\ tasks'[n][k].status = "ASSIGNED"
                => tasks'[n][k].agent = tasks[n][k].agent]_vars
  <2> SUFFICES ASSUME TypeInv, [Next]_vars, NEW n \in Node, NEW k \in DOMAIN tasks[n],
                      tasks[n][k].status = "ASSIGNED", tasks'[n][k].status = "ASSIGNED"
               PROVE  tasks'[n][k].agent = tasks[n][k].agent
    OBVIOUS
  <2> DEFINE t == tasks[n][k]
             u == tasks'[n][k]
  <2>1. t \in Task /\ RowStep(n, k, t, u)
    BY RowSteps DEF TypeInv, TypeOK
  <2>2. u = t \/ u = Aged(t)
    <3>0. u # Finished(t)
      BY <2>1 DEF Finished, Task
    <3>1. ASSUME NEW a PROVE u # Given(n, t, a)
      <4>1. Given(n, t, a).status # "ASSIGNED"
        BY <2>1 DEF Given, Task
      <4> QED BY <4>1
    <3>2. u # Requeued(t)
      BY <2>1 DEF Requeued, Task
    <3>3. ASSUME NEW a PROVE u # Unstuck(n, t, a)
      BY <2>1 DEF Unstuck, Requeued, Task
    <3> QED BY <2>1, <3>0, <3>1, <3>2, <3>3 DEF RowStep
  <2> QED BY <2>1, <2>2 DEF Aged, Task
<1> QED BY <1>1, TypeCorrect, PTL DEF Spec, NoSteal

-----------------------------------------------------------------------------
(* What a step does to the variables that the invariants speak of.         *)

\* The history only grows.
LEMMA ReachedGrows == ASSUME [Next]_vars PROVE reached \subseteq reached'
<1>1. CASE UNCHANGED <<tasks, reached>>
  BY <1>1
<1>2. ASSUME NEW w \in Worker, ClaimWins(w) \/ CompleteWrite(w) \/ FailWrite(w)
      PROVE  reached \subseteq reached'
  BY <1>2 DEF ClaimWins, CompleteWrite, FailWrite, envVars
<1>3. ASSUME NEW p \in Proc, Settle(p) PROVE reached \subseteq reached'
  BY <1>3 DEF Settle, envVars
<1>4. CASE \E id \in Rows : TaskGoesStale(id)
  BY <1>4 DEF TaskGoesStale
<1>5. CASE HeartbeatSweepWrite \/ StuckSweepWrite
  BY <1>5 DEF HeartbeatSweepWrite, StuckSweepWrite
<1> QED BY <1>1, <1>2, <1>3, <1>4, <1>5, StepCases

\* What a node ever had it goes on having had.
LEMMA EverHadGrows ==
    ASSUME [Next]_vars, NEW n, NEW s, EverHad(n, s)
    PROVE  EverHad(n, s)'
BY ReachedGrows DEF EverHad

\* advance is the only reader of the tasks that keeps what it read.
LEMMA ViewSteps ==
    ASSUME TypeInv, [Next]_vars, NEW p \in Proc
    PROVE  \/ view'[p] = view[p]
           \/ view'[p] = NoView
           \/ view'[p] = [n \in Node |-> Latest(n)]
<1> USE DEF TypeInv, TypeOK, dbVars, tableVars, procVars, locals, sweepVars, envVars
<1>1. ASSUME NEW w \in Worker,
             \/ WorkerStep(w) \/ RunOnceRefused(w) \/ PlanningRaises(w) \/ ClaimRaises(w)
             \/ Restart(w) \/ AgentGoesStale(w)
      PROVE  view' = view
  BY <1>1
     DEF WorkerStep, RunOnce, RunOnceRefused, Select, ClaimWins, ClaimLoses, ClaimNothing,
         Begin, PlanningRaises, ClaimRaises, HandlerReturns, HandlerRaises, CompleteCheck, CompleteWrite,
         CompletePublish, FailCheck, FailRefused, FailWrite, FailPublish, Escalate,
         Approve, Recover, Restart, AgentGoesStale
<1>2. ASSUME NEW w \in Worker, CompleteRaises(w) \/ FailRaises(w) \/ Crash(w)
      PROVE  view' = [view EXCEPT ![w] = NoView]
  BY <1>2 DEF CompleteRaises, FailRaises, Crash
<1>3. ASSUME NEW q \in Proc, Advance(q)
      PROVE  \/ view' = view
             \/ view' = [view EXCEPT ![q] = NoView]
             \/ view' = [view EXCEPT ![q] = [n \in Node |-> Latest(n)]]
  BY <1>3 DEF Advance, GetRun, ListTasks, Settle, Settled
<1>4. ASSUME \/ StartRun \/ Resume \/ UNCHANGED vars
             \/ \E id \in Rows : TaskGoesStale(id)
             \/ HeartbeatSweep \/ HeartbeatSweepDies \/ StuckSweep \/ StuckSweepDies
      PROVE  view' = view
  BY <1>4
     DEF StartRun, Resume, TaskGoesStale, HeartbeatSweep, HeartbeatSweepRead,
         HeartbeatSweepWrite, HeartbeatSweepDies, StuckSweep, StuckSweepRead,
         StuckSweepWrite, StuckSweepPublish, StuckSweepDies, vars
<1>5. ASSUME ClientStops PROVE view' = [view EXCEPT ![Client] = NoView]
  BY <1>5 DEF ClientStops
<1>6. view \in [Proc -> [Node -> TaskStatus \cup {"none"}]]
  OBVIOUS
<1> HIDE DEF TypeInv
<1> QED BY <1>1, <1>2, <1>3, <1>4, <1>5, <1>6 DEF Next, WorkerFault

\* Only start_run and the transaction of advance write the run's status.
LEMMA RunSteps ==
    ASSUME [Next]_vars
    PROVE  run' = run \/ StartRun \/ \E p \in Proc : Settle(p)
<1> USE DEF dbVars, tableVars, procVars, locals, sweepVars, envVars
<1>1. ASSUME NEW w \in Worker,
             \/ WorkerStep(w) \/ RunOnceRefused(w) \/ WorkerFault(w)
             \/ Restart(w) \/ AgentGoesStale(w)
      PROVE  run' = run
  BY <1>1
     DEF WorkerStep, RunOnce, RunOnceRefused, Select, ClaimWins, ClaimLoses, ClaimNothing,
         Begin, WorkerFault, PlanningRaises, ClaimRaises, HandlerReturns, HandlerRaises, CompleteCheck,
         CompleteWrite, CompletePublish, FailCheck, FailRefused, FailWrite, FailPublish,
         Escalate, Approve, Recover, CompleteRaises, FailRaises, Crash, Restart,
         AgentGoesStale
<1>2. ASSUME NEW p \in Proc, Advance(p) PROVE run' = run \/ Settle(p)
  BY <1>2 DEF Advance, GetRun, ListTasks, Settled
<1>3. ASSUME \/ Resume \/ ClientStops \/ UNCHANGED vars
             \/ \E id \in Rows : TaskGoesStale(id)
             \/ HeartbeatSweep \/ HeartbeatSweepDies \/ StuckSweep \/ StuckSweepDies
      PROVE  run' = run
  BY <1>3
     DEF Resume, ClientStops, TaskGoesStale, HeartbeatSweep, HeartbeatSweepRead,
         HeartbeatSweepWrite, HeartbeatSweepDies, StuckSweep, StuckSweepRead,
         StuckSweepWrite, StuckSweepPublish, StuckSweepDies, vars
<1> QED BY <1>1, <1>2, <1>3 DEF Next

\* Where the events come from that the properties speak of.
LEMMA EventSteps ==
    ASSUME [Next]_vars, NEW e \in events', e \notin events
    PROVE  \/ \E w \in Worker : \/ CompletePublish(w) /\ e = <<"task.completed", cur[w]>>
                                \/ Escalate(w) /\ e = <<"council.escalation_requested", cur[w]>>
           \/ \E p \in Proc : Settled(p) /\ e \in RunEvent(view[p])
           \/ e[1] = "task.failed"
<1> USE DEF dbVars, tableVars, procVars, locals, sweepVars, envVars
<1>1. ASSUME NEW w \in Worker,
             \/ RunOnce(w) \/ RunOnceRefused(w) \/ Select(w) \/ ClaimWins(w) \/ ClaimLoses(w)
             \/ ClaimNothing(w) \/ Begin(w) \/ WorkerFault(w)
             \/ HandlerReturns(w) \/ HandlerRaises(w) \/ CompleteCheck(w) \/ CompleteWrite(w)
             \/ FailCheck(w) \/ FailRefused(w) \/ FailWrite(w)
             \/ Approve(w) \/ Recover(w) \/ Restart(w) \/ AgentGoesStale(w)
      PROVE  events' = events
  BY <1>1
     DEF RunOnce, RunOnceRefused, Select, ClaimWins, ClaimLoses, ClaimNothing,
         Begin, WorkerFault, PlanningRaises, ClaimRaises, HandlerReturns, HandlerRaises, CompleteCheck,
         CompleteWrite, FailCheck, FailRefused, FailWrite, Approve, Recover,
         CompleteRaises, FailRaises, Crash, Restart, AgentGoesStale
<1>2. ASSUME NEW w \in Worker, CompletePublish(w) PROVE e = <<"task.completed", cur[w]>>
  BY <1>2 DEF CompletePublish
<1>3. ASSUME NEW w \in Worker, Escalate(w)
      PROVE  e = <<"council.escalation_requested", cur[w]>>
  BY <1>3 DEF Escalate
<1>4. ASSUME NEW w \in Worker, FailPublish(w) PROVE e[1] = "task.failed"
  BY <1>4 DEF FailPublish
<1>5. ASSUME NEW p \in Proc, Advance(p) PROVE Settled(p) /\ e \in RunEvent(view[p])
  BY <1>5 DEF Advance, GetRun, ListTasks, Settle, Settled
<1>6. ASSUME StuckSweepPublish PROVE e[1] = "task.failed"
  BY <1>6 DEF StuckSweepPublish
<1>7. ASSUME \/ StartRun \/ Resume \/ ClientStops \/ UNCHANGED vars
             \/ \E id \in Rows : TaskGoesStale(id)
             \/ HeartbeatSweep \/ HeartbeatSweepDies
             \/ StuckSweepRead \/ StuckSweepWrite \/ StuckSweepDies
      PROVE  events' = events
  BY <1>7
     DEF StartRun, Resume, ClientStops, TaskGoesStale, HeartbeatSweep, HeartbeatSweepRead,
         HeartbeatSweepWrite, HeartbeatSweepDies, StuckSweepRead,
         StuckSweepWrite, StuckSweepDies, vars
<1> QED BY <1>1, <1>2, <1>3, <1>4, <1>5, <1>6, <1>7 DEF Next, WorkerStep, StuckSweep

\* What a write of one row leaves in each place of the tables.
LEMMA OneRowWritten ==
    ASSUME TypeInv, NEW id \in Rows, NEW r \in Task, tasks' = WithRow(id, r),
           NEW n \in Node, NEW k \in DOMAIN tasks'[n]
    PROVE  /\ k \in DOMAIN tasks[n]
           /\ tasks'[n][k] = IF <<n, k>> = id THEN r ELSE tasks[n][k]
<1>1. tasks \in [Node -> Seq(Task)] /\ id \in TaskId
  BY RowsChar DEF TypeInv, TypeOK
<1> QED BY <1>1, WithRowType

\* The row a worker has in hand while it reports.
LEMMA HeldRow ==
    ASSUME TypeInv, NEW w \in Worker, pc[w] \in Holding
    PROVE  /\ cur[w] \in Rows /\ Row(cur[w]) \in Task
           /\ cur[w][1] \in Node /\ cur[w][2] \in DOMAIN tasks[cur[w][1]]
           /\ cur[w] = <<cur[w][1], cur[w][2]>>
<1>1. cur[w] \in Rows /\ tasks \in [Node -> Seq(Task)]
  BY DEF TypeInv, TypeOK, HeldRows
<1> QED BY <1>1, RowsChar DEF TaskId

-----------------------------------------------------------------------------
(* The history knows every final status that a row shows.                  *)

Final == {"DONE", "FAILED"}

RowsInHistory ==
    \A n \in Node : \A k \in DOMAIN tasks[n] :
        tasks[n][k].status \in Final => <<n, k, tasks[n][k].status>> \in reached

\* No step writes a final status that the history does not know of.
LEMMA RowsInHistoryStep ==
    ASSUME TypeInv, RowsInHistory, [Next]_vars
    PROVE  RowsInHistory'
<1> SUFFICES ASSUME NEW n \in Node, NEW k \in DOMAIN tasks'[n],
                    tasks'[n][k].status \in Final
             PROVE  <<n, k, tasks'[n][k].status>> \in reached'
  BY DEF RowsInHistory
<1> DEFINE Goal == <<n, k, tasks'[n][k].status>> \in reached'
<1>0. ASSUME k \in DOMAIN tasks[n], tasks'[n][k].status = tasks[n][k].status PROVE Goal
  BY <1>0, ReachedGrows DEF RowsInHistory
<1>1. CASE UNCHANGED <<tasks, reached>>
  BY <1>0, <1>1
<1>2. ASSUME NEW w \in Worker, ClaimWins(w) PROVE Goal
  <2>1. PICK id \in seen[w] : tasks' = WithRow(id, Claimed(Row(id), w))
    BY <1>2 DEF ClaimWins, Claimed
  <2>2. id \in Rows /\ Row(id) \in Task
    BY RowsChar DEF TypeInv, TypeOK, HeldRows
  <2>3. Claimed(Row(id), w) \in Task /\ Claimed(Row(id), w).status = "ASSIGNED"
    BY <2>2, NewRowTypes DEF Claimed, Task
  <2> HIDE DEF Goal
  <2> QED BY <1>0, <2>1, <2>2, <2>3, OneRowWritten DEF Final
<1>3. ASSUME NEW w \in Worker, CompleteWrite(w) PROVE Goal
  <2>1. /\ cur[w] \in Rows /\ Row(cur[w]) \in Task
        /\ cur[w] = <<cur[w][1], cur[w][2]>>
    BY <1>3, HeldRow DEF CompleteWrite, Holding, Labels
  <2>2. /\ tasks' = WithRow(cur[w], Finished(Row(cur[w])))
        /\ reached' = reached \cup {<<cur[w][1], cur[w][2], "DONE">>}
    BY <1>3 DEF CompleteWrite, Finished
  <2>3. Finished(Row(cur[w])) \in Task /\ Finished(Row(cur[w])).status = "DONE"
    BY <2>1, NewRowTypes DEF Finished, Task
  <2>4. CASE <<n, k>> = cur[w]
    <3>1. n = cur[w][1] /\ k = cur[w][2]
      BY <2>1, <2>4
    <3>2. tasks'[n][k] = Finished(Row(cur[w]))
      BY <2>1, <2>2, <2>3, <2>4, OneRowWritten
    <3> QED BY <2>2, <2>3, <3>1, <3>2
  <2>5. CASE <<n, k>> # cur[w]
    BY <1>0, <2>1, <2>2, <2>3, <2>5, OneRowWritten
  <2> QED BY <2>4, <2>5
<1>4. ASSUME NEW w \in Worker, FailWrite(w) PROVE Goal
  <2> DEFINE r == Given(cur[w][1], Row(cur[w]), att[w] + 1)
  <2>1. /\ pc[w] \in Holding /\ cur[w] \in Rows /\ Row(cur[w]) \in Task
        /\ cur[w] = <<cur[w][1], cur[w][2]>>
    BY <1>4, HeldRow DEF FailWrite, Holding, Labels
  <2>2. /\ tasks' = WithRow(cur[w], r)
        /\ r.status = "FAILED" => <<cur[w][1], cur[w][2], "FAILED">> \in reached'
    BY <1>4 DEF FailWrite, Given
  <2>3. r \in Task /\ r.status \in {"PENDING", "FAILED"}
    <3>1. att[w] + 1 \in Int
      BY DEF TypeInv, TypeOK
    <3>2. cur[w][1] \in Node /\ Row(cur[w]) \in Task
      BY <2>1, HeldRow
    <3>3. ASSUME NEW m \in Node, NEW t \in Task, NEW a \in Int
          PROVE  Given(m, t, a) \in Task /\ Given(m, t, a).status \in {"PENDING", "FAILED"}
      <4>1. Given(m, t, a).status = IF Exhausted(m, a) THEN "FAILED" ELSE "PENDING"
        BY NewRowTypes
      <4> QED BY <4>1, NewRowTypes
    <3> QED BY <3>1, <3>2, <3>3
  <2> HIDE DEF r
  <2>4. CASE <<n, k>> = cur[w]
    <3>1. tasks'[n][k] = r
      BY <2>1, <2>2, <2>3, <2>4, OneRowWritten
    <3>2. n = cur[w][1] /\ k = cur[w][2]
      BY <2>1, <2>4
    <3> QED BY <2>2, <2>3, <3>1, <3>2 DEF Final
  <2>5. CASE <<n, k>> # cur[w]
    BY <1>0, <2>1, <2>2, <2>3, <2>5, OneRowWritten
  <2> QED BY <2>4, <2>5
<1>5. ASSUME NEW p \in Proc, Settle(p) PROVE Goal
  <2>1. k \in DOMAIN tasks[n] => tasks'[n][k] = tasks[n][k]
    <3>1. tasks[n] \in Seq(Task) /\ tasks'[n] \in {tasks[n], Append(tasks[n], NewTask)}
      BY <1>5 DEF Settle, TypeInv, TypeOK
    <3>2. NewTask \in Task
      BY DEF NewTask, Task, TaskStatus
    <3> QED BY <3>1, <3>2, AppendProperties
  <2>2. k \notin DOMAIN tasks[n] => tasks'[n][k].status = "PENDING"
    BY RowSteps DEF NewTask
  <2> QED BY <1>0, <2>1, <2>2 DEF Final
<1>6. ASSUME NEW id \in Rows, TaskGoesStale(id) PROVE Goal
  <2>1. Row(id) \in Task
    BY RowsChar DEF TypeInv, TypeOK
  <2>2. tasks' = WithRow(id, Aged(Row(id))) /\ Row(id).status = "ASSIGNED"
    BY <1>6 DEF TaskGoesStale, Aged
  <2>3. Aged(Row(id)) \in Task /\ Aged(Row(id)).status = "ASSIGNED"
    BY <2>1, <2>2 DEF Aged, Task
  <2> HIDE DEF Goal
  <2> QED BY <1>0, <2>1, <2>2, <2>3, OneRowWritten DEF Final
<1>7. ASSUME HeartbeatSweepWrite PROVE Goal
  <2>1. /\ k \in DOMAIN tasks[n]
        /\ tasks'[n][k] \in {tasks[n][k], Requeued(tasks[n][k])}
    BY <1>7 DEF HeartbeatSweepWrite
  <2>2. tasks[n][k] \in Task
    BY <2>1 DEF TypeInv, TypeOK
  <2>3. Requeued(tasks[n][k]).status = "PENDING"
    BY <2>2 DEF Requeued, Task
  <2> QED BY <1>0, <2>1, <2>3 DEF Final
<1>8. ASSUME StuckSweepWrite PROVE Goal
  <2>1. k \in DOMAIN tasks[n] /\ tasks'[n][k] = Swept(n, k)
    BY <1>8 DEF StuckSweepWrite
  <2>2. tasks[n][k] \in Task
    BY <2>1 DEF TypeInv, TypeOK
  <2>3. CASE StuckHit(n, k)
    <3> DEFINE a == AttemptsRead(n, k)
    <3>1. Swept(n, k) = Unstuck(n, tasks[n][k], a)
      BY <2>3 DEF Swept
    <3>2. Unstuck(n, tasks[n][k], a).status \in {"PENDING", "FAILED"}
      BY <2>2 DEF Unstuck, Requeued, Task
    <3>3. <<n, k>> \in Rows
      BY <2>1, RowsChar DEF TypeInv, TypeOK
    <3>4. Swept(n, k).status = "FAILED" => <<n, k, "FAILED">> \in reached'
      BY <1>8, <2>3, <3>3 DEF StuckSweepWrite
    <3> QED BY <2>1, <3>1, <3>2, <3>4 DEF Final
  <2>4. CASE ~StuckHit(n, k)
    BY <1>0, <2>1, <2>4 DEF Swept
  <2> QED BY <2>3, <2>4
<1> QED BY <1>1, <1>2, <1>3, <1>4, <1>5, <1>6, <1>7, <1>8, StepCases

-----------------------------------------------------------------------------
(* What advance read is old news at worst: it was true of some task once.  *)

ViewSound ==
    \A p \in Proc : \A n \in Node :
        view[p][n] \in Final => EverHad(n, view[p][n])

\* No step of advance reads a final status that no row ever had.
LEMMA ViewSoundStep ==
    ASSUME TypeInv, RowsInHistory, ViewSound, [Next]_vars
    PROVE  ViewSound'
<1> SUFFICES ASSUME NEW p \in Proc, NEW n \in Node, view'[p][n] \in Final
             PROVE  EverHad(n, view[p][n])'
  BY DEF ViewSound
<1>1. CASE view'[p] = view[p]
  <2>1. EverHad(n, view[p][n])
    BY <1>1 DEF ViewSound
  <2> QED BY <1>1, <2>1, ReachedGrows DEF EverHad
<1>2. CASE view'[p] = NoView
  BY <1>2 DEF NoView, Final
<1>3. CASE view'[p] = [m \in Node |-> Latest(m)]
  <2>1. view'[p][n] = Latest(n)
    BY <1>3
  <2>2. tasks[n] # <<>> /\ Latest(n) = tasks[n][Len(tasks[n])].status
    BY <2>1 DEF Latest, Final
  <2>3. Len(tasks[n]) \in DOMAIN tasks[n]
    BY <2>2 DEF TypeInv, TypeOK
  <2>4. <<n, Len(tasks[n]), Latest(n)>> \in reached'
    BY <2>1, <2>2, <2>3, ReachedGrows DEF RowsInHistory
  <2>5. \E r \in reached' : r[1] = n /\ r[3] = view'[p][n]
    <3> DEFINE r == <<n, Len(tasks[n]), Latest(n)>>
    <3>1. r \in reached' /\ r[1] = n /\ r[3] = view'[p][n]
      BY <2>1, <2>4
    <3> QED BY <3>1
  <2> QED BY <2>5 DEF EverHad
<1> QED BY <1>1, <1>2, <1>3, ViewSteps

-----------------------------------------------------------------------------
(* No task before its dependencies, no verdict without its reasons.        *)

\* advance creates no task before all dependencies of its node were DONE.
LEMMA DepsDoneFirstStep ==
    ASSUME TypeInv, ViewSound, DepsDoneFirst, [Next]_vars
    PROVE  DepsDoneFirst'
<1> SUFFICES ASSUME NEW n \in Node, tasks'[n] # <<>>, NEW d \in Deps[n]
             PROVE  EverHad(d, "DONE")'
  BY DEF DepsDoneFirst
<1>1. CASE tasks[n] # <<>>
  BY <1>1, EverHadGrows DEF DepsDoneFirst
<1>2. CASE tasks[n] = <<>>
  <2>1. tasks' \in [Node -> Seq(Task)]
    BY TypeStep DEF TypeInv, TypeOK
  <2>2. 1 \in DOMAIN tasks'[n] /\ 1 \notin DOMAIN tasks[n]
    BY <1>2, <2>1
  <2>3. PICK p \in Proc : pc[p] = "settle" /\ n \in Ready(view[p])
    BY <2>2, RowSteps
  <2>4. d \in Node /\ view[p][d] = "DONE"
    BY <2>3, DefinitionAssumption DEF Ready
  <2>5. EverHad(d, "DONE")
    BY <2>4 DEF ViewSound, Final
  <2> QED BY <2>5, EverHadGrows
<1> QED BY <1>1, <1>2

\* What a verdict computed from a view that is sound rests on.
LEMMA VerdictOfView ==
    ASSUME TypeInv, ViewSound, NEW p \in Proc
    PROVE  /\ Verdict(view[p]) = "COMPLETED" => \A n \in Node : EverHad(n, "DONE")
           /\ Verdict(view[p]) = "FAILED" => \E n \in Node : EverHad(n, "FAILED")
BY DEF ViewSound, Verdict, Final

\* advance writes no verdict that the rows it read do not give.
LEMMA VerdictJustifiedStep ==
    ASSUME TypeInv, ViewSound, VerdictJustified, [Next]_vars
    PROVE  VerdictJustified'
<1> DEFINE AllDone == \A n \in Node : EverHad(n, "DONE")
           OneFailed == \E n \in Node : EverHad(n, "FAILED")
<1>1. (AllDone => AllDone') /\ (OneFailed => OneFailed')
  BY EverHadGrows
<1>2. \A p \in Proc : /\ Verdict(view[p]) = "COMPLETED" => AllDone
                      /\ Verdict(view[p]) = "FAILED" => OneFailed
  BY VerdictOfView
<1>3. run' \in {run, "RUNNING"} \/ \E p \in Proc : run' = Verdict(view[p])
  BY RunSteps DEF StartRun, Settle
<1>4. ASSUME NEW e \in events', e \notin events
      PROVE  /\ e = <<"workflow.run_completed">> =>
                    \E p \in Proc : Verdict(view[p]) = "COMPLETED"
             /\ e = <<"workflow.run_failed">> =>
                    \E p \in Proc : Verdict(view[p]) = "FAILED"
  BY <1>4, EventSteps DEF RunEvent
<1>5. /\ run = "COMPLETED" \/ <<"workflow.run_completed">> \in events => AllDone
      /\ run = "FAILED" \/ <<"workflow.run_failed">> \in events => OneFailed
  BY DEF VerdictJustified
<1>6. run' = "COMPLETED" \/ <<"workflow.run_completed">> \in events' => AllDone
  BY <1>2, <1>3, <1>4, <1>5
<1>7. run' = "FAILED" \/ <<"workflow.run_failed">> \in events' => OneFailed
  BY <1>2, <1>3, <1>4, <1>5
<1> HIDE DEF AllDone, OneFailed
<1>8. /\ run' = "COMPLETED" \/ <<"workflow.run_completed">> \in events' => AllDone'
      /\ run' = "FAILED" \/ <<"workflow.run_failed">> \in events' => OneFailed'
  BY <1>1, <1>6, <1>7
<1> QED BY <1>8 DEF VerdictJustified, AllDone, OneFailed

\* The history of the rows and of the views, for every behaviour.
THEOREM HistorySound == Spec => [](RowsInHistory /\ ViewSound)
<1>1. Init => RowsInHistory /\ ViewSound
  BY DEF Init, RowsInHistory, ViewSound, NoView, Final
<1>2. TypeInv /\ (RowsInHistory /\ ViewSound) /\ [Next]_vars
          => (RowsInHistory /\ ViewSound)'
  BY RowsInHistoryStep, ViewSoundStep
<1> QED BY <1>1, <1>2, TypeCorrect, PTL DEF Spec

\* However old the rows are that advance acts upon, no task exists before each
\* of its node's dependencies has been DONE.
THEOREM DepsRespected == Spec => []DepsDoneFirst
<1>1. Init => DepsDoneFirst
  BY DEF Init, DepsDoneFirst
<1>2. TypeInv /\ ViewSound /\ DepsDoneFirst /\ [Next]_vars => DepsDoneFirst'
  BY DepsDoneFirstStep
<1> QED BY <1>1, <1>2, TypeCorrect, HistorySound, PTL DEF Spec

\* A verdict, in the row of the run or among the events, rests on statuses
\* that tasks really had.
THEOREM VerdictsJustified == Spec => []VerdictJustified
<1>1. Init => VerdictJustified
  BY DEF Init, VerdictJustified
<1>2. TypeInv /\ ViewSound /\ VerdictJustified /\ [Next]_vars => VerdictJustified'
  BY VerdictJustifiedStep
<1> QED BY <1>1, <1>2, TypeCorrect, HistorySound, PTL DEF Spec

-----------------------------------------------------------------------------
(* What a process is about to report is committed already.                 *)

\* A step of w itself, the engine calls it makes included.
OwnStep(w) == WorkerStep(w) \/ WorkerFault(w) \/ Restart(w) \/ Advance(w)

\* Nobody but w moves w: the other processes leave its locals alone.
LEMMA LocalsAreOwn ==
    ASSUME TypeInv, [Next]_vars, NEW w \in Worker, ~OwnStep(w)
    PROVE  /\ pc'[w] = pc[w] /\ cur'[w] = cur[w] /\ att'[w] = att[w]
           /\ ret'[w] = ret[w] /\ fsm'[w] = fsm[w] /\ view'[w] = view[w]
<1>0. /\ pc \in [Proc -> Labels] /\ ret \in [Proc -> {"idle", "approve", "recover"}]
      /\ cur \in [Worker -> TaskId \cup {NoTask}] /\ att \in [Worker -> Int]
      /\ fsm \in [Worker -> AgentState] /\ w \in Proc
      /\ view \in [Proc -> [Node -> TaskStatus \cup {"none"}]]
  BY DEF TypeInv, TypeOK, Proc
<1> USE DEF dbVars, tableVars, procVars, locals, sweepVars, envVars, Goto
<1> DEFINE Quiet == /\ pc'[w] = pc[w] /\ cur'[w] = cur[w] /\ att'[w] = att[w]
                    /\ ret'[w] = ret[w] /\ fsm'[w] = fsm[w] /\ view'[w] = view[w]
<1>1. ASSUME NEW v \in Worker, v # w,
             \/ RunOnce(v) \/ Select(v) \/ ClaimWins(v) \/ ClaimLoses(v) \/ ClaimNothing(v)
             \/ Begin(v) \/ HandlerReturns(v) \/ HandlerRaises(v) \/ CompleteCheck(v)
             \/ CompleteWrite(v) \/ CompletePublish(v)
      PROVE  Quiet
  BY <1>0, <1>1 DEF RunOnce, Select, ClaimWins, ClaimLoses, ClaimNothing, Begin, Fire, Leave,
              HandlerReturns, HandlerRaises, CompleteCheck, CompleteWrite, CompletePublish
<1>2. ASSUME NEW v \in Worker, v # w,
             \/ FailCheck(v) \/ FailRefused(v) \/ FailWrite(v) \/ FailPublish(v)
             \/ Escalate(v) \/ Approve(v) \/ Recover(v)
             \/ WorkerFault(v) \/ Restart(v)
      PROVE  Quiet
  BY <1>0, <1>2 DEF FailCheck, FailRefused, FailWrite, FailPublish, Escalate, Approve, Recover,
              WorkerFault, PlanningRaises, ClaimRaises, CompleteRaises, FailRaises, Crash, Restart, Fire, Leave
<1>3. ASSUME NEW v \in Worker, RunOnceRefused(v) \/ AgentGoesStale(v)
      PROVE  Quiet
  BY <1>3 DEF RunOnceRefused, AgentGoesStale
<1>4. ASSUME NEW p \in Proc, p # w, Advance(p) PROVE Quiet
  BY <1>0, <1>4 DEF Advance, GetRun, ListTasks, Settle, Settled
<1>5. ASSUME StartRun \/ Resume \/ ClientStops PROVE Quiet
  BY <1>0, <1>5, DeploymentAssumption DEF StartRun, Resume, ClientStops, Proc
<1>6. ASSUME \/ \E id \in Rows : TaskGoesStale(id)
             \/ HeartbeatSweep \/ HeartbeatSweepDies \/ StuckSweep \/ StuckSweepDies
             \/ UNCHANGED vars
      PROVE  Quiet
  BY <1>6
     DEF TaskGoesStale, HeartbeatSweep, HeartbeatSweepRead, HeartbeatSweepWrite,
         HeartbeatSweepDies, StuckSweep, StuckSweepRead, StuckSweepWrite,
         StuckSweepPublish, StuckSweepDies, vars
<1> HIDE DEF Quiet
<1>7. Quiet
  BY <1>1, <1>2, <1>3, <1>4, <1>5, <1>6 DEF Next, WorkerStep, OwnStep
<1> QED BY <1>7 DEF Quiet

\* The program counters from which the engine reports.
Committed ==
    \A w \in Worker :
        /\ pc[w] = "completed" => <<cur[w][1], cur[w][2], "DONE">> \in reached
        /\ pc[w] = "failed" /\ Exhausted(cur[w][1], att[w] + 1) =>
               <<cur[w][1], cur[w][2], "FAILED">> \in reached
        /\ pc[w] = "escalate" => <<cur[w][1], cur[w][2], "FAILED">> \in reached

\* No step reaches a publish before its row is committed.
LEMMA CommittedStep ==
    ASSUME TypeInv, Committed, [Next]_vars
    PROVE  Committed'
<1> SUFFICES ASSUME NEW w \in Worker
             PROVE
        /\ pc'[w] = "completed" => <<cur'[w][1], cur'[w][2], "DONE">> \in reached'
        /\ pc'[w] = "failed" /\ Exhausted(cur'[w][1], att'[w] + 1) =>
               <<cur'[w][1], cur'[w][2], "FAILED">> \in reached'
        /\ pc'[w] = "escalate" => <<cur'[w][1], cur'[w][2], "FAILED">> \in reached'
  BY DEF Committed, Exhausted
<1> USE DEF TypeInv, TypeOK, Goto, locals, Proc
<1>1. CASE ~OwnStep(w)
  BY <1>1, LocalsAreOwn, ReachedGrows DEF Committed, Exhausted
<1>2. CASE \/ RunOnce(w) \/ Select(w) \/ ClaimWins(w) \/ ClaimLoses(w) \/ ClaimNothing(w)
           \/ Begin(w) \/ HandlerReturns(w) \/ HandlerRaises(w) \/ CompleteCheck(w)
           \/ CompletePublish(w) \/ FailCheck(w) \/ FailRefused(w)
           \/ Escalate(w) \/ Approve(w) \/ Recover(w) \/ WorkerFault(w) \/ Restart(w)
           \/ Advance(w)
  <2>1. pc'[w] \notin {"completed", "failed", "escalate"}
    BY <1>2
       DEF RunOnce, Select, ClaimWins, ClaimLoses, ClaimNothing, Begin, Leave,
           HandlerReturns, HandlerRaises, CompleteCheck, CompletePublish, FailCheck,
           FailRefused, Escalate, Approve, Recover, WorkerFault, PlanningRaises, ClaimRaises,
           CompleteRaises, FailRaises, Crash, Restart, Advance, GetRun, ListTasks,
           Settle, Settled
  <2> QED BY <2>1
<1>3. CASE CompleteWrite(w)
  BY <1>3 DEF CompleteWrite
<1>4. CASE FailWrite(w)
  BY <1>4 DEF FailWrite, Exhausted
<1>5. CASE FailPublish(w)
  BY <1>5, ReachedGrows DEF FailPublish, Committed, Exhausted
<1> QED BY <1>1, <1>2, <1>3, <1>4, <1>5 DEF OwnStep, WorkerStep

\* No step publishes an outcome that is not committed.
LEMMA EventsAfterCommitStep ==
    ASSUME TypeInv, Committed, EventsAfterCommit, [Next]_vars
    PROVE  EventsAfterCommit'
<1> SUFFICES ASSUME NEW e \in events'
             PROVE  /\ e[1] = "task.completed" => <<e[2][1], e[2][2], "DONE">> \in reached'
                    /\ e[1] = "council.escalation_requested" =>
                           <<e[2][1], e[2][2], "FAILED">> \in reached'
  BY DEF EventsAfterCommit
<1>1. CASE e \in events
  BY <1>1, ReachedGrows DEF EventsAfterCommit
<1>2. CASE e \notin events
  <2>1. ASSUME NEW w \in Worker, CompletePublish(w), e = <<"task.completed", cur[w]>>
        PROVE  <<e[2][1], e[2][2], "DONE">> \in reached'
    BY <2>1, ReachedGrows DEF CompletePublish, Committed
  <2>2. ASSUME NEW w \in Worker, Escalate(w),
               e = <<"council.escalation_requested", cur[w]>>
        PROVE  <<e[2][1], e[2][2], "FAILED">> \in reached'
    BY <2>2, ReachedGrows DEF Escalate, Committed
  <2>3. ASSUME NEW p \in Proc, e \in RunEvent(view[p])
        PROVE  e[1] \in {"workflow.run_failed", "workflow.run_completed"}
    BY <2>3 DEF RunEvent
  <2> QED BY <1>2, <2>1, <2>2, <2>3, EventSteps
<1> QED BY <1>1, <1>2

\* The engine announces a completion or an escalation only when the row has
\* said so before: it commits first and publishes after.
THEOREM CommitsComeFirst == Spec => []EventsAfterCommit
<1>1. Init => Committed /\ EventsAfterCommit
  BY DEF Init, Committed, EventsAfterCommit, Proc
<1>2. TypeInv /\ (Committed /\ EventsAfterCommit) /\ [Next]_vars
          => (Committed /\ EventsAfterCommit)'
  BY CommittedStep, EventsAfterCommitStep
<1> QED BY <1>1, <1>2, TypeCorrect, PTL DEF Spec

-----------------------------------------------------------------------------
(* The agent's state machine.                                              *)

\* The table is deterministic: `handle` has one state to move to.
LEMMA AfterIs ==
    ASSUME NEW s, NEW e, NEW t, <<s, e, t>> \in Transitions
    PROVE  After(s, e) = t /\ Legal(s, e)
<1>1. t \in AgentState
  BY DEF Transitions, AgentState
<1>2. \A x : <<s, e, x>> \in Transitions => x = t
  BY DEF Transitions
<1>3. Legal(s, e)
  <2> DEFINE r == <<s, e, t>>
  <2>1. r \in Transitions /\ r[1] = s /\ r[2] = e
    OBVIOUS
  <2> QED BY <2>1 DEF Legal
<1>4. (CHOOSE x \in AgentState : <<s, e, x>> \in Transitions) = t
  BY <1>1, <1>2
<1> QED BY <1>3, <1>4 DEF After

\* What the events do that run_once feeds while it has a task.
LEMMA FedEvents ==
    /\ After("IDLE", "task_available") = "CLAIM_TASK"
    /\ AfterTwo("COOLDOWN", "cooldown_elapsed", "task_available") = "CLAIM_TASK"
    /\ AfterTwo("CLAIM_TASK", "task_claimed", "plan_ok") = "EXECUTING"
    /\ After("CLAIM_TASK", "task_claimed") = "PLANNING"
    /\ After("EXECUTING", "output_ready") = "REVIEWING"
<1>1. /\ <<"IDLE", "task_available", "CLAIM_TASK">> \in Transitions
      /\ <<"COOLDOWN", "cooldown_elapsed", "IDLE">> \in Transitions
      /\ <<"CLAIM_TASK", "task_claimed", "PLANNING">> \in Transitions
      /\ <<"PLANNING", "plan_ok", "EXECUTING">> \in Transitions
      /\ <<"EXECUTING", "output_ready", "REVIEWING">> \in Transitions
  BY DEF Transitions
<1>2. /\ After("IDLE", "task_available") = "CLAIM_TASK"
      /\ After("COOLDOWN", "cooldown_elapsed") = "IDLE" /\ Legal("COOLDOWN", "cooldown_elapsed")
      /\ After("CLAIM_TASK", "task_claimed") = "PLANNING" /\ Legal("CLAIM_TASK", "task_claimed")
      /\ After("PLANNING", "plan_ok") = "EXECUTING"
      /\ After("EXECUTING", "output_ready") = "REVIEWING"
  BY <1>1, AfterIs
<1> QED BY <1>2 DEF AfterTwo

\* While advance runs inside complete_task or fail_task, the machine is where
\* the code after the call expects it.
FsmInAdvance ==
    \A w \in Worker :
        pc[w] \in {"get_run", "list_tasks", "settle", "settled"} =>
            /\ ret[w] = "approve" => fsm[w] = "REVIEWING"
            /\ ret[w] = "recover" => fsm[w] \in {"PLANNING", "EXECUTING", "REVIEWING"}

\* No step of run_once is taken in a state of the machine that it is not legal in.
LEMMA FsmStep ==
    ASSUME TypeInv, FsmLegal, FsmInAdvance, [Next]_vars
    PROVE  (FsmLegal /\ FsmInAdvance)'
<1> DEFINE F(l, s, r) ==
        /\ l \in {"select", "claim", "claimed"} => s = "CLAIM_TASK"
        /\ l = "handler" => s = "EXECUTING"
        /\ l \in {"complete", "completing", "completed", "approve"} => s = "REVIEWING"
        /\ l \in {"fail", "failing", "failed", "escalate", "recover"} =>
               s \in {"PLANNING", "EXECUTING", "REVIEWING"}
        /\ l \in {"get_run", "list_tasks", "settle", "settled"} =>
               /\ r = "approve" => s = "REVIEWING"
               /\ r = "recover" => s \in {"PLANNING", "EXECUTING", "REVIEWING"}
<1>0. \A w \in Worker : F(pc[w], fsm[w], ret[w])
  BY DEF FsmLegal, FsmInAdvance
<1> SUFFICES ASSUME NEW w \in Worker PROVE F(pc'[w], fsm'[w], ret'[w])
  BY DEF FsmLegal, FsmInAdvance
<1>1. /\ pc \in [Proc -> Labels] /\ ret \in [Proc -> {"idle", "approve", "recover"}]
      /\ fsm \in [Worker -> AgentState] /\ w \in Proc
  BY DEF TypeInv, TypeOK, Proc
<1> USE <1>0, <1>1 DEF Goto, Fire, Leave, dbVars, procVars, locals
<1>2. CASE ~OwnStep(w)
  BY <1>2, LocalsAreOwn
<1>3. CASE RunOnce(w) \/ Begin(w) \/ PlanningRaises(w) \/ HandlerReturns(w)
  BY <1>3, FedEvents DEF RunOnce, Begin, PlanningRaises, HandlerReturns
<1>4. CASE \/ Select(w) \/ ClaimWins(w) \/ ClaimLoses(w) \/ HandlerRaises(w) \/ CompleteCheck(w)
           \/ CompleteWrite(w) \/ CompletePublish(w) \/ FailCheck(w) \/ FailWrite(w)
           \/ FailPublish(w) \/ Escalate(w) \/ CompleteRaises(w)
  BY <1>4 DEF Select, ClaimWins, ClaimLoses, HandlerRaises, CompleteCheck, CompleteWrite,
              CompletePublish, FailCheck, FailWrite, FailPublish, Escalate, CompleteRaises
<1>5. CASE \/ ClaimNothing(w) \/ FailRefused(w) \/ Approve(w) \/ Recover(w)
           \/ ClaimRaises(w) \/ FailRaises(w) \/ Crash(w) \/ Restart(w)
  <2>1. pc'[w] \in {"idle", "raised", "down"}
    BY <1>5 DEF ClaimNothing, FailRefused, Approve, Recover, ClaimRaises, FailRaises,
                Crash, Restart
  <2> QED BY <2>1
<1>6. CASE Advance(w)
  BY <1>6 DEF Advance, GetRun, ListTasks, Settle, Settled
<1> QED BY <1>2, <1>3, <1>4, <1>5, <1>6 DEF OwnStep, WorkerStep, WorkerFault

\* Every event that run_once feeds its state machine is legal where it is fed.
THEOREM EventsLegal == Spec => []FsmLegal
<1>1. Init => FsmLegal /\ FsmInAdvance
  BY DEF Init, FsmLegal, FsmInAdvance, Proc
<1>2. TypeInv /\ (FsmLegal /\ FsmInAdvance) /\ [Next]_vars => (FsmLegal /\ FsmInAdvance)'
  BY FsmStep
<1> QED BY <1>1, <1>2, TypeCorrect, PTL DEF Spec

-----------------------------------------------------------------------------
(* Leases: nobody but a sweep writes a row under its holder.               *)

\* The row that w has in hand is ASSIGNED to w.
Owns(w) == Row(cur[w]).status = "ASSIGNED" /\ Row(cur[w]).agent = w

\* A sweep has taken that row from its holder.
Taken(w) == Row(cur[w]).swept

InAdvance == {"get_run", "list_tasks", "settle", "settled"}

Reporting == {"claimed", "handler", "complete", "completing", "failing"}

\* HolderOwnsTask, with what makes it inductive: a completed row stays DONE
\* until run_once is left, also when the publish after it fails.
Lease ==
    \A w \in Worker :
        /\ pc[w] \in Reporting => Taken(w) \/ Owns(w)
        /\ pc[w] = "fail" => Taken(w) \/ Owns(w) \/ Row(cur[w]).status = "DONE"
        /\ pc[w] = "completed" => Taken(w) \/ Row(cur[w]).status = "DONE"
        /\ pc[w] \in InAdvance /\ ret[w] = "approve" =>
               Taken(w) \/ Row(cur[w]).status = "DONE"

\* That a sweep took a row is not forgotten.
LEMMA SweptStays ==
    ASSUME TypeInv, [Next]_vars, NEW n \in Node, NEW k \in DOMAIN tasks[n], tasks[n][k].swept
    PROVE  tasks'[n][k].swept
<1> DEFINE t == tasks[n][k]
           u == tasks'[n][k]
<1>1. t \in Task /\ RowStep(n, k, t, u) /\ t.swept
  BY RowSteps DEF TypeInv, TypeOK
<1> HIDE DEF t, u
<1>2. ASSUME NEW a PROVE Given(n, t, a).swept /\ Unstuck(n, t, a).swept
  BY <1>1 DEF Given, Unstuck, Requeued, Task
<1> QED BY <1>1, <1>2 DEF RowStep, Claimed, Finished, Aged, Requeued, Task, t, u

\* What a step makes of a row that no sweep has taken so far.
LEMMA LeaseWrites ==
    ASSUME TypeInv, Lease, [Next]_vars, NEW n \in Node, NEW k \in DOMAIN tasks[n],
           ~tasks[n][k].swept
    PROVE  LET t == tasks[n][k]
               u == tasks'[n][k]
           IN  \/ u = t
               \/ t.status = "ASSIGNED" /\ (u = Aged(t) \/ u.swept)
               \/ t.status = "PENDING" /\ \E w \in Worker : ClaimWins(w) /\ u = Claimed(t, w)
               \/ \E w \in Worker :
                    /\ t.status = "ASSIGNED" /\ t.agent = w /\ cur[w] = <<n, k>>
                    /\ \/ CompleteWrite(w) /\ u = Finished(t)
                       \/ FailWrite(w) /\ u = Given(n, t, att[w] + 1)
<1> DEFINE t == tasks[n][k]
           u == tasks'[n][k]
<1>1. t \in Task /\ RowStep(n, k, t, u) /\ ~t.swept
  BY RowSteps DEF TypeInv, TypeOK
<1>2. ASSUME NEW w \in Worker, CompleteWrite(w) \/ FailWrite(w), cur[w] = <<n, k>>
      PROVE  t.status = "ASSIGNED" /\ t.agent = w
  <2>1. pc[w] \in Reporting /\ Row(cur[w]) = t
    BY <1>2 DEF CompleteWrite, FailWrite, Reporting, Row
  <2> QED BY <1>1, <2>1 DEF Lease, Owns, Taken
<1> HIDE DEF t, u
<1>3. Requeued(t).swept /\ \A a : Unstuck(n, t, a).swept
  BY <1>1 DEF Unstuck, Requeued, Task
<1> QED BY <1>1, <1>2, <1>3 DEF RowStep, t, u

\* advance changes no row it finds.
LEMMA SettleKeeps ==
    ASSUME TypeInv, NEW p \in Proc, Settle(p), NEW n \in Node, NEW k \in DOMAIN tasks[n]
    PROVE  tasks'[n][k] = tasks[n][k]
<1>1. tasks[n] \in Seq(Task) /\ tasks'[n] \in {tasks[n], Append(tasks[n], NewTask)}
  BY DEF Settle, TypeInv, TypeOK
<1>2. NewTask \in Task
  BY DEF NewTask, Task, TaskStatus
<1> QED BY <1>1, <1>2, AppendProperties

\* A write of a row that exists is read back.
LEMMA ReadBack ==
    ASSUME TypeInv, NEW id \in Rows, NEW r \in Task, tasks' = WithRow(id, r)
    PROVE  tasks'[id[1]][id[2]] = r
<1>1. id \in TaskId /\ id[2] \in DOMAIN tasks[id[1]] /\ tasks \in [Node -> Seq(Task)]
  BY RowsChar DEF TypeInv, TypeOK
<1>2. id[1] \in Node /\ <<id[1], id[2]>> = id
  BY <1>1 DEF TaskId
<1> QED BY <1>1, <1>2, WithRowType

\* What nobody but a sweep can do to the row of another, while it reports.
LEMMA OthersKeep ==
    ASSUME TypeInv, Lease, [Next]_vars, NEW w \in Worker, ~OwnStep(w), pc[w] \in Holding,
           Owns(w) \/ Row(cur[w]).status = "DONE"
    PROVE  LET t == Row(cur[w])
               u == tasks'[cur[w][1]][cur[w][2]]
           IN  t.swept \/ u.swept \/ u = t \/ (t.status = "ASSIGNED" /\ u = Aged(t))
<1> DEFINE n == cur[w][1]
           k == cur[w][2]
<1>1. n \in Node /\ k \in DOMAIN tasks[n] /\ cur[w] = <<n, k>> /\ Row(cur[w]) = tasks[n][k]
  BY HeldRow DEF Row
<1>2. \A v \in Worker : tasks[n][k].agent = v /\ tasks[n][k].status = "ASSIGNED" =>
                           ~CompleteWrite(v) /\ ~FailWrite(v)
  BY <1>1 DEF Owns, OwnStep, WorkerStep
<1>3. tasks[n][k].status # "PENDING"
  BY <1>1 DEF Owns
<1> HIDE DEF n, k
<1>4. CASE tasks[n][k].swept
  BY <1>1, <1>4
<1>5. CASE ~tasks[n][k].swept
  <2>1. \/ tasks'[n][k] = tasks[n][k] \/ tasks'[n][k].swept
        \/ tasks[n][k].status = "ASSIGNED" /\ tasks'[n][k] = Aged(tasks[n][k])
    BY <1>1, <1>2, <1>3, <1>5, LeaseWrites
  <2> QED BY <1>1, <2>1 DEF n, k
<1> QED BY <1>4, <1>5

\* No step but a sweep's takes a row away from the worker that claimed it.
LEMMA LeaseStep ==
    ASSUME TypeInv, Lease, [Next]_vars
    PROVE  Lease'
<1> DEFINE L(l, r, t, w) ==
        /\ l \in Reporting => t.swept \/ (t.status = "ASSIGNED" /\ t.agent = w)
        /\ l = "fail" => t.swept \/ (t.status = "ASSIGNED" /\ t.agent = w) \/ t.status = "DONE"
        /\ l = "completed" => t.swept \/ t.status = "DONE"
        /\ l \in InAdvance /\ r = "approve" => t.swept \/ t.status = "DONE"
<1>1. \A w \in Worker : L(pc[w], ret[w], Row(cur[w]), w)
  BY DEF Lease, Owns, Taken
<1> SUFFICES ASSUME NEW w \in Worker
             PROVE  L(pc'[w], ret'[w], tasks'[cur'[w][1]][cur'[w][2]], w)
  BY DEF Lease, Owns, Taken, Row
<1> DEFINE n == cur[w][1]
           k == cur[w][2]
<1>2. pc[w] \in Holding => /\ cur[w] \in Rows /\ Row(cur[w]) \in Task
                           /\ n \in Node /\ k \in DOMAIN tasks[n] /\ cur[w] = <<n, k>>
  BY HeldRow
<1>3. /\ pc \in [Proc -> Labels] /\ ret \in [Proc -> {"idle", "approve", "recover"}]
      /\ cur \in [Worker -> TaskId \cup {NoTask}] /\ w \in Proc
  BY DEF TypeInv, TypeOK, Proc
<1>4. Row(cur[w]) = tasks[n][k]
  BY DEF Row
<1>5. CASE ~OwnStep(w)
  <2>1. pc'[w] = pc[w] /\ cur'[w] = cur[w] /\ ret'[w] = ret[w]
    BY <1>5, LocalsAreOwn
  <2>2. CASE \/ pc[w] \in Reporting \cup {"fail", "completed"}
             \/ pc[w] \in InAdvance /\ ret[w] = "approve"
    <3>1. pc[w] \in Holding
      BY <2>2 DEF Holding, Labels, InAdvance, Reporting
    <3>2. CASE Row(cur[w]).swept
      <4>1. tasks'[n][k].swept
        BY <1>2, <1>4, <3>1, <3>2, SweptStays
      <4> QED BY <2>1, <4>1
    <3>3. CASE ~Row(cur[w]).swept
      <4>1. Owns(w) \/ Row(cur[w]).status = "DONE"
        BY <1>1, <2>2, <3>3 DEF Owns
      <4>2. \/ tasks'[n][k].swept \/ tasks'[n][k] = Row(cur[w])
            \/ /\ tasks'[n][k].status = Row(cur[w]).status
               /\ tasks'[n][k].agent = Row(cur[w]).agent
        <5>1. \/ tasks'[n][k].swept \/ tasks'[n][k] = Row(cur[w])
              \/ tasks'[n][k] = Aged(Row(cur[w]))
          BY <1>5, <3>1, <3>3, <4>1, OthersKeep
        <5>2. /\ Aged(Row(cur[w])).status = Row(cur[w]).status
              /\ Aged(Row(cur[w])).agent = Row(cur[w]).agent
          BY <1>2, <3>1 DEF Aged, Task
        <5> QED BY <5>1, <5>2
      <4> QED BY <1>1, <2>1, <3>3, <4>2
    <3> QED BY <3>2, <3>3
  <2>3. CASE ~\/ pc[w] \in Reporting \cup {"fail", "completed"}
              \/ pc[w] \in InAdvance /\ ret[w] = "approve"
    BY <2>1, <2>3
  <2> QED BY <2>2, <2>3
<1> USE DEF Goto, Reporting
<1>6. CASE \/ RunOnce(w) \/ Select(w) \/ ClaimLoses(w) \/ ClaimNothing(w) \/ FailRefused(w)
           \/ FailWrite(w) \/ FailPublish(w) \/ Escalate(w) \/ Approve(w) \/ Recover(w)
           \/ ClaimRaises(w) \/ FailRaises(w) \/ Crash(w) \/ Restart(w)
  <2>1. /\ pc'[w] \notin Reporting \cup {"fail", "completed"}
        /\ pc'[w] \in InAdvance => ret'[w] = "recover"
    BY <1>3, <1>6
       DEF RunOnce, Select, ClaimLoses, ClaimNothing, FailRefused, FailWrite, FailPublish,
           Escalate, Approve, Recover, ClaimRaises, FailRaises, Crash, Restart, Leave,
           InAdvance
  <2> QED BY <2>1
<1>7. CASE \/ Begin(w) \/ PlanningRaises(w) \/ HandlerReturns(w) \/ HandlerRaises(w)
           \/ CompleteCheck(w) \/ CompletePublish(w) \/ FailCheck(w) \/ CompleteRaises(w)
           \/ GetRun(w) \/ ListTasks(w) \/ Settled(w)
  <2>1. tasks' = tasks /\ cur' = cur
    BY <1>7 DEF Begin, PlanningRaises, HandlerReturns, HandlerRaises, CompleteCheck,
                CompletePublish, FailCheck, CompleteRaises, GetRun, ListTasks, Settled,
                dbVars, tableVars, locals
  <2>2. L(pc'[w], ret'[w], Row(cur[w]), w)
    BY <1>1, <1>3, <1>7
       DEF Begin, PlanningRaises, HandlerReturns, HandlerRaises, CompleteCheck,
           CompletePublish, FailCheck, CompleteRaises, GetRun, ListTasks, Settled,
           RequireAssigned, InAdvance, locals
  <2> QED BY <1>4, <2>1, <2>2
<1>8. CASE ClaimWins(w)
  <2>1. PICK id \in seen[w] : /\ tasks' = WithRow(id, Claimed(Row(id), w))
                              /\ cur' = [cur EXCEPT ![w] = id]
    BY <1>8 DEF ClaimWins, Claimed
  <2>2. id \in Rows /\ Row(id) \in Task
    BY RowsChar DEF TypeInv, TypeOK, HeldRows
  <2>3. /\ Claimed(Row(id), w) \in Task
        /\ Claimed(Row(id), w).status = "ASSIGNED" /\ Claimed(Row(id), w).agent = w
    BY <2>2, NewRowTypes DEF Claimed, Task
  <2>4. tasks'[cur'[w][1]][cur'[w][2]] = Claimed(Row(id), w)
    BY <1>3, <2>1, <2>2, <2>3, ReadBack
  <2>5. pc'[w] = "claimed"
    BY <1>3, <1>8 DEF ClaimWins
  <2> QED BY <2>3, <2>4, <2>5 DEF InAdvance
<1>9. CASE CompleteWrite(w)
  <2>1. pc[w] \in Holding /\ pc'[w] = "completed" /\ cur' = cur
    BY <1>3, <1>9 DEF CompleteWrite, Holding, Labels, locals
  <2>2. Finished(Row(cur[w])) \in Task /\ Finished(Row(cur[w])).status = "DONE"
    BY <1>2, <2>1, NewRowTypes DEF Finished, Task
  <2>3. tasks' = WithRow(cur[w], Finished(Row(cur[w])))
    BY <1>9 DEF CompleteWrite, Finished
  <2>4. tasks'[n][k] = Finished(Row(cur[w]))
    BY <1>2, <2>1, <2>2, <2>3, ReadBack
  <2> QED BY <2>1, <2>2, <2>4 DEF InAdvance
<1>10. CASE Settle(w)
  <2>1. pc[w] \in Holding /\ pc[w] = "settle" /\ pc'[w] = "settled" /\ cur' = cur /\ ret' = ret
    BY <1>3, <1>10 DEF Settle, Holding, Labels, locals
  <2>2. tasks'[n][k] = tasks[n][k]
    BY <1>2, <1>3, <1>10, <2>1, SettleKeeps
  <2> QED BY <1>1, <1>4, <2>1, <2>2 DEF InAdvance
<1> QED BY <1>5, <1>6, <1>7, <1>8, <1>9, <1>10 DEF OwnStep, WorkerStep, WorkerFault, Advance

\* Nobody but a sweep writes a row under its holder: the lease holds.
LEMMA LeaseCorrect == Spec => []Lease
<1>1. Init => Lease
  BY DEF Init, Lease, InAdvance, Reporting, Proc
<1> QED BY <1>1, LeaseStep, TypeCorrect, PTL DEF Spec

\* A worker between its claim and its report is the one its row is ASSIGNED to,
\* unless a sweep has taken the row: no task is run by two workers at a time of
\* which neither was given up by a sweep.
THEOREM LeasesHold == Spec => []HolderOwnsTask
<1>1. Lease => HolderOwnsTask
  BY DEF Lease, Owns, Taken, Reporting, HolderOwnsTask
<1> QED BY <1>1, LeaseCorrect, PTL

\* No step changes a row that is DONE or FAILED and that no sweep has taken.
THEOREM FinalIsFinal == Spec => TerminalIsFinal
<1>1. TypeInv /\ Lease /\ [Next]_vars =>
        [\A n \in Node : \A k \in DOMAIN tasks[n] :
            tasks[n][k].status \in {"DONE", "FAILED"} /\ ~tasks[n][k].swept =>
                tasks'[n][k] = tasks[n][k]]_vars
  BY LeaseWrites
<1> QED BY <1>1, LeaseCorrect, TypeCorrect, PTL DEF Spec, TerminalIsFinal

-----------------------------------------------------------------------------
(* How often a task is tried.  The count that fail_task and the stuck sweep *)
(* write was read some time ago; it may be too low by then, never too high. *)

\* A worker is about to write a failure only because FailCheck let it, and the
\* attempts it read stay with it until then.
LEMMA FailingEntered ==
    ASSUME TypeInv, [Next]_vars, NEW w \in Worker, pc'[w] = "failing"
    PROVE  \/ /\ pc[w] = "failing" /\ cur'[w] = cur[w] /\ att'[w] = att[w]
              /\ ~OwnStep(w)
           \/ FailCheck(w)
<1> USE DEF TypeInv, TypeOK, Goto, locals, Proc
<1>1. CASE ~OwnStep(w)
  BY <1>1, LocalsAreOwn
<1>2. CASE \/ RunOnce(w) \/ Select(w) \/ ClaimWins(w) \/ ClaimLoses(w) \/ ClaimNothing(w)
           \/ Begin(w) \/ HandlerReturns(w) \/ HandlerRaises(w) \/ CompleteCheck(w)
           \/ CompleteWrite(w) \/ CompletePublish(w) \/ FailRefused(w) \/ FailWrite(w)
           \/ FailPublish(w) \/ Escalate(w) \/ Approve(w) \/ Recover(w) \/ WorkerFault(w)
           \/ Restart(w) \/ Advance(w)
  <2>1. pc'[w] # "failing"
    BY <1>2
       DEF RunOnce, Select, ClaimWins, ClaimLoses, ClaimNothing, Begin, Leave,
           HandlerReturns, HandlerRaises, CompleteCheck, CompleteWrite, CompletePublish,
           FailRefused, FailWrite, FailPublish, Escalate, Approve, Recover, WorkerFault,
           PlanningRaises, ClaimRaises, CompleteRaises, FailRaises, Crash, Restart,
           Advance, GetRun, ListTasks, Settle, Settled
  <2> QED BY <2>1
<1> QED BY <1>1, <1>2 DEF OwnStep, WorkerStep

\* What the stuck sweep has in hand comes from its read.
LEMMA StuckSteps ==
    ASSUME [Next]_vars
    PROVE  stuck'.rows = stuck.rows \/ stuck'.rows = {} \/ (StuckSweepRead /\ tasks' = tasks)
<1> USE DEF dbVars, tableVars, sweepVars, envVars
<1>1. ASSUME NEW w \in Worker,
             \/ WorkerStep(w) \/ RunOnceRefused(w) \/ WorkerFault(w)
             \/ Restart(w) \/ AgentGoesStale(w)
      PROVE  stuck' = stuck
  BY <1>1
     DEF WorkerStep, RunOnce, RunOnceRefused, Select, ClaimWins, ClaimLoses, ClaimNothing,
         Begin, WorkerFault, PlanningRaises, ClaimRaises, HandlerReturns, HandlerRaises, CompleteCheck,
         CompleteWrite, CompletePublish, FailCheck, FailRefused, FailWrite, FailPublish,
         Escalate, Approve, Recover, CompleteRaises, FailRaises, Crash, Restart,
         AgentGoesStale
<1>2. ASSUME NEW p \in Proc, Advance(p) PROVE stuck' = stuck
  BY <1>2 DEF Advance, GetRun, ListTasks, Settle, Settled
<1>3. ASSUME \/ StartRun \/ Resume \/ ClientStops \/ \E id \in Rows : TaskGoesStale(id)
             \/ HeartbeatSweep \/ HeartbeatSweepDies \/ UNCHANGED vars
      PROVE  stuck' = stuck
  BY <1>3 DEF StartRun, Resume, ClientStops, TaskGoesStale, HeartbeatSweep,
              HeartbeatSweepRead, HeartbeatSweepWrite, HeartbeatSweepDies, vars
<1>4. ASSUME StuckSweep \/ StuckSweepDies
      PROVE  stuck'.rows = stuck.rows \/ stuck'.rows = {} \/ (StuckSweepRead /\ tasks' = tasks)
  <2>1. CASE StuckSweepRead
    BY <2>1 DEF StuckSweepRead
  <2>2. CASE StuckSweepWrite
    BY <2>2 DEF StuckSweepWrite
  <2>3. CASE StuckSweepPublish \/ StuckSweepDies
    BY <2>3 DEF StuckSweepPublish, StuckSweepDies, NoSweep
  <2> QED BY <1>4, <2>1, <2>2, <2>3 DEF StuckSweep
<1> QED BY <1>1, <1>2, <1>3, <1>4 DEF Next

\* A count never exceeds the claims, and a task under claim is not counted yet.
Tried(n, t) ==
    /\ t.attempts <= t.tries
    /\ t.status = "ASSIGNED" => t.attempts < t.tries
    /\ t.status = "FAILED" => MaxAttempts[n] <= t.attempts

\* Nor does a count that was read, once it is raised.
Earned ==
    /\ \A n \in Node : \A k \in DOMAIN tasks[n] : Tried(n, tasks[n][k])
    /\ \A w \in Worker : pc[w] = "failing" => att[w] < Row(cur[w]).tries
    /\ \A r \in stuck.rows : r[1] \in Rows /\ r[2] < Row(r[1]).tries

\* No write of a row counts more than there were claims, or takes one back.
LEMMA TriedRow ==
    ASSUME NEW n \in Node, NEW k, NEW t \in Task, NEW u, Tried(n, t), RowStep(n, k, t, u),
           \A w \in Worker : FailWrite(w) /\ cur[w] = <<n, k>> =>
               att[w] \in Int /\ att[w] < t.tries,
           \A r \in stuck.rows : r[1] = <<n, k>> => r[2] \in Int /\ r[2] < t.tries
    PROVE  Tried(n, u) /\ t.tries <= u.tries
<1>1. t.tries \in Nat /\ t.attempts \in Int /\ MaxAttempts[n] \in Int
  BY DefinitionAssumption DEF Task
<1> USE <1>1 DEF Tried
<1>2. ASSUME NEW w \in Worker, u = Claimed(t, w) PROVE Tried(n, u) /\ t.tries <= u.tries
  <2>1. u.status = "ASSIGNED" /\ u.attempts = t.attempts /\ u.tries = t.tries + 1
    BY <1>2 DEF Claimed, Task
  <2> QED BY <2>1
<1>3. CASE u = Finished(t)
  <2>1. u.status = "DONE" /\ u.attempts = t.attempts /\ u.tries = t.tries
    BY <1>3 DEF Finished, Task
  <2> QED BY <2>1
<1>4. ASSUME NEW a \in Int, a < t.tries, u = Given(n, t, a + 1)
      PROVE  Tried(n, u) /\ t.tries <= u.tries
  <2>1. a + 1 \in Int /\ a + 1 <= t.tries
    BY <1>4
  <2>2. /\ u.attempts = a + 1 /\ u.tries = t.tries
        /\ u.status = IF Exhausted(n, a + 1) THEN "FAILED" ELSE "PENDING"
    BY <1>4, <2>1, NewRowTypes
  <2> QED BY <2>1, <2>2 DEF Exhausted
<1>5. CASE t.status = "ASSIGNED" /\ (u = Aged(t) \/ u = Requeued(t))
  <2>1. /\ u.status \in {"ASSIGNED", "PENDING"}
        /\ u.attempts = t.attempts /\ u.tries = t.tries
    BY <1>5 DEF Aged, Requeued, Task
  <2> QED BY <1>5, <2>1
<1>6. ASSUME NEW a \in Int, a < t.tries, u = Unstuck(n, t, a)
      PROVE  Tried(n, u) /\ t.tries <= u.tries
  <2>1. a + 1 \in Int /\ a + 1 <= t.tries
    BY <1>6
  <2>2. /\ u.attempts = a + 1 /\ u.tries = t.tries
        /\ u.status = IF Exhausted(n, a + 1) THEN "FAILED" ELSE "PENDING"
    <3>1. CASE Exhausted(n, a + 1)
      BY <1>6, <3>1 DEF Unstuck, Task
    <3>2. CASE ~Exhausted(n, a + 1)
      BY <1>6, <3>2 DEF Unstuck, Requeued, Task
    <3> QED BY <3>1, <3>2
  <2> QED BY <2>1, <2>2 DEF Exhausted
<1>7. CASE u = t
  BY <1>7
<1> HIDE DEF Tried
<1> QED BY <1>2, <1>3, <1>4, <1>5, <1>6, <1>7 DEF RowStep

\* So no step does it.
LEMMA TriedStep ==
    ASSUME TypeInv, Earned, [Next]_vars, NEW n \in Node, NEW k \in DOMAIN tasks[n]
    PROVE  Tried(n, tasks'[n][k]) /\ tasks[n][k].tries <= tasks'[n][k].tries
<1>1. /\ tasks[n][k] \in Task /\ RowStep(n, k, tasks[n][k], tasks'[n][k])
      /\ Tried(n, tasks[n][k])
  BY RowSteps DEF TypeInv, TypeOK, Earned
<1>2. ASSUME NEW w \in Worker, FailWrite(w), cur[w] = <<n, k>>
      PROVE  att[w] \in Int /\ att[w] < tasks[n][k].tries
  BY <1>2 DEF FailWrite, Earned, TypeInv, TypeOK, Row
<1>3. ASSUME NEW r \in stuck.rows, r[1] = <<n, k>>
      PROVE  r[2] \in Int /\ r[2] < tasks[n][k].tries
  BY <1>3 DEF Earned, TypeInv, TypeOK, Row
<1> QED BY <1>1, <1>2, <1>3, TriedRow

\* Every step keeps the counts earned.
LEMMA EarnedStep == TypeInv /\ Earned /\ [Next]_vars => Earned'
<1> SUFFICES ASSUME TypeInv, Earned, [Next]_vars PROVE Earned'
  OBVIOUS
<1>1. /\ tasks \in [Node -> Seq(Task)] /\ Rows \subseteq TaskId
      /\ \A id \in Rows : /\ id[1] \in Node /\ id[2] \in DOMAIN tasks[id[1]]
                          /\ id = <<id[1], id[2]>>
  BY RowsChar DEF TypeInv, TypeOK, TaskId
<1>2. \A n \in Node : \A k \in DOMAIN tasks'[n] : Tried(n, tasks'[n][k])
  <2> SUFFICES ASSUME NEW n \in Node, NEW k \in DOMAIN tasks'[n]
               PROVE  Tried(n, tasks'[n][k])
    OBVIOUS
  <2>1. CASE k \in DOMAIN tasks[n]
    BY <2>1, TriedStep
  <2>2. CASE k \notin DOMAIN tasks[n]
    BY <2>2, RowSteps DEF Tried, NewTask
  <2> QED BY <2>1, <2>2
<1>3. ASSUME NEW id \in Rows, NEW a \in Int, a < Row(id).tries
      PROVE  id \in Rows' /\ a < tasks'[id[1]][id[2]].tries
  <2>1. id[1] \in Node /\ id[2] \in DOMAIN tasks[id[1]] /\ id = <<id[1], id[2]>>
    BY <1>1
  <2>2. Row(id).tries <= tasks'[id[1]][id[2]].tries
    BY <2>1, TriedStep DEF Row
  <2>3. Row(id).tries \in Nat /\ tasks'[id[1]][id[2]].tries \in Nat
    <3>1. TypeInv'
      BY TypeStep
    <3>2. id[2] \in DOMAIN tasks'[id[1]]
      BY <2>1, RowSteps
    <3>3. Row(id) \in Task /\ tasks'[id[1]][id[2]] \in Task
      BY <2>1, <3>1, <3>2 DEF TypeInv, TypeOK, Row
    <3> QED BY <3>3 DEF Task
  <2>4. id \in Rows'
    <3>1. \A n \in Node : DOMAIN tasks[n] \subseteq DOMAIN tasks'[n]
      BY RowSteps
    <3> QED BY <3>1, RowsGrow
  <2> QED BY <1>3, <2>2, <2>3, <2>4
<1>4. ASSUME NEW w \in Worker, pc'[w] = "failing"
      PROVE  att'[w] < tasks'[cur'[w][1]][cur'[w][2]].tries
  <2>1. CASE pc[w] = "failing" /\ cur'[w] = cur[w] /\ att'[w] = att[w]
    <3>1. cur[w] \in Rows /\ att[w] < Row(cur[w]).tries /\ att[w] \in Int
      BY <2>1 DEF Earned, TypeInv, TypeOK, HeldRows, Holding, Labels
    <3> QED BY <1>3, <2>1, <3>1
  <2>2. CASE FailCheck(w)
    <3>1. /\ cur[w] \in Rows /\ cur' = cur /\ tasks' = tasks
          /\ Row(cur[w]).status = "ASSIGNED" /\ att'[w] = Row(cur[w]).attempts
      BY <2>2 DEF FailCheck, RequireAssigned, TypeInv, TypeOK, HeldRows, Holding, Labels,
                  dbVars, tableVars
    <3>2. cur[w][1] \in Node /\ cur[w][2] \in DOMAIN tasks[cur[w][1]]
      BY <1>1, <3>1
    <3>3. Row(cur[w]).attempts < Row(cur[w]).tries
      BY <3>1, <3>2 DEF Earned, Tried, Row
    <3> QED BY <3>1, <3>3 DEF Row
  <2> QED BY <1>4, <2>1, <2>2, FailingEntered
<1>5. ASSUME NEW r \in stuck'.rows
      PROVE  r[1] \in Rows' /\ r[2] < tasks'[r[1][1]][r[1][2]].tries
  <2>1. CASE r \in stuck.rows
    <3>1. r[1] \in Rows /\ r[2] < Row(r[1]).tries /\ r[2] \in Int
      BY <2>1 DEF Earned, TypeInv, TypeOK
    <3> QED BY <1>3, <3>1
  <2>2. CASE StuckSweepRead /\ tasks' = tasks
    <3>1. PICK id \in Rows : StuckRow(Row(id)) /\ r = <<id, Row(id).attempts>>
      BY <2>2 DEF StuckSweepRead
    <3>2. id[1] \in Node /\ id[2] \in DOMAIN tasks[id[1]] /\ Row(id).status = "ASSIGNED"
      BY <1>1, <3>1 DEF StuckRow
    <3>3. Row(id).attempts < Row(id).tries
      BY <3>2 DEF Earned, Tried, Row
    <3>4. Rows' = Rows
      BY <2>2 DEF Rows
    <3> QED BY <2>2, <3>1, <3>3, <3>4 DEF Row
  <2> QED BY <1>5, <2>1, <2>2, StuckSteps
<1> QED BY <1>2, <1>4, <1>5 DEF Earned, Row

\* No task is FAILED before it was claimed max_attempts times, whatever reports
\* come late and whatever the sweeps write over them.
THEOREM NoneGivenUpEarly == Spec => []NotGivenUpEarly
<1>1. Init => Earned
  BY DEF Init, Earned, NoSweep, Proc
<1>2. TypeInv /\ Earned => NotGivenUpEarly
  <2> SUFFICES ASSUME TypeInv, Earned, NEW n \in Node, NEW k \in DOMAIN tasks[n],
                      tasks[n][k].status = "FAILED"
               PROVE  tasks[n][k].tries >= MaxAttempts[n]
    BY DEF NotGivenUpEarly
  <2>1. tasks[n][k] \in Task
    BY DEF TypeInv, TypeOK
  <2>2. tasks[n][k].tries \in Nat /\ tasks[n][k].attempts \in Int
    BY <2>1 DEF Task
  <2> QED BY <2>2, DefinitionAssumption DEF Earned, Tried
<1> QED BY <1>1, <1>2, EarnedStep, TypeCorrect, PTL DEF Spec

\* As long as no sweep takes the task, every claim is counted when it is over.
Counted(n, t) ==
    \/ t.swept
    \/ /\ t.tries > 1 => t.tries <= MaxAttempts[n]
       /\ t.status \in {"PENDING", "FAILED"} => t.tries = t.attempts
       /\ t.status = "ASSIGNED" => t.tries = t.attempts + 1

\* And the count a worker read is the one in the row when it writes.
Exact ==
    /\ \A n \in Node : \A k \in DOMAIN tasks[n] : Counted(n, tasks[n][k])
    /\ \A w \in Worker : pc[w] = "failing" => Taken(w) \/ att[w] = Row(cur[w]).attempts

\* What happens to a row that no sweep takes keeps its count exact.
LEMMA CountedStep ==
    ASSUME NEW n \in Node, NEW t \in Task, NEW u, RowOK(n, t), Counted(n, t), ~t.swept,
           \/ u = t
           \/ t.status = "ASSIGNED" /\ (u = Aged(t) \/ u.swept)
           \/ t.status = "PENDING" /\ \E w \in Worker : u = Claimed(t, w)
           \/ t.status = "ASSIGNED" /\ u = Finished(t)
           \/ t.status = "ASSIGNED" /\ u = Given(n, t, t.attempts + 1)
    PROVE  Counted(n, u)
<1>1. t.tries \in Nat /\ t.attempts \in Int /\ MaxAttempts[n] \in Int
  BY DefinitionAssumption DEF Task
<1>2. CASE u = t \/ u.swept
  BY <1>2 DEF Counted
<1>3. CASE t.status = "ASSIGNED" /\ (u = Aged(t) \/ u = Finished(t))
  <2>1. /\ u.status \in {"ASSIGNED", "DONE"} /\ u.tries = t.tries
        /\ u.attempts = t.attempts /\ u.swept = t.swept
    BY <1>3 DEF Aged, Finished, Task
  <2> QED BY <1>3, <2>1 DEF Counted
<1>4. ASSUME t.status = "PENDING", NEW w \in Worker, u = Claimed(t, w)
      PROVE  Counted(n, u)
  <2>1. u.status = "ASSIGNED" /\ u.tries = t.tries + 1 /\ u.attempts = t.attempts
    BY <1>4 DEF Claimed, Task
  <2>2. t.tries = t.attempts
    BY <1>4 DEF Counted
  <2>3. t.attempts = 0 \/ t.attempts < MaxAttempts[n]
    BY <1>4 DEF RowOK
  <2> QED BY <1>1, <2>1, <2>2, <2>3 DEF Counted
<1>5. CASE t.status = "ASSIGNED" /\ u = Given(n, t, t.attempts + 1)
  <2>1. t.attempts + 1 \in Int
    BY <1>1
  <2>2. /\ u.attempts = t.attempts + 1 /\ u.tries = t.tries
        /\ u.status = IF Exhausted(n, t.attempts + 1) THEN "FAILED" ELSE "PENDING"
    BY <1>5, <2>1, NewRowTypes
  <2>3. u.status # "ASSIGNED"
    BY <2>2
  <2> QED BY <1>1, <1>5, <2>2, <2>3 DEF Counted
<1> QED BY <1>2, <1>3, <1>4, <1>5

\* Every step keeps the counts exact.
LEMMA ExactStep == TypeInv /\ RowsOK /\ Lease /\ Exact /\ [Next]_vars => Exact'
<1> SUFFICES ASSUME TypeInv, RowsOK, Lease, Exact, [Next]_vars PROVE Exact'
  OBVIOUS
<1>1. ASSUME NEW n \in Node, NEW k \in DOMAIN tasks[n] PROVE Counted(n, tasks'[n][k])
  <2>1. /\ tasks[n][k] \in Task /\ RowOK(n, tasks[n][k]) /\ Counted(n, tasks[n][k])
    BY DEF TypeInv, TypeOK, RowsOK, Exact
  <2>2. CASE tasks[n][k].swept
    BY <2>2, SweptStays DEF Counted
  <2>3. CASE ~tasks[n][k].swept
    <3> DEFINE t == tasks[n][k]
               u == tasks'[n][k]
    <3>1. ASSUME NEW w \in Worker, FailWrite(w), cur[w] = <<n, k>>
          PROVE  att[w] = t.attempts
      BY <2>3, <3>1 DEF FailWrite, Exact, Taken, Row
    <3>2. \/ u = t
          \/ t.status = "ASSIGNED" /\ (u = Aged(t) \/ u.swept)
          \/ t.status = "PENDING" /\ \E w \in Worker : ClaimWins(w) /\ u = Claimed(t, w)
          \/ \E w \in Worker :
               /\ t.status = "ASSIGNED" /\ t.agent = w /\ cur[w] = <<n, k>>
               /\ \/ CompleteWrite(w) /\ u = Finished(t)
                  \/ FailWrite(w) /\ u = Given(n, t, att[w] + 1)
      BY <2>3, LeaseWrites
    <3>3. \/ u = t
          \/ t.status = "ASSIGNED" /\ (u = Aged(t) \/ u.swept)
          \/ t.status = "PENDING" /\ \E w \in Worker : u = Claimed(t, w)
          \/ t.status = "ASSIGNED" /\ u = Finished(t)
          \/ t.status = "ASSIGNED" /\ u = Given(n, t, t.attempts + 1)
      <4> HIDE DEF t, u
      <4> QED BY <3>1, <3>2
    <3>4. t \in Task /\ RowOK(n, t) /\ Counted(n, t) /\ ~t.swept
      BY <2>1, <2>3
    <3> HIDE DEF t, u
    <3>5. Counted(n, u)
      BY <3>3, <3>4, CountedStep
    <3> QED BY <3>5 DEF u
  <2> QED BY <2>2, <2>3
<1>2. ASSUME NEW n \in Node, NEW k \in DOMAIN tasks'[n] PROVE Counted(n, tasks'[n][k])
  <2>1. CASE k \in DOMAIN tasks[n]
    BY <1>1, <2>1
  <2>2. CASE k \notin DOMAIN tasks[n]
    BY <2>2, RowSteps DEF Counted, NewTask
  <2> QED BY <2>1, <2>2
<1>3. ASSUME NEW w \in Worker, pc'[w] = "failing"
      PROVE  LET u == tasks'[cur'[w][1]][cur'[w][2]] IN u.swept \/ att'[w] = u.attempts
  <2>1. CASE FailCheck(w)
    <3>1. cur' = cur /\ tasks' = tasks /\ att'[w] = Row(cur[w]).attempts
      BY <2>1 DEF FailCheck, TypeInv, TypeOK, dbVars, tableVars
    <3> QED BY <3>1 DEF Row
  <2>2. CASE ~FailCheck(w)
    <3> DEFINE n == cur[w][1]
               k == cur[w][2]
    <3>1. pc[w] = "failing" /\ cur'[w] = cur[w] /\ att'[w] = att[w]
      BY <1>3, <2>2, FailingEntered
    <3>2. ~OwnStep(w)
      BY <1>3, <2>2, FailingEntered
    <3>3. pc[w] \in Holding /\ pc[w] \in Reporting
      BY <3>1 DEF Holding, Labels, Reporting
    <3>4. n \in Node /\ k \in DOMAIN tasks[n] /\ cur[w] = <<n, k>> /\ Row(cur[w]) \in Task
      BY <3>3, HeldRow
    <3>5. Row(cur[w]) = tasks[n][k]
      BY DEF Row
    <3>6. CASE Taken(w)
      <4>1. tasks'[n][k].swept
        BY <3>4, <3>5, <3>6, SweptStays DEF Taken
      <4> QED BY <3>1, <4>1
    <3>7. CASE ~Taken(w)
      <4>1. Owns(w) /\ att[w] = Row(cur[w]).attempts
        BY <3>1, <3>3, <3>7 DEF Lease, Exact
      <4>2. \/ tasks'[n][k].swept \/ tasks'[n][k] = Row(cur[w])
            \/ tasks'[n][k] = Aged(Row(cur[w]))
        BY <3>2, <3>3, <3>7, <4>1, OthersKeep DEF Taken
      <4>3. Aged(Row(cur[w])).attempts = Row(cur[w]).attempts
        BY <3>4 DEF Aged, Task
      <4> QED BY <3>1, <4>1, <4>2, <4>3
    <3> QED BY <3>6, <3>7
  <2> QED BY <2>1, <2>2
<1> QED BY <1>2, <1>3 DEF Exact, Taken, Row

\* A task that no sweep has taken is claimed at most max_attempts times, once if
\* that is less.
THEOREM TriesBounded == Spec => []RetryBudget
<1>1. Init => Exact
  BY DEF Init, Exact, Proc
<1>2. Exact => RetryBudget
  BY DEF Exact, Counted, RetryBudget
<1> QED BY <1>1, <1>2, ExactStep, RowsOKHolds, LeaseCorrect, TypeCorrect, PTL DEF Spec

-----------------------------------------------------------------------------
(* Engine calls that do not overlap: what advance read is still true when  *)
(* it writes, and no node gets a second task.                              *)

\* A process is about to read or to write in advance only because it was there
\* already, or by the step before.
LEMMA AdvanceEntered ==
    ASSUME TypeInv, [Next]_vars, NEW p \in Proc, pc'[p] \in {"list_tasks", "settle"}
    PROVE  \/ pc'[p] = pc[p] /\ view'[p] = view[p]
           \/ GetRun(p) /\ run = "RUNNING" /\ pc'[p] = "list_tasks"
           \/ ListTasks(p) /\ pc'[p] = "settle"
<1>0. /\ pc \in [Proc -> Labels] /\ ret \in [Proc -> {"idle", "approve", "recover"}]
      /\ view \in [Proc -> [Node -> TaskStatus \cup {"none"}]] /\ Worker \subseteq Proc
      /\ Client \in Proc
  BY DEF TypeInv, TypeOK, Proc
<1> USE DEF dbVars, tableVars, procVars, locals, sweepVars, envVars, Goto
<1> DEFINE Stayed == pc'[p] = pc[p] /\ view'[p] = view[p]
<1>1. ASSUME NEW w \in Worker,
             \/ RunOnce(w) \/ Select(w) \/ ClaimWins(w) \/ ClaimLoses(w) \/ ClaimNothing(w)
             \/ Begin(w) \/ HandlerReturns(w) \/ HandlerRaises(w) \/ CompleteCheck(w)
             \/ CompleteWrite(w) \/ CompletePublish(w)
      PROVE  Stayed
  BY <1>0, <1>1 DEF RunOnce, Select, ClaimWins, ClaimLoses, ClaimNothing, Begin, Leave,
              HandlerReturns, HandlerRaises, CompleteCheck, CompleteWrite, CompletePublish
<1>2. ASSUME NEW w \in Worker,
             \/ FailCheck(w) \/ FailRefused(w) \/ FailWrite(w) \/ FailPublish(w)
             \/ Escalate(w) \/ Approve(w) \/ Recover(w)
             \/ WorkerFault(w) \/ Restart(w)
      PROVE  Stayed
  BY <1>0, <1>2 DEF FailCheck, FailRefused, FailWrite, FailPublish, Escalate, Approve, Recover,
              WorkerFault, PlanningRaises, ClaimRaises, CompleteRaises, FailRaises, Crash, Restart, Leave
<1>3. ASSUME NEW w \in Worker, RunOnceRefused(w) \/ AgentGoesStale(w)
      PROVE  Stayed
  BY <1>3 DEF RunOnceRefused, AgentGoesStale
<1>4. ASSUME NEW q \in Proc, q # p, Advance(q) PROVE Stayed
  BY <1>0, <1>4 DEF Advance, GetRun, ListTasks, Settle, Settled
<1>5. ASSUME Advance(p)
      PROVE  \/ GetRun(p) /\ run = "RUNNING" /\ pc'[p] = "list_tasks"
             \/ ListTasks(p) /\ pc'[p] = "settle"
  BY <1>0, <1>5 DEF Advance, GetRun, ListTasks, Settle, Settled
<1>6. ASSUME StartRun \/ Resume \/ ClientStops PROVE Stayed
  BY <1>0, <1>6 DEF StartRun, Resume, ClientStops
<1>7. ASSUME \/ \E id \in Rows : TaskGoesStale(id)
             \/ HeartbeatSweep \/ HeartbeatSweepDies \/ StuckSweep \/ StuckSweepDies
             \/ UNCHANGED vars
      PROVE  Stayed
  BY <1>7
     DEF TaskGoesStale, HeartbeatSweep, HeartbeatSweepRead, HeartbeatSweepWrite,
         HeartbeatSweepDies, StuckSweep, StuckSweepRead, StuckSweepWrite,
         StuckSweepPublish, StuckSweepDies, vars
<1> HIDE DEF Stayed
<1>8. \/ Stayed
      \/ GetRun(p) /\ run = "RUNNING" /\ pc'[p] = "list_tasks"
      \/ ListTasks(p) /\ pc'[p] = "settle"
  BY <1>1, <1>2, <1>3, <1>4, <1>5, <1>6, <1>7 DEF Next, WorkerStep
<1> QED BY <1>8 DEF Stayed

\* Only advance adds rows.
LEMMA SameRows ==
    ASSUME TypeInv, [Next]_vars, \A q \in Proc : ~Settle(q), NEW n \in Node
    PROVE  DOMAIN tasks'[n] = DOMAIN tasks[n]
<1>1. tasks \in [Node -> Seq(Task)]
  BY DEF TypeInv, TypeOK
<1>2. ASSUME NEW id \in Rows, NEW r \in Task, tasks' = WithRow(id, r)
      PROVE  DOMAIN tasks'[n] = DOMAIN tasks[n]
  <2>1. id \in TaskId
    BY <1>1, RowsChar
  <2> QED BY <1>1, <1>2, <2>1, WithRowType
<1>3. ASSUME NEW w \in Worker, ClaimWins(w) 
      PROVE  \E id \in Rows : \E r \in Task : tasks' = WithRow(id, r)
  <2>1. PICK id \in seen[w] : tasks' = WithRow(id, Claimed(Row(id), w))
    BY <1>3 DEF ClaimWins, Claimed
  <2>2. id \in Rows /\ Row(id) \in Task
    BY RowsChar DEF TypeInv, TypeOK, HeldRows
  <2>3. Claimed(Row(id), w) \in Task
    BY <2>2, NewRowTypes DEF Claimed, Task
  <2> QED BY <2>1, <2>2, <2>3
<1>4. ASSUME NEW w \in Worker, CompleteWrite(w) \/ FailWrite(w)
      PROVE  \E id \in Rows : \E r \in Task : tasks' = WithRow(id, r)
  <2>1. cur[w] \in Rows /\ Row(cur[w]) \in Task
    BY <1>4, HeldRow DEF CompleteWrite, FailWrite, Holding, Labels
  <2>2. Finished(Row(cur[w])) \in Task
    BY <2>1, NewRowTypes DEF Finished, Task
  <2>3. Given(cur[w][1], Row(cur[w]), att[w] + 1) \in Task
    <3>1. att[w] + 1 \in Int /\ cur[w][1] \in Node
      BY <2>1, RowsChar DEF TypeInv, TypeOK, TaskId
    <3> QED BY <2>1, <3>1, NewRowTypes
  <2> QED BY <1>4, <2>1, <2>2, <2>3 DEF CompleteWrite, FailWrite, Finished, Given
<1>5. ASSUME NEW id \in Rows, TaskGoesStale(id)
      PROVE  \E i \in Rows : \E r \in Task : tasks' = WithRow(i, r)
  <2>1. Aged(Row(id)) \in Task
    BY <1>1, RowsChar DEF Aged, Task
  <2> QED BY <1>5, <2>1 DEF TaskGoesStale, Aged
<1>6. HeartbeatSweepWrite \/ StuckSweepWrite => DOMAIN tasks'[n] = DOMAIN tasks[n]
  BY DEF HeartbeatSweepWrite, StuckSweepWrite
<1> QED BY <1>2, <1>3, <1>4, <1>5, <1>6, StepCases

\* A process between its reads and its write in advance has not missed the
\* creation of a task.
SeesEmpty ==
    \A p \in Proc : \A n \in Node :
        pc[p] = "settle" /\ view[p][n] = "none" => tasks[n] = <<>>

SerialInv == OneInEngine(pc) /\ OneTaskPerNode /\ SeesEmpty

\* When engine calls do not overlap, no node gets a second task.
LEMMA SerialStep ==
    ASSUME TypeInv, SerialInv, [SerialNext]_vars
    PROVE  SerialInv'
<1>1. [Next]_vars /\ TypeInv'
  BY TypeStep DEF SerialNext
<1>2. OneInEngine(pc')
  <2>1. CASE SerialNext
    BY <2>1 DEF SerialNext
  <2>2. CASE UNCHANGED vars
    BY <2>2 DEF vars, procVars, SerialInv, OneInEngine
  <2> QED BY <2>1, <2>2
<1>3. \A n \in Node : tasks[n] \in Seq(Task) /\ tasks'[n] \in Seq(Task)
  BY <1>1 DEF TypeInv, TypeOK
<1>4. ASSUME NEW n \in Node PROVE Len(tasks'[n]) <= 1
  <2>1. CASE \E k \in DOMAIN tasks'[n] : k \notin DOMAIN tasks[n]
    <3>1. PICK p \in Proc : pc[p] = "settle" /\ n \in Ready(view[p])
      BY <1>1, <2>1, RowSteps
    <3>2. tasks[n] = <<>>
      BY <3>1 DEF Ready, SerialInv, SeesEmpty
    <3>3. \A q \in Proc : Settle(q) => tasks'[n] = Append(tasks[n], NewTask)
                                       \/ tasks'[n] = tasks[n]
      BY DEF Settle
    <3>4. \E q \in Proc : Settle(q)
      <4>1. ~UNCHANGED <<tasks, reached>>
        BY <2>1
      <4> QED BY <4>1, <1>1, <2>1, SameRows
    <3>5. NewTask \in Task
      BY DEF NewTask, Task, TaskStatus
    <3>6. Len(Append(<<>>, NewTask)) = 1 /\ Len(<<>>) = 0
      BY <3>5
    <3>7. tasks'[n] = Append(<<>>, NewTask) \/ tasks'[n] = <<>>
      BY <3>2, <3>3, <3>4
    <3>8. Len(tasks'[n]) = 1 \/ Len(tasks'[n]) = 0
      BY <3>6, <3>7, Zenon
    <3>9. 0 <= 1 /\ 1 <= 1
      OBVIOUS
    <3> QED BY <3>8, <3>9, Zenon
  <2>2. CASE \A k \in DOMAIN tasks'[n] : k \in DOMAIN tasks[n]
    <3>1. Len(tasks[n]) <= 1
      BY DEF SerialInv, OneTaskPerNode
    <3> QED BY <1>3, <2>2, <3>1
  <2> QED BY <2>1, <2>2
<1>5. SeesEmpty'
  <2> SUFFICES ASSUME NEW p \in Proc, NEW n \in Node,
                      pc'[p] = "settle", view'[p][n] = "none"
               PROVE  tasks'[n] = <<>>
    BY DEF SeesEmpty
  <2>1. tasks[n] = <<>>
    <3>1. CASE pc'[p] = pc[p] /\ view'[p] = view[p]
      BY <3>1 DEF SerialInv, SeesEmpty
    <3>2. CASE ListTasks(p)
      <4>1. view'[p][n] = Latest(n)
        BY <3>2 DEF ListTasks, TypeInv, TypeOK
      <4>2. tasks[n] # <<>> => tasks[n][Len(tasks[n])].status \in TaskStatus
        <5>1. ASSUME tasks[n] # <<>> PROVE tasks[n][Len(tasks[n])] \in Task
          BY <1>3, <5>1
        <5> QED BY <5>1 DEF Task
      <4> QED BY <4>1, <4>2 DEF Latest, TaskStatus
    <3> QED BY <1>1, <3>1, <3>2, AdvanceEntered
  <2>2. \A k \in DOMAIN tasks'[n] : k \in DOMAIN tasks[n]
    <3>1. SUFFICES ASSUME NEW q \in Proc, Settle(q) PROVE FALSE
      BY <1>1, SameRows
    <3>2. pc[q] = "settle" /\ pc'[q] = "settled"
      BY <3>1 DEF Settle, Goto, TypeInv, TypeOK
    <3>3. p # q
      BY <3>2
    <3> QED BY <1>2, <3>2, <3>3 DEF OneInEngine, InEngine
  <2> QED BY <1>3, <2>1, <2>2
<1> QED BY <1>2, <1>4, <1>5 DEF SerialInv, OneTaskPerNode

\* SerialSpec only restricts the interleavings of Spec.
LEMMA SerialIsSpec == SerialSpec => Spec
<1>1. [SerialNext]_vars => [Next]_vars
  BY DEF SerialNext
<1> QED BY <1>1, PTL DEF SerialSpec, Spec

\* So it is in every reachable state.
LEMMA SerialCorrect == SerialSpec => []SerialInv
<1>1. Init => SerialInv
  <2> SUFFICES ASSUME Init PROVE SerialInv
    OBVIOUS
  <2>1. OneInEngine(pc)
    BY DEF Init, OneInEngine, InEngine
  <2>2. OneTaskPerNode
    BY DEF Init, OneTaskPerNode
  <2>3. SeesEmpty
    BY DEF Init, SeesEmpty
  <2> QED BY <2>1, <2>2, <2>3 DEF SerialInv
<1> QED BY <1>1, SerialStep, SerialIsSpec, TypeCorrect, PTL DEF SerialSpec

\* When engine calls do not overlap, no interleaving of handlers, crashes,
\* resumptions and sweeps makes a second task for a node.
THEOREM OneTask == SerialSpec => []OneTaskPerNode
<1>1. SerialInv => OneTaskPerNode
  BY DEF SerialInv
<1> QED BY <1>1, SerialCorrect, PTL

-----------------------------------------------------------------------------
(* Where no sweep is scheduled none ever runs, and none takes a row.       *)

NoSweepRuns == hb = {} /\ stuck.phase = "idle"

NoneSwept == \A n \in Node : \A k \in DOMAIN tasks[n] : ~tasks[n][k].swept

\* Without sweeps none ever runs.
LEMMA NoSweepRunsStep ==
    ASSUME Sweeps = FALSE, NoSweepRuns, [Next]_vars
    PROVE  NoSweepRuns'
<1> USE DEF NoSweepRuns, sweepVars, envVars
<1>1. ASSUME NEW w \in Worker,
             \/ WorkerStep(w) \/ RunOnceRefused(w) \/ WorkerFault(w)
             \/ Restart(w) \/ AgentGoesStale(w)
      PROVE  UNCHANGED <<hb, stuck>>
  BY <1>1
     DEF WorkerStep, RunOnce, RunOnceRefused, Select, ClaimWins, ClaimLoses, ClaimNothing,
         Begin, WorkerFault, PlanningRaises, ClaimRaises, HandlerReturns, HandlerRaises, CompleteCheck,
         CompleteWrite, CompletePublish, FailCheck, FailRefused, FailWrite, FailPublish,
         Escalate, Approve, Recover, CompleteRaises, FailRaises, Crash, Restart,
         AgentGoesStale
<1>2. ASSUME NEW p \in Proc, Advance(p) PROVE UNCHANGED <<hb, stuck>>
  BY <1>2 DEF Advance, GetRun, ListTasks, Settle, Settled
<1>3. ASSUME StartRun \/ Resume \/ ClientStops \/ UNCHANGED vars PROVE UNCHANGED <<hb, stuck>>
  BY <1>3 DEF StartRun, Resume, ClientStops, vars
<1>4. ASSUME \/ \E id \in Rows : TaskGoesStale(id)
             \/ HeartbeatSweep \/ HeartbeatSweepDies \/ StuckSweep \/ StuckSweepDies
      PROVE  FALSE
  BY <1>4 DEF TaskGoesStale, HeartbeatSweep, HeartbeatSweepRead, HeartbeatSweepWrite,
              HeartbeatSweepDies, StuckSweep, StuckSweepRead, StuckSweepWrite,
              StuckSweepPublish, StuckSweepDies
<1> QED BY <1>1, <1>2, <1>3, <1>4 DEF Next

\* Without sweeps no row is taken by one.
LEMMA NoneSweptStep ==
    ASSUME TypeInv, NoSweepRuns, NoneSwept, [Next]_vars
    PROVE  NoneSwept'
<1> SUFFICES ASSUME NEW n \in Node, NEW k \in DOMAIN tasks'[n] PROVE ~tasks'[n][k].swept
  BY DEF NoneSwept
<1>1. CASE k \in DOMAIN tasks[n]
  <2> DEFINE t == tasks[n][k]
             u == tasks'[n][k]
  <2>1. t \in Task /\ RowStep(n, k, t, u) /\ ~t.swept
    BY <1>1, RowSteps DEF TypeInv, TypeOK, NoneSwept
  <2>2. ~HeartbeatSweepWrite /\ ~StuckSweepWrite
    BY DEF HeartbeatSweepWrite, StuckSweepWrite, NoSweepRuns
  <2> HIDE DEF t, u
  <2>3. \A a : ~Given(n, t, a).swept
    BY <2>1 DEF Given, Task
  <2> QED BY <2>1, <2>2, <2>3 DEF RowStep, Claimed, Finished, Aged, Task, t, u
<1>2. CASE k \notin DOMAIN tasks[n]
  BY <1>2, RowSteps DEF NewTask
<1> QED BY <1>1, <1>2

\* So it is in every behaviour without sweeps.
LEMMA NoSweepCorrect == ASSUME Sweeps = FALSE PROVE Spec => [](NoSweepRuns /\ NoneSwept)
<1>1. Init => NoSweepRuns /\ NoneSwept
  BY DEF Init, NoSweepRuns, NoSweep, NoneSwept
<1>2. TypeInv /\ (NoSweepRuns /\ NoneSwept) /\ [Next]_vars => (NoSweepRuns /\ NoneSwept)'
  BY NoSweepRunsStep, NoneSweptStep
<1> QED BY <1>1, <1>2, TypeCorrect, PTL DEF Spec

-----------------------------------------------------------------------------
(* The refinement of DagRun.                                               *)

\* advance acts on the present: the run is RUNNING, the statuses are current.
Current ==
    \A p \in Proc :
        /\ pc[p] \in {"list_tasks", "settle"} => run = "RUNNING"
        /\ pc[p] = "settle" => \A n \in Node : view[p][n] = Latest(n)

\* What a serial advance has read stays true until it writes.
LEMMA CurrentStep ==
    ASSUME Sweeps = FALSE, TypeInv, NoSweepRuns, SerialInv, Current, [SerialNext]_vars
    PROVE  Current'
<1>0. [Next]_vars
  BY DEF SerialNext
<1> SUFFICES ASSUME NEW p \in Proc, pc'[p] \in {"list_tasks", "settle"}
             PROVE  /\ run' = "RUNNING"
                    /\ pc'[p] = "settle" => \A n \in Node : view'[p][n] = Latest(n)'
  BY DEF Current
<1>1. pc \in [Proc -> Labels] /\ Worker \subseteq Proc
  BY DEF TypeInv, TypeOK, Proc
<1>2. pc[p] \in {"get_run", "list_tasks", "settle"}
  BY <1>0, AdvanceEntered DEF GetRun, ListTasks
<1>3. \A q \in Proc : q # p => pc[q] \notin InEngine
  BY <1>2 DEF SerialInv, OneInEngine, InEngine
<1>4. ASSUME NEW q \in Proc PROVE ~Settle(q)
  <2>1. Settle(q) => pc[q] = "settle" /\ pc'[q] = "settled"
    BY <1>1 DEF Settle, Goto
  <2> QED BY <1>3, <2>1 DEF InEngine
<1>5. run' = "RUNNING"
  <2>1. run = "RUNNING" \/ run' = "RUNNING"
    BY <1>0, AdvanceEntered DEF Current, ListTasks
  <2> QED BY <1>0, <1>4, <2>1, RunSteps DEF StartRun
<1>6. pc'[p] = "settle" => tasks' = tasks
  <2> SUFFICES ASSUME pc'[p] = "settle" PROVE tasks' = tasks
    OBVIOUS
  <2>1. pc[p] \in {"list_tasks", "settle"}
    BY <1>0, AdvanceEntered DEF ListTasks
  <2>2. ASSUME NEW w \in Worker PROVE ~(ClaimWins(w) \/ CompleteWrite(w) \/ FailWrite(w))
    BY <1>1, <1>3, <2>1 DEF ClaimWins, CompleteWrite, FailWrite, InEngine
  <2>3. ~(\/ \E id \in Rows : TaskGoesStale(id)
          \/ HeartbeatSweepWrite \/ StuckSweepWrite)
    BY DEF TaskGoesStale, HeartbeatSweepWrite, StuckSweepWrite, NoSweepRuns
  <2> QED BY <1>0, <1>4, <2>2, <2>3, StepCases
<1>7. ASSUME pc'[p] = "settle", NEW n \in Node PROVE view'[p][n] = Latest(n)'
  <2>1. Latest(n)' = Latest(n)
    BY <1>6, <1>7 DEF Latest
  <2>2. CASE pc'[p] = pc[p] /\ view'[p] = view[p]
    BY <1>7, <2>1, <2>2 DEF Current
  <2>3. CASE ListTasks(p)
    BY <2>1, <2>3 DEF ListTasks, TypeInv, TypeOK
  <2> QED BY <1>0, <1>7, <2>2, <2>3, AdvanceEntered
<1> QED BY <1>5, <1>7

\* With one task a node, the write of a row moves its node's status.
LEMMA RowMove ==
    ASSUME TypeInv, OneTaskPerNode, NEW id \in Rows, NEW r \in Task,
           tasks' = WithRow(id, r), run' = run
    PROVE  Run!Move(id[1], Row(id).status, r.status)
<1> DEFINE m == id[1]
<1>1. tasks \in [Node -> Seq(Task)] /\ id \in TaskId /\ id[2] \in DOMAIN tasks[m]
  BY RowsChar DEF TypeInv, TypeOK
<1>2. m \in Node /\ id = <<m, id[2]>>
  BY <1>1 DEF TaskId
<1>3. Len(tasks[m]) = 1 /\ id[2] = 1
  <2>1. Len(tasks[m]) <= 1
    BY <1>2 DEF OneTaskPerNode
  <2>2. tasks[m] \in Seq(Task)
    BY <1>1, <1>2
  <2> HIDE DEF m
  <2>3. Len(tasks[m]) \in Nat /\ id[2] \in 1..Len(tasks[m])
    BY <1>1, <2>2
  <2>4. \A i, j \in Int : i \in 1..j /\ j <= 1 => i = 1 /\ j = 1
    OBVIOUS
  <2>5. Len(tasks[m]) \in Int /\ id[2] \in Int
    BY <2>3
  <2> QED BY <2>1, <2>3, <2>4, <2>5, Zenon
<1>4. /\ tasks' \in [Node -> Seq(Task)]
      /\ \A n \in Node : DOMAIN tasks'[n] = DOMAIN tasks[n]
      /\ \A n \in Node : \A k \in DOMAIN tasks[n] :
            tasks'[n][k] = IF <<n, k>> = id THEN r ELSE tasks[n][k]
  BY <1>1, WithRowType
<1>5. \A n \in Node : Len(tasks'[n]) = Len(tasks[n])
  BY <1>1, <1>4
<1>6. ASSUME NEW n \in Node, n # m PROVE Latest(n)' = Latest(n)
  <2>1. tasks'[n] = tasks[n]
    <3>1. \A k \in DOMAIN tasks[n] : tasks'[n][k] = tasks[n][k]
      BY <1>2, <1>4, <1>6
    <3>2. tasks[n] \in Seq(Task) /\ tasks'[n] \in Seq(Task)
      BY <1>1, <1>4
    <3> QED BY <1>4, <3>1, <3>2
  <2> QED BY <2>1 DEF Latest
<1>7. Latest(m) = Row(id).status /\ Latest(m)' = r.status
  <2>1. tasks[m] # <<>> /\ tasks'[m] # <<>> /\ Len(tasks'[m]) = 1
    BY <1>1, <1>2, <1>3, <1>4, <1>5
  <2>2. tasks'[m][1] = r
    BY <1>1, <1>2, <1>3, <1>4
  <2> QED BY <1>3, <2>1, <2>2 DEF Latest, Row
<1>8. [n \in Node |-> Latest(n)]' = [[n \in Node |-> Latest(n)] EXCEPT ![m] = r.status]
  <2> HIDE DEF m
  <2> QED BY <1>2, <1>6, <1>7
<1> HIDE DEF m
<1>9. [n \in Node |-> Latest(n)][m] = Row(id).status
  BY <1>2, <1>7
<1> QED BY <1>8, <1>9 DEF Run!Move, m

\* The transaction of advance is the abstract Advance.
LEMMA SettleRefines ==
    ASSUME TypeInv, Current, NEW p \in Proc, Settle(p)
    PROVE  Run!Advance
<1> DEFINE S == [n \in Node |-> Latest(n)]
<1>1. pc[p] = "settle" /\ run = "RUNNING"
  BY DEF Settle, Current
<1>2. view[p] = S
  <2>1. view[p] \in [Node -> TaskStatus \cup {"none"}]
    BY DEF TypeInv, TypeOK
  <2>2. \A n \in Node : view[p][n] = Latest(n)
    BY <1>1 DEF Current
  <2> QED BY <2>1, <2>2
<1>3. ASSUME NEW n \in Node
      PROVE  Latest(n)' = IF Run!IsReady(n) THEN "PENDING" ELSE Latest(n)
  <2>1. n \in Ready(view[p]) <=> Run!IsReady(n)
    BY <1>2, DefinitionAssumption DEF Ready, Run!IsReady
  <2>2. CASE n \in Ready(view[p])
    <3>1. tasks'[n] = Append(tasks[n], NewTask) /\ tasks[n] \in Seq(Task)
      BY <2>2 DEF Settle, TypeInv, TypeOK
    <3>2. NewTask \in Task /\ NewTask.status = "PENDING"
      BY DEF NewTask, Task, TaskStatus
    <3>3. tasks'[n] # <<>> /\ tasks'[n][Len(tasks'[n])] = NewTask
      BY <3>1, <3>2
    <3> QED BY <2>1, <2>2, <3>2, <3>3 DEF Latest
  <2>3. CASE n \notin Ready(view[p])
    <3>1. tasks'[n] = tasks[n]
      BY <2>3 DEF Settle
    <3> QED BY <2>1, <2>3, <3>1 DEF Latest
  <2> QED BY <2>2, <2>3
<1>4. [n \in Node |-> Latest(n)]' = [n \in Node |-> IF Run!IsReady(n) THEN "PENDING" ELSE S[n]]
  BY <1>3
<1>5. run' = Verdict(S)
  BY <1>2 DEF Settle
<1> QED BY <1>1, <1>4, <1>5 DEF Run!Advance, Verdict

\* Every step does to the latest tasks and the run what DagRun allows, or nothing.
LEMMA StepRefines ==
    ASSUME Sweeps = FALSE, TypeInv, NoSweepRuns, NoneSwept, Lease, OneTaskPerNode, Current,
           [Next]_vars
    PROVE  [Run!Next]_(Run!dagVars)
<1>1. CASE tasks' = tasks /\ run' = run
  <2>1. [n \in Node |-> Latest(n)]' = [n \in Node |-> Latest(n)]
    BY <1>1 DEF Latest
  <2> QED BY <1>1, <2>1 DEF Run!dagVars
<1>2. CASE StartRun
  <2>1. [n \in Node |-> Latest(n)]' = [n \in Node |-> Latest(n)]
    BY <1>2 DEF StartRun, Latest
  <2> QED BY <1>2, <2>1 DEF StartRun, Run!Start, Run!Next
<1>3. ASSUME NEW p \in Proc, Settle(p) PROVE Run!Next
  BY <1>3, SettleRefines DEF Run!Next
<1>4. ASSUME NEW id \in Rows, NEW r \in Task, tasks' = WithRow(id, r), run' = run,
             \/ Row(id).status = "PENDING" /\ r.status = "ASSIGNED"
             \/ Row(id).status = "ASSIGNED" /\ r.status \in {"PENDING", "DONE", "FAILED"}
      PROVE  Run!Next
  <2>1. id[1] \in Node /\ Run!Move(id[1], Row(id).status, r.status)
    BY <1>4, RowMove, RowsChar DEF TypeInv, TypeOK, TaskId
  <2> QED BY <1>4, <2>1 DEF Run!Next, Run!Take, Run!Retry, Run!Finish, Run!Fail
<1>5. ASSUME NEW w \in Worker, ClaimWins(w) PROVE Run!Next
  <2>1. PICK id \in seen[w] : /\ tasks' = WithRow(id, Claimed(Row(id), w))
                              /\ Row(id).status = "PENDING"
    BY <1>5 DEF ClaimWins, Claimed, Claimable
  <2>2. id \in Rows /\ Row(id) \in Task
    BY RowsChar DEF TypeInv, TypeOK, HeldRows
  <2>3. Claimed(Row(id), w) \in Task /\ Claimed(Row(id), w).status = "ASSIGNED"
    BY <2>2, NewRowTypes DEF Claimed, Task
  <2>4. run' = run
    BY <1>5 DEF ClaimWins
  <2> QED BY <1>4, <2>1, <2>2, <2>3, <2>4
<1>6. ASSUME NEW w \in Worker, CompleteWrite(w) PROVE Run!Next
  <2>1. pc[w] = "completing" /\ pc[w] \in Holding /\ run' = run
    BY <1>6 DEF CompleteWrite, Holding, Labels
  <2>2. cur[w] \in Rows /\ Row(cur[w]) \in Task /\ Row(cur[w]).status = "ASSIGNED"
    BY <2>1, HeldRow DEF Lease, Owns, Taken, Reporting, NoneSwept, Row
  <2>3. Finished(Row(cur[w])) \in Task /\ Finished(Row(cur[w])).status = "DONE"
    BY <2>2, NewRowTypes DEF Finished, Task
  <2>4. tasks' = WithRow(cur[w], Finished(Row(cur[w])))
    BY <1>6 DEF CompleteWrite, Finished
  <2> QED BY <1>4, <2>1, <2>2, <2>3, <2>4
<1>7. ASSUME NEW w \in Worker, FailWrite(w) PROVE Run!Next
  <2> DEFINE r == Given(cur[w][1], Row(cur[w]), att[w] + 1)
  <2>1. pc[w] = "failing" /\ pc[w] \in Holding /\ run' = run
    BY <1>7 DEF FailWrite, Holding, Labels
  <2>2. cur[w] \in Rows /\ Row(cur[w]) \in Task /\ Row(cur[w]).status = "ASSIGNED"
    BY <2>1, HeldRow DEF Lease, Owns, Taken, Reporting, NoneSwept, Row
  <2>3. r \in Task /\ r.status \in {"PENDING", "FAILED"}
    <3>1. att[w] + 1 \in Int
      BY DEF TypeInv, TypeOK
    <3>2. cur[w][1] \in Node /\ Row(cur[w]) \in Task
      BY <2>1, HeldRow
    <3>3. ASSUME NEW m \in Node, NEW t \in Task, NEW a \in Int
          PROVE  Given(m, t, a) \in Task /\ Given(m, t, a).status \in {"PENDING", "FAILED"}
      <4>1. Given(m, t, a).status = IF Exhausted(m, a) THEN "FAILED" ELSE "PENDING"
        BY NewRowTypes
      <4> QED BY <4>1, NewRowTypes
    <3> QED BY <3>1, <3>2, <3>3
  <2>4. tasks' = WithRow(cur[w], r)
    BY <1>7 DEF FailWrite, Given
  <2> HIDE DEF r
  <2> QED BY <1>4, <2>1, <2>2, <2>3, <2>4
<1>8. ~(\/ \E id \in Rows : TaskGoesStale(id)
        \/ HeartbeatSweepWrite \/ StuckSweepWrite)
  BY DEF TaskGoesStale, HeartbeatSweepWrite, StuckSweepWrite, NoSweepRuns
<1> QED BY <1>1, <1>2, <1>3, <1>5, <1>6, <1>7, <1>8, StepCases, RunSteps

\* Without sweeps and with engine calls that do not overlap, every behaviour
\* of the detailed model, crashes and resumptions included, is a behaviour of
\* DagRun: each step does a step of the abstract run or leaves it alone.
THEOREM Implements == ASSUME Sweeps = FALSE PROVE SerialSpec => ImplementsDagRun
<1>1. Init => Run!Init
  BY DEF Init, Run!Init, Latest
<1>2. Init => Current
  BY DEF Init, Current
<1>3. TypeInv /\ (NoSweepRuns /\ NoneSwept) /\ Lease /\ SerialInv /\ Current /\ [SerialNext]_vars
          => Current'
  BY CurrentStep
<1>4. TypeInv /\ (NoSweepRuns /\ NoneSwept) /\ Lease /\ SerialInv /\ Current /\ [SerialNext]_vars
          => [Run!Next]_(Run!dagVars)
  BY StepRefines DEF SerialNext, SerialInv
<1>5. SerialSpec => [](TypeInv /\ (NoSweepRuns /\ NoneSwept) /\ Lease /\ SerialInv)
  BY SerialIsSpec, TypeCorrect, LeaseCorrect, NoSweepCorrect, SerialCorrect, PTL
<1> QED BY <1>1, <1>2, <1>3, <1>4, <1>5, PTL DEF SerialSpec, ImplementsDagRun, Run!Spec

-----------------------------------------------------------------------------
(* The cursor.  Only advance writes it; a completion leaves it behind until *)
(* the advance that follows, so its node may be DONE, but none before it is *)
(* anything else.                                                           *)

\* Only the transaction of advance writes the cursor.
LEMMA CursorSteps ==
    ASSUME [Next]_vars
    PROVE  cursor' = cursor \/ \E p \in Proc : Settle(p)
<1> USE DEF dbVars, tableVars, procVars, locals, sweepVars, envVars
<1>1. ASSUME NEW w \in Worker,
             \/ WorkerStep(w) \/ RunOnceRefused(w) \/ WorkerFault(w)
             \/ Restart(w) \/ AgentGoesStale(w)
      PROVE  cursor' = cursor
  BY <1>1
     DEF WorkerStep, RunOnce, RunOnceRefused, Select, ClaimWins, ClaimLoses, ClaimNothing,
         Begin, WorkerFault, PlanningRaises, ClaimRaises, HandlerReturns, HandlerRaises, CompleteCheck,
         CompleteWrite, CompletePublish, FailCheck, FailRefused, FailWrite, FailPublish,
         Escalate, Approve, Recover, CompleteRaises, FailRaises, Crash, Restart,
         AgentGoesStale
<1>2. ASSUME NEW p \in Proc, Advance(p) PROVE cursor' = cursor \/ Settle(p)
  BY <1>2 DEF Advance, GetRun, ListTasks, Settled
<1>3. ASSUME \/ StartRun \/ Resume \/ ClientStops \/ UNCHANGED vars
             \/ \E id \in Rows : TaskGoesStale(id)
             \/ HeartbeatSweep \/ HeartbeatSweepDies \/ StuckSweep \/ StuckSweepDies
      PROVE  cursor' = cursor
  BY <1>3
     DEF StartRun, Resume, ClientStops, TaskGoesStale, HeartbeatSweep, HeartbeatSweepRead,
         HeartbeatSweepWrite, HeartbeatSweepDies, StuckSweep, StuckSweepRead,
         StuckSweepWrite, StuckSweepPublish, StuckSweepDies, vars
<1> QED BY <1>1, <1>2, <1>3 DEF Next

\* Faults are counted, and not forgotten.
LEMMA FaultsGrow ==
    ASSUME TypeInv, [Next]_vars, faults > 0
    PROVE  faults' > 0
<1>1. faults \in Nat
  BY DeploymentAssumption DEF TypeInv, TypeOK
<1>2. faults' = faults \/ Fault
  <2> USE DEF NoFault, envVars
  <2>1. ASSUME NEW w \in Worker,
               \/ WorkerStep(w) \/ RunOnceRefused(w) \/ WorkerFault(w)
               \/ Restart(w) \/ AgentGoesStale(w)
        PROVE  faults' = faults \/ Fault
    BY <2>1
       DEF WorkerStep, RunOnce, RunOnceRefused, Select, ClaimWins, ClaimLoses, ClaimNothing,
           Begin, WorkerFault, PlanningRaises, ClaimRaises, HandlerReturns, HandlerRaises, CompleteCheck,
           CompleteWrite, CompletePublish, FailCheck, FailRefused, FailWrite, FailPublish,
           Escalate, Approve, Recover, CompleteRaises, FailRaises, Crash, Restart,
           AgentGoesStale
  <2>2. ASSUME NEW p \in Proc, Advance(p) PROVE faults' = faults
    BY <2>2 DEF Advance, GetRun, ListTasks, Settle, Settled
  <2>3. ASSUME \/ StartRun \/ Resume \/ ClientStops \/ UNCHANGED vars
               \/ \E id \in Rows : TaskGoesStale(id)
               \/ HeartbeatSweep \/ HeartbeatSweepDies \/ StuckSweep \/ StuckSweepDies
        PROVE  faults' = faults \/ Fault
    BY <2>3
       DEF StartRun, Resume, ClientStops, TaskGoesStale, HeartbeatSweep, HeartbeatSweepRead,
           HeartbeatSweepWrite, HeartbeatSweepDies, StuckSweep, StuckSweepRead,
           StuckSweepWrite, StuckSweepPublish, StuckSweepDies, vars
  <2> QED BY <2>1, <2>2, <2>3 DEF Next
<1> QED BY <1>1, <1>2 DEF Fault

Pending == {"completed", "get_run", "list_tasks", "settle"}

\* A completion on its way to the cursor gets there, unless a fault stops it or
\* the run is no longer RUNNING.
LEMMA AdvancingStep ==
    ASSUME TypeInv, [Next]_vars, NEW p \in Proc, pc[p] \in Pending,
           \A q \in Proc : ~Settle(q)
    PROVE  pc'[p] \in Pending \/ run # "RUNNING" \/ faults' > 0
<1>0. /\ pc \in [Proc -> Labels] /\ Worker \subseteq Proc /\ Client \in Proc /\ faults \in Nat
  BY DeploymentAssumption DEF TypeInv, TypeOK, Proc
<1> USE <1>0 DEF Pending, Goto, procVars, locals
<1>1. ASSUME NEW w \in Worker,
             \/ RunOnce(w) \/ Select(w) \/ ClaimWins(w) \/ ClaimLoses(w) \/ ClaimNothing(w)
             \/ Begin(w) \/ HandlerReturns(w) \/ HandlerRaises(w) \/ CompleteCheck(w)
             \/ CompleteWrite(w) \/ CompletePublish(w)
      PROVE  pc'[p] \in Pending
  BY <1>1 DEF RunOnce, Select, ClaimWins, ClaimLoses, ClaimNothing, Begin, Leave,
              HandlerReturns, HandlerRaises, CompleteCheck, CompleteWrite, CompletePublish
<1>2. ASSUME NEW w \in Worker,
             \/ FailCheck(w) \/ FailRefused(w) \/ FailWrite(w) \/ FailPublish(w)
             \/ Escalate(w) \/ Approve(w) \/ Recover(w) \/ RunOnceRefused(w)
             \/ Restart(w) \/ AgentGoesStale(w)
      PROVE  pc'[p] \in Pending
  BY <1>2 DEF FailCheck, FailRefused, FailWrite, FailPublish, Escalate, Approve, Recover,
              RunOnceRefused, Restart, AgentGoesStale, Leave
<1>3. ASSUME NEW w \in Worker, WorkerFault(w) PROVE faults' > 0
  BY <1>3 DEF WorkerFault, PlanningRaises, ClaimRaises, CompleteRaises, FailRaises, Crash, Fault
<1>4. ASSUME NEW q \in Proc, Advance(q) PROVE pc'[p] \in Pending \/ run # "RUNNING"
  BY <1>4 DEF Advance, GetRun, ListTasks, Settled
<1>5. ASSUME ClientStops PROVE faults' > 0
  BY <1>5 DEF ClientStops, Fault
<1>6. ASSUME StartRun \/ Resume PROVE pc'[p] \in Pending
  BY <1>6 DEF StartRun, Resume
<1>7. ASSUME \/ \E id \in Rows : TaskGoesStale(id)
             \/ HeartbeatSweep \/ HeartbeatSweepDies \/ StuckSweep \/ StuckSweepDies
             \/ UNCHANGED vars
      PROVE  pc' = pc
  BY <1>7
     DEF TaskGoesStale, HeartbeatSweep, HeartbeatSweepRead, HeartbeatSweepWrite,
         HeartbeatSweepDies, StuckSweep, StuckSweepRead, StuckSweepWrite,
         StuckSweepPublish, StuckSweepDies, vars
<1> QED BY <1>1, <1>2, <1>3, <1>4, <1>5, <1>6, <1>7 DEF Next, WorkerStep

\* A step that is no transaction of advance leaves a DONE node DONE, and makes one
\* DONE only by a completion that has advance still to call.
LEMMA DoneSteps ==
    ASSUME Sweeps = FALSE, TypeInv, NoneSwept, Lease, [Next]_vars,
           \A q \in Proc : ~Settle(q), NEW n \in Node
    PROVE  /\ tasks'[n] = <<>> <=> tasks[n] = <<>>
           /\ Latest(n) = "DONE" => Latest(n)' = "DONE"
           /\ Latest(n)' = "DONE" => Latest(n) = "DONE" \/ Advancing'
<1> DEFINE k == Len(tasks[n])
<1>1. /\ tasks[n] \in Seq(Task) /\ tasks'[n] \in Seq(Task)
      /\ DOMAIN tasks'[n] = DOMAIN tasks[n]
  BY TypeStep, SameRows DEF TypeInv, TypeOK
<1>2. Len(tasks'[n]) = k /\ (tasks'[n] = <<>> <=> tasks[n] = <<>>)
  BY <1>1
<1>3. CASE tasks[n] = <<>>
  BY <1>2, <1>3 DEF Latest
<1>4. CASE tasks[n] # <<>>
  <2>1. k \in DOMAIN tasks[n] /\ tasks[n][k] \in Task
    BY <1>1, <1>4
  <2>2. Latest(n) = tasks[n][k].status /\ Latest(n)' = tasks'[n][k].status
    BY <1>2, <1>4 DEF Latest
  <2> HIDE DEF k
  <2>3. ~tasks[n][k].swept
    BY <2>1 DEF NoneSwept
  <2> DEFINE t == tasks[n][k]
             u == tasks'[n][k]
  <2>4. RowStep(n, k, t, u)
    BY <2>1, RowSteps
  <2>5. \/ u = t
        \/ t.status = "ASSIGNED" /\ (u = Aged(t) \/ u.swept)
        \/ t.status = "PENDING" /\ \E w \in Worker : ClaimWins(w) /\ u = Claimed(t, w)
        \/ \E w \in Worker :
             /\ t.status = "ASSIGNED" /\ t.agent = w /\ cur[w] = <<n, k>>
             /\ \/ CompleteWrite(w) /\ u = Finished(t)
                \/ FailWrite(w) /\ u = Given(n, t, att[w] + 1)
    BY <2>1, <2>3, LeaseWrites
  <2>6. t.status = "DONE" => u.status = "DONE"
    <3> HIDE DEF t, u
    <3> QED BY <2>5
  <2>7. ASSUME u.status = "DONE", t.status # "DONE" PROVE \E w \in Worker : CompleteWrite(w)
    <3>1. t \in Task
      BY <2>1
    <3> HIDE DEF t, u
    <3>2. \A w \in Worker : Claimed(t, w).status = "ASSIGNED"
      BY <3>1 DEF Claimed, Task
    <3>3. Aged(t).status = t.status /\ Requeued(t).status = "PENDING"
      BY <3>1 DEF Aged, Requeued, Task
    <3>4. \A a : Given(n, t, a).status # "DONE" /\ Unstuck(n, t, a).status # "DONE"
      BY <3>1 DEF Given, Unstuck, Requeued, Task
    <3> QED BY <2>4, <2>7, <3>2, <3>3, <3>4 DEF RowStep
  <2>8. ASSUME NEW w \in Worker, CompleteWrite(w) PROVE Advancing'
    <3>1. w \in Proc /\ pc \in [Proc -> Labels]
      BY DEF TypeInv, TypeOK, Proc
    <3>2. pc'[w] = "completed"
      BY <2>8, <3>1 DEF CompleteWrite, Goto
    <3> QED BY <3>1, <3>2 DEF Advancing
  <2> QED BY <1>2, <2>2, <2>6, <2>7, <2>8
<1> QED BY <1>3, <1>4

\* There is no cursor before there is a run.
CursorOfRun == cursor # NoNode => run # "none"

\* The transaction of advance stores a cursor that is up to date.
LEMMA CursorStored ==
    ASSUME TypeInv, Current, NEW p \in Proc, Settle(p)
    PROVE  CursorKeepsUp' /\ CursorOfRun'
<1> DEFINE v == view[p]
<1>1. /\ \A n \in Node : tasks[n] \in Seq(Task)
      /\ \A n \in Node : v[n] = Latest(n)
      /\ cursor' = Frontier(v) /\ run' = Verdict(v)
      /\ \A n \in Node : tasks'[n] = IF n \in Ready(v) THEN Append(tasks[n], NewTask) ELSE tasks[n]
  BY DEF Settle, Current, TypeInv, TypeOK
<1>2. NewTask \in Task /\ NewTask.status = "PENDING"
  BY DEF NewTask, Task, TaskStatus
<1> HIDE DEF v
<1>3. run' \in {"FAILED", "COMPLETED", "RUNNING"}
  BY <1>1 DEF Verdict
<1>4. ASSUME NEW n \in Node
      PROVE  /\ n \in Ready(v) => tasks'[n] # <<>> /\ Latest(n)' = "PENDING"
             /\ n \notin Ready(v) => tasks'[n] = tasks[n] /\ Latest(n)' = v[n]
  <2>1. CASE n \in Ready(v)
    <3>1. tasks'[n] = Append(tasks[n], NewTask) /\ tasks[n] \in Seq(Task)
      BY <1>1, <2>1
    <3>2. tasks'[n] # <<>> /\ tasks'[n][Len(tasks'[n])] = NewTask
      BY <1>2, <3>1
    <3> QED BY <1>2, <2>1, <3>2 DEF Latest
  <2>2. CASE n \notin Ready(v)
    <3>1. tasks'[n] = tasks[n]
      BY <1>1, <2>2
    <3> QED BY <1>1, <2>2, <3>1 DEF Latest
  <2> QED BY <2>1, <2>2
<1>5. CASE Frontier(v) = NoNode /\ \A n \in Node : v[n] = "DONE"
  <2>1. run' = "COMPLETED" /\ cursor' = NoNode
    BY <1>1, <1>5 DEF Verdict
  <2> QED BY <2>1 DEF CursorKeepsUp, CursorOfRun
<1>6. ASSUME NEW i \in DOMAIN Order,
             Frontier(v) = Order[i], Order[i] \in Node, v[Order[i]] # "DONE",
             \A j \in DOMAIN Order : j < i => v[Order[j]] = "DONE"
      PROVE  CursorKeepsUp' /\ CursorOfRun'
  <2>1. PICK c \in Node : c = Order[i]
    BY <1>6
  <2>2. cursor' = c /\ c # NoNode /\ v[c] # "DONE"
    BY <1>1, <1>6, <2>1, DefinitionAssumption
  <2>3. /\ DOMAIN Order \subseteq Nat /\ Order \in Seq(Node)
        /\ \A k, j \in DOMAIN Order : Order[k] = Order[j] => k = j
    BY DefinitionAssumption
  <2>4. ASSUME NEW d \in Deps[c] PROVE v[d] = "DONE"
    <3>1. PICK k \in DOMAIN Order : Order[k] = c /\ \E j \in 1..(k - 1) : Order[j] = d
      BY DefinitionAssumption
    <3>2. k = i
      BY <2>1, <2>3, <3>1
    <3>3. PICK j \in 1..(i - 1) : Order[j] = d
      BY <3>1, <3>2
    <3>4. DOMAIN Order = 1..Len(Order) /\ Len(Order) \in Nat
      BY <2>3
    <3>5. j \in DOMAIN Order /\ j < i
      BY <3>4
    <3> QED BY <1>6, <3>3, <3>5
  <2>5. tasks'[c] # <<>> /\ Latest(c)' # "DONE"
    <3>1. CASE v[c] = "none"
      <4>1. c \in Ready(v)
        BY <2>4, <3>1 DEF Ready
      <4> QED BY <1>4, <4>1
    <3>2. CASE v[c] # "none"
      <4>1. c \notin Ready(v)
        BY <3>2 DEF Ready
      <4>2. tasks[c] # <<>>
        BY <1>1, <3>2 DEF Latest
      <4> QED BY <1>4, <2>2, <4>1, <4>2
    <3> QED BY <3>1, <3>2
  <2>6. ASSUME NEW n \in Before(c) PROVE Latest(n)' = "DONE"
    <3>1. PICK j \in DOMAIN Order : n = Order[j] /\ \E k \in DOMAIN Order : j < k /\ Order[k] = c
      BY DEF Before
    <3>2. j < i /\ n \in Node
      BY <2>1, <2>3, <3>1
    <3>3. v[n] = "DONE"
      BY <1>6, <3>1, <3>2
    <3>4. n \notin Ready(v)
      BY <3>3 DEF Ready
    <3> QED BY <1>4, <3>2, <3>3, <3>4
  <2>7. run' # "COMPLETED"
    BY <1>1, <2>2 DEF Verdict
  <2>8. CursorOfRun'
    BY <1>3 DEF CursorOfRun
  <2>9. /\ tasks'[cursor'] # <<>> /\ \A n \in Before(cursor)' : Latest(n)' = "DONE"
        /\ Latest(cursor)' # "DONE"
        /\ cursor' # NoNode /\ run' # "COMPLETED"
    <3>1. Before(cursor)' = Before(c)
      BY <2>2 DEF Before
    <3>2. Latest(cursor)' # "DONE"
      BY <2>2, <2>5 DEF Latest
    <3> QED BY <2>2, <2>5, <2>6, <2>7, <3>1, <3>2
  <2> QED BY <2>8, <2>9 DEF CursorKeepsUp
<1> QED BY <1>5, <1>6, FrontierIs

\* No step leaves the cursor ahead of the run, or behind it without a reason.
LEMMA CursorStep ==
    ASSUME Sweeps = FALSE, TypeInv, NoneSwept, Lease, Current, CursorKeepsUp, CursorOfRun,
           [Next]_vars
    PROVE  CursorKeepsUp' /\ CursorOfRun'
<1>1. CASE \E p \in Proc : Settle(p)
  BY <1>1, CursorStored
<1>2. CASE \A p \in Proc : ~Settle(p)
  <2>1. cursor' = cursor /\ (run' = run \/ StartRun)
    BY <1>2, CursorSteps, RunSteps
  <2>2. StartRun => run = "none" /\ run' = "RUNNING"
    BY DEF StartRun
  <2>3. ASSUME NEW n \in Node
        PROVE  /\ tasks'[n] = <<>> <=> tasks[n] = <<>>
               /\ Latest(n) = "DONE" => Latest(n)' = "DONE"
               /\ Latest(n)' = "DONE" => Latest(n) = "DONE" \/ Advancing'
    BY <1>2, DoneSteps
  <2>4. CursorOfRun'
    BY <2>1, <2>2 DEF CursorOfRun
  <2>5. ASSUME NEW c \in Node, c = cursor, c # NoNode
        PROVE  /\ tasks'[c] # <<>> /\ \A n \in Before(c) : Latest(n)' = "DONE"
               /\ Latest(c)' = "DONE" => Advancing' \/ faults' > 0 \/ run' # "RUNNING"
    <3>1. tasks[c] # <<>> /\ \A n \in Before(c) : n \in Node /\ Latest(n) = "DONE"
      BY <2>5, DefinitionAssumption DEF CursorKeepsUp, Before
    <3>2. tasks'[c] # <<>> /\ \A n \in Before(c) : Latest(n)' = "DONE"
      BY <2>3, <3>1
    <3>3. ASSUME Latest(c) = "DONE" PROVE Advancing' \/ faults' > 0 \/ run' # "RUNNING"
      <4>1. Advancing \/ faults > 0 \/ run # "RUNNING"
        BY <2>5, <3>3 DEF CursorKeepsUp
      <4>2. run # "RUNNING" => run' # "RUNNING"
        BY <2>1, <2>2, <2>5 DEF CursorOfRun
      <4>3. Advancing => Advancing' \/ run # "RUNNING" \/ faults' > 0
        BY <1>2, AdvancingStep DEF Advancing, Pending
      <4>4. faults > 0 => faults' > 0
        BY FaultsGrow
      <4> QED BY <4>1, <4>2, <4>3, <4>4
    <3> QED BY <2>3, <3>2, <3>3
  <2>6. cursor' # NoNode =>
           /\ tasks'[cursor'] # <<>> /\ \A n \in Before(cursor') : Latest(n)' = "DONE"
           /\ Latest(cursor)' = "DONE" => Advancing' \/ faults' > 0 \/ run' # "RUNNING"
    <3> SUFFICES ASSUME cursor' # NoNode
                 PROVE  /\ tasks'[cursor'] # <<>> /\ \A n \in Before(cursor') : Latest(n)' = "DONE"
                        /\ Latest(cursor)' = "DONE" => Advancing' \/ faults' > 0 \/ run' # "RUNNING"
      OBVIOUS
    <3>1. PICK c \in Node : c = cursor /\ c # NoNode
      BY <2>1 DEF TypeInv, TypeOK
    <3>2. Latest(cursor)' = Latest(c)' /\ cursor' = c
      BY <2>1, <3>1 DEF Latest
    <3> QED BY <2>5, <3>1, <3>2
  <2>7. (\E n \in Node : tasks'[n] # <<>>) => (cursor' = NoNode <=> run' = "COMPLETED")
    <3> SUFFICES ASSUME NEW n \in Node, tasks'[n] # <<>>
                 PROVE  cursor' = NoNode <=> run' = "COMPLETED"
      OBVIOUS
    <3>1. cursor = NoNode <=> run = "COMPLETED"
      BY <2>3 DEF CursorKeepsUp
    <3> QED BY <2>1, <2>2, <3>1 DEF CursorOfRun
  <2> QED BY <2>4, <2>6, <2>7 DEF CursorKeepsUp, Before
<1> QED BY <1>1, <1>2

\* Without sweeps and with engine calls that do not overlap, the cursor that advance
\* stores keeps up with the run, whatever crashes, is lost or is called again.
THEOREM CursorKept == ASSUME Sweeps = FALSE PROVE SerialSpec => []CursorKeepsUp
<1>1. Init => Current /\ CursorKeepsUp /\ CursorOfRun
  BY DEF Init, Current, CursorKeepsUp, CursorOfRun
<1>2. TypeInv /\ (NoSweepRuns /\ NoneSwept) /\ Lease /\ SerialInv /\ Current
          /\ [SerialNext]_vars => Current'
  BY CurrentStep
<1>3. TypeInv /\ (NoSweepRuns /\ NoneSwept) /\ Lease /\ SerialInv /\ Current
          /\ CursorKeepsUp /\ CursorOfRun /\ [SerialNext]_vars
          => (CursorKeepsUp /\ CursorOfRun)'
  BY CursorStep DEF SerialNext
<1>4. SerialSpec => [](TypeInv /\ (NoSweepRuns /\ NoneSwept) /\ Lease /\ SerialInv)
  BY SerialIsSpec, TypeCorrect, LeaseCorrect, NoSweepCorrect, SerialCorrect, PTL
<1> QED BY <1>1, <1>2, <1>3, <1>4, PTL DEF SerialSpec
=============================================================================
