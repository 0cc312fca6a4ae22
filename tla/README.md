# TLA+ models of agentic-system

`agentic_system` is an orchestration layer that many processes share through one
SQLite file: workers claim tasks of workflow runs, cron processes sweep what
got stuck and move circuit breakers, every change is announced in a durable
event log, and a council of models reviews what was escalated. There is no
server: the rows are the only shared state, and every process reads them,
decides, and writes them back some time later. What can go wrong is therefore
almost always of one shape: a decision on a row that has changed since, or a
process that stops between two commits. The models are about that.

## Inventory

| part | state it keeps | operations | with whom it interacts |
|---|---|---|---|
| workflow engine (`workflow/engine.py`) | `workflow_runs`, `tasks` | `start_run`, `advance`, `claim_next`, `claim_task`, `complete_task`, `fail_task` | called by workers and by the host; publishes events; asks the breakers before a claim |
| worker (`workflow/worker.py`) | its state machine, the task in hand | `run_once` | engine, heartbeat, handler supplied by the host |
| agent state machine (`state_machine.py`) | state, counters, cooldown | `handle`, `tick`, `can_accept_task` | driven by the worker, publishes each transition |
| state tables (`events/state_tables.py`) | the tables, `heartbeat` | upsert of `agent_instances` | everybody |
| definitions (`workflow/definitions.py`) | immutable | validation, topological order | engine |
| heartbeat and stuck-task sweeps (`sweeps.py`) | none between runs | read, one transaction, publish | edit the rows of engine and workers |
| watchdog and breaker recovery (`sweeps.py`) | none between runs | count events, move breakers | event store, breakers |
| breaker registry (`breakers.py`) | `breakers` | `open`, `half_open`, `close`, `should_accept_task` | sweeps, engine, host |
| event store (`events/store.py`) | `events`, `consumer_offsets`, an open transaction | `append`, `append_many`, `read_since`, offsets, `prune_before` | every process has its own connection |
| event bus (`events/bus.py`) | poll loops, failure count, listeners | `publish`, `subscribe`, `stop` | store, handlers |
| daily consolidation (`sweeps.py`) | archive file | calls `prune_before` | store |
| council (`council/service.py`, `council/schemas.py`) | `council_sessions`, cooldowns, thread pool | `review` in three stages | models, breakers, bus |
| no-progress detector (`no_progress.py`, `embedding_similarity.py`) | a window of calls and outputs | `observe`, `reset`, `raise_if_looping` | handlers |
| hooks, ports, envelope, status, CLI | the global bus | wiring, validation, reports | host |

What makes each part correct, and what is hard about it:

* **Engine and workers.** A task has at most one holder, ends once, never runs
  before its dependencies are done or more often than its attempts allow; a run
  gets the verdict its tasks justify and does get one. Hard: every engine call
  is a read followed by an unconditional write; `advance` runs in several
  processes; a crash or a raising publish falls between two commits.
* **Sweeps.** What a vanished agent held is queued again. Hard: "vanished" may
  mean slow, and the sweep's read is old when it writes.
* **Event log.** Each event is handled at least once, in order, or given up
  after its failures, or archived; none is lost behind the cursor. Hard: two
  loops under one name, crashes, a transaction nobody closed, pruning.
* **Breakers.** A breaker trips only over failures of its own, is released only
  after cooldown and a clean probe, and is released some day. Hard: two cron
  processes that start in the same minute and write without looking.
* **Claims and breakers together.** Claims ask the breakers that their own
  failures trip. Hard: the gate is read before the claim is written, and
  failures, trips and releases feed each other.
* **Definitions.** What is loaded can run to its end. Hard: cycles anywhere, in
  any order of the nodes.
* **Council.** One verdict per session, from enough members, within the
  deadline, and the row says what the caller was told. Hard: answers late or
  never, a failure after the row was written, a cache that serves for days
  and outlives the configuration its verdicts were reached under.

## Modules

| module | models | checked by |
|---|---|---|
| `AgentFSM` | the transition table of the agent state machine, what `handle` does | through `Workflow` |
| `Workflow` | engine, workers, heartbeat, the two task sweeps, on one run | `MCWorkflow`: `Concurrent`, `Recovery`, and two violations |
| `DagRun` | the abstract run: nodes, statuses, one verdict | as a property of `WorkflowSerial` |
| `WorkflowSerial` | `Workflow` with engine calls that do not overlap, its refinement of `DagRun`, and the cursor of its runs | `MCSerial`: `Serial` |
| `EventBus` | event store, poll loops of one consumer, pruning | `MCEventBus`: `Bus` |
| `Breakers` | breaker registry, watchdog, recovery sweep | `MCBreakers`: `Heal`, `LostTrip` |
| `Admission` | the claims of the engine composed with `Breakers` through `should_accept_task` | `MCAdmission`: `Admission` |
| `Definitions` | `from_dict` and `topo_order`, as operators | through `WorkflowSerial` |
| `Gates` | how reviews become a verdict under a gate policy, as operators | through `Council` |
| `Requests` | what the schemas and the service accept, the cache key, and services configured one after the other; verdicts by `Gates` | `MCRequests`: `Requests`, `StaleReplay` |
| `Sessions` | the abstract review: one verdict per session, told once | as a property of `Council` |
| `Council` | a review: cache, two stages under one deadline, cooldowns, session row, and its refinement of `Sessions` | `MCCouncil`: `Council` |
| `WorkflowProofs` | theorems about `Workflow` and `WorkflowSerial` | tlapm |
| `DefinitionsProofs` | theorems about `Definitions`, and the cursor of `WorkflowSerial` | tlapm |
| `BreakersProofs` | theorems about `Breakers` and `Admission` | tlapm |
| `EventBusProofs`, `GatesProofs`, `CouncilProofs`, `RequestsProofs` | theorems about the module each is named after | tlapm |
| `SumLemmas` | sums, folds and counts over finite sets, for `Breakers`, `Gates` and `Definitions` | tlapm |

### Workflow

Each process (a worker, or the client that calls `start_run` and `advance`) has
a program counter whose labels name the call it is about to make. A SELECT
outside a transaction is a step; an INSERT or UPDATE with its COMMIT is a step;
publishing is a step, because the event store commits on its own connection.
What a process has read lives in a variable of its own (`seen`, `att`, `view`,
`hb`, `stuck`) until it is used. So `CompleteCheck`, `CompleteWrite`,
`CompletePublish` are `complete_task`; `GetRun`, `ListTasks`, `Settle`,
`Settled` are `advance`, and `ret` says whether it returns into `complete_task`
or `fail_task`. `run_once` goes from `RunOnce` to `Approve` (success),
`Recover` (the except branch), `ClaimNothing`, `ClaimRaises`, or out by
`FailRefused` and `FailRaises` (an exception inside the except branch).

`tasks[n]` is the sequence of the tasks of node `n`, oldest first, because
nothing in the schema prevents a second one. `fresh` and `old` say on which
side of the sweeps' cutoffs a timestamp lies. `cursor` is the stored
`current_node_id`, written by `Settle` and by nothing else, and `Order` the
`topo_order` of the definition. `reached` is a history of the terminal statuses
tasks have had; each row has a history of its own, `tries` (how often it was
claimed) and `swept` (a sweep took it from its holder).

`NotGivenUpEarly` and `RetryBudget` relate the stored attempts to the claims that
were really made. The first holds of every task. The second is false of a task
that a sweep has taken, and says so: a worker reads attempts 0, the sweep
requeues (1), another worker claims and fails (FAILED, 2), and the late
`fail_task` of the first writes PENDING with 1. The same late report is why
`HolderOwnsTask` and `TerminalIsFinal` speak of tasks that no sweep has taken.

Faults, each counted against `MaxFaults`: a crash, a publish that raises, a
sweep that dies, and a stall, in which a live worker looks dead to a sweep.

Abstractions: one run; the order of `created_at` is the order of commits; a
worker may claim the rows it read in any order; events that no property
mentions are not kept; the write lock never times out; state-machine counters
are left out; the engine runs without breakers, as it
does when it is given none.

### EventBus

A method of the store is a step (it holds the lock and commits); the poll loop
is `GetOffset`, `ReadSince`, `HandlerReturns` or `HandlerRaises`,
`CommitOffset`, `Skip`. Two loops run under one consumer name, one of them in
the process of the publisher. `tx` holds the rows that a raising `append_many`
leaves in the connection's open transaction. Pruning archives and deletes in
two steps; a row can be past the cutoff and appear in between only if its caller
backdated it. Such a row is deleted without being archived, although `store.py:230`
says "never destroy": `late` records it and `PrunedAreArchived` exempts it.
Faults: a crash, a stop, a second live loop, a raising call of the database or
of `append_many`, a `created_at` made by the caller.

### Breakers

A tick is the cadence of the recovery sweep; timestamps are ages in ticks, cut
off at the largest value the code compares them with. Reading a breaker or the
counts is a step, each upsert is another. `todo` is what a sweep still has
to do from its snapshot, and `dirty` the history of what had failed within the probe
window when it began, this tick included. A sweep ends within the tick it began
in, and starts at most once in it: that failures grow older between its count and
its write is left out. `Key` is the set of aggregate ids that fail; `OperatorSets` is
a host that calls the registry by hand, and the action properties exempt a
breaker that was touched by hand in the same tick.

### Admission

`Breakers` plus the engine of a deployment that has breakers. `GateAdmits` asks
one breaker per step (`Asks`: global, workflow, agent), so that every answer may
be stale when `ClaimWins` writes; `ClaimRefused` and `ClaimLoses` go on to the
next row of `claim_next`, `StartRefused` is the exception of `start_run`.
`PublishAndAdvance` is where the loop closes: the events that the watchdog
counts and that trip the breakers the next claim asks. `Beside` runs a step of
`Breakers` next to the engine. Rows and events outlive runs: a breaker may be OPEN
from the beginning (`Inherited`), or a turn of an agent may have failed just before
(`Sore`), which trips the global breaker while the first task is held. `ended` is the history that
`TripStopsAgents` needs: who has ended a task since which breaker has been OPEN.

Left out, because `Workflow` has it: dependencies, retries (a requeue publishes
nothing the sweeps count), crashes, overlapping calls of `advance`. Only the
breakers of agents, the workflow and the global one are ever asked; the
watchdog also trips breakers under task ids, which nobody asks. HALF_OPEN admits
all traffic, as in the code; a comment in `sweeps.py` calls it limited.

### Definitions

Raw definitions are sequences of nodes. `Visits` is the recursion of `topo_order` as
one recursive function over a stack of nodes and a sequence of nodes still to visit
under it, to the order after them; `Accepted` the checks of `from_dict`.
`IdAssumption` says that ids are no sequences, so that the outcome `Cycle` is none of
them. `ExactlyRunnableLoaded` compares them with set-theoretic definitions of
acyclicity and of a topological order, for every definition up to `MaxNodes`.
`LoadedMeansRunnable` (in `WorkflowSerial`) asks that of what is loaded before a run,
and `CursorKeepsUp` of every state of the run itself: the stored cursor has only DONE
nodes before it; it is stale, at a node that is DONE, only while the `advance` that
moves it is still to come or was lost (between the commit of `complete_task` and
`advance`, and after a crash there until somebody calls `advance` again) or the run
has its verdict; and it is NULL exactly in a COMPLETED run.

### Requests

`ValidPolicy`, `ValidRequest` and `ValidConfig` are the validators of the schemas and
of the constructor, `Accepts` is `_validate_request`, `Judge` the policy a request is
judged by, made up of the thresholds where it has none. `Fingerprint` and the two
hashes are the cache key, as the tuple of what is hashed. `Construct` replaces the
service on the same table, `Refuse`, `Replay` and `ReviewAfresh` are the outcomes of
`review`. Verdicts are those of `Gates` for `Jury(c, r)`; a member's answers
(`Answer`, `PeerScore`) are constants that depend on the whole member, as `llm_fn`
gets it (provider, base URL, model, role and weight; `api_key` is left out), and on
the request. `RequestsAssumption` gives the constants their shapes; `PromptAssumption`
says that a member answers two valid requests alike when their hashes agree, which the
code justifies because `_review_prompt` and `_stage2` put only hashed fields of the
request into the prompt. Nothing is assumed of how an answer depends on the member.
`model` and `role` are not part of the key (`Hashed`), so a host that changes them is
served the old verdict: `StaleReplay` shows it, and `ReplayIsFresh` says that nothing
else can be out of date. A row of the cache and a reply carry, as history, the members
that came to the verdict (`by`).

### Gates and Council

`Gates` is `_aggregate`, without constants: what it looks at besides the reviews
is a record, the jury `j` (weights, directions, thresholds, evidence, scale).
`Council` judges by one jury, the constant `Jury`; `Requests` makes one of each
configuration and request. Weighted means are exact fractions of integers, where
the code has floats; then `Quality` for the
direction of a dimension, `Judged` for the host's evidence, `EffectiveOverall`
for what the peers say, `Verdict` for the thresholds. `Council` follows a thread
through `review`: `CacheHit` or `CacheMiss`, `SaveSession` (the RUNNING row),
`StageBegins`, `Answers` of the members, `StageEnds` (everybody answered, or the
deadline passed), the same once more for stage 2, `Finalize`, `Returns`. An
exception or interrupt (`Raises`) leads to `MarkSessionFailed` or, when that
fails too, `MarkRaises`; a `Crash` takes all threads and the cooldowns along and
leaves the rows. A call that waits for a pool thread and one that is running are
both `pending`, since the deadline treats them alike; a provider's error and its
timeout are one outcome, since `_record_failure` treats them alike. `told`,
`served` and `basis` are histories: what callers were given, which sessions the
cache served, and on what grounds each verdict was reached.

`Sessions` is what remains for a caller when members, stages, deadlines, cooldowns
and threads are forgotten: `Open`, `Decide`, `Report` or `Fail`, `Replay`, and `Die` of
the whole process. Its `status` and `verdict` are the columns of the row, `live` the
session ids that some thread has in hand, so that two threads on one row would be
one caller who is told twice, and `whole` the sessions whose every member answered.

Abstractions: the UPDATE of `_finalize` and its COMMIT are one step, so an interrupt
between them, which would leave a transaction open on the shared connection, is left
out, and so is a cached row that cannot be parsed; all requests are for one subject
under one policy; a reply is valid or not; `created_at` orders sessions as their
inserts do; the attempts of a member are counted up to the limit; a stage reads all
cooldowns in one step and updates them in one step.

## Runs

Bounds are CONSTANTS with BOUND in their comment.

| run | instance | shows |
|---|---|---|
| `Concurrent` | chain of two nodes (two attempts, one attempt), two workers, a client that starts the run, sweeps, one fault | type, and the safety properties that hold under every interleaving; of tasks that no sweep has taken, that a claim is a lease, final statuses stay and no retry goes uncounted |
| `Serial` | three nodes with a join, two workers, engine calls one at a time; all 14425 raw definitions of up to three nodes over three ids | `DagRun` is implemented; exactly the definitions that can run are loaded; the stored cursor keeps to their order |
| `Recovery` | one worker and sweeps, with fairness | the run settles, orphans are recovered |
| `Bus` | two events, two loops, batches of two, two failures to poison, one fault, with fairness | at-least-once, in order, patient, archived, delivered |
| `Heal` | one agent breaker and the global one, three events, one call by hand, one dying sweep; window 3, cooldown 1, probe 1 ticks (as in the code, the window is longer than the other two together), with fairness | every move has its cause; everything heals |
| `Admission` | two agents, two tasks, one failure trips the global breaker; at first the breaker of `w1` may be OPEN (`Inherited`), or a turn of `w1` may have failed (`Sore`); window, cooldown and probe 1 tick, with fairness | an OPEN breaker lets at most the task in hand or about to be claimed through; every task is ended |
| `Requests` | a base configuration and a base request with a variant for each field (16 and 17, some of them invalid), two members of weights 3 and 1, two sessions that are not replayed | a replay is out of date at most with a member's model or role; evidence is not outvoted; nothing accepted is hopeless |
| `Council` | one thread, two members of weights 2 and 1, quorum 1, three dimensions (one lower, one with evidence), the best and a bad review, two sessions, one fault, with fairness | callers and rows agree, the cache serves only full councils, verdicts have their quorum, are monotone and ignore a member's own word; `Sessions` is implemented; a review ends |

Only `Council` has `CHECK_DEADLOCK FALSE`: its system stops after the last session
that `MaxReviews` allows.

Why the bounds suffice for what is claimed: a duplicated task, a lost
attempt, a stolen claim or a stale verdict needs two overlapping calls, hence
two actors and one predecessor; two attempts tell a retry from an exhaustion; a
poison event needs one event behind it; a second trip needs more events than
the threshold of two; a stale or spoiled session needs a session before it, and
a member's weight, its own score and its peers' need a second member. In
`Admission` an agent ends the first task under the OPEN global breaker when a
failed turn has tripped it meanwhile (`Sore`), finds the second task PENDING,
and must not claim it; a trip over ended tasks alone would need a third.
`Monotone` and `OwnWordIsNothing` try every score of the scale at every verdict
reached, not only those that members gave. With two faults `Bus` was run as well (2.5 million
states, no error); one is kept so that the run stays short. So was
`Council` with two threads that review the subject at once (one reply, one stage,
340852 states, no error); that its sessions stay apart for any number of threads is
a theorem.

Four runs expect a violation. Each checks one sentence of the repository that
the code does not keep (`PROJECT.json`, findings):

* `DuplicateTask` - overlapping `advance` calls create a node's task twice.
* `WedgedWorker` - a publish that raises inside `complete_task` leaves the
  worker in REVIEWING for good.
* `LostTrip` - a recovery sweep closes a breaker that was tripped after its
  count.
* `StaleReplay` - a host that changes only the model or the role of a member is
  served the verdict of the council it had before.

Two more such sentences have no run of their own. After a crash between a
completion and `advance`, claiming alone does not resume the run, though
`engine.py` says that workers may "just keep claiming tasks": `Recovery` needs
the fairness of `Resume`. And the rows of an `append_many` that raised become
durable with the next commit of the same store, though it promises "ONE
transaction": `EventBus` has that behaviour (`tx`), and `Bus` shows that delivery
does not suffer from it.

Because of the first, `OneTaskPerNode` and `ImplementsDagRun` are checked where
engine calls do not overlap: `Serial` shows that overlap is all that is missing.

## Fairness

`Workflow`: weak fairness of each process's next step (a process is scheduled;
a handler returns or raises; a cooldown ends), of a restart (a supervisor runs
the worker again), of the cron sweeps, of time for a row nobody works on, and,
in `FairSpec`, of `Resume`: somebody calls `advance(run_id)` now and then.
Faults, stalls, refusals and the choice between a
handler's success and failure are not fair; retries being bounded, none is
needed. `EventBus`: a live loop runs, a host with no live loop subscribes
again, and a process that left a transaction open commits or ends.
`Breakers`: cron runs both sweeps, and time passes; publishing is not fair.
`Admission`: agents poll and their handlers end, a client that was refused calls
`start_run` again, and cron misses no tick (in `Heal` it may). `Requests`: none.
`Council`: a thread inside `review` goes on and its deadline passes; no provider
is asked to answer.

## Proofs

Every invariant and every action property that a passing run checks is also a
theorem, and so are the refinements of `DagRun` and of `Sessions`. The theorems hold
for every value of the constants that the named assumptions of the modules allow
(`DefinitionAssumption`, `IdAssumption`, `DeploymentAssumption`, `BusAssumption`,
`BreakerAssumption`, `AdmissionAssumption`, `CouncilAssumption`,
`RequestsAssumption`, `PromptAssumption`); TLC evaluates each of them. Three
hypotheses go beyond that, and each stands in the statement that needs it:

* `Sweeps = FALSE` in `Implements`, `CursorKept` and `CursorCanRun`: a deployment
  without the cron sweeps. With them the statements are false, as the sweeps
  take tasks from agents that are merely slow and write over what they read.
* `SerialSpec` in `OneTask`, `Implements`, `CursorKept` and `CursorCanRun`: engine
  calls do not overlap. Without that `OneTaskPerNode` is false (run
  `DuplicateTask`).
* `OneRecovery` in `CooldownsServed` and `TripsAreEarned`: one process runs the
  recovery sweep. With two, TLC finds both properties violated: the slower one
  writes on a snapshot that the other has already acted upon. What is left then
  are the theorems `CooldownsServedOrNew` and `TripsHaveFailures`, for any number
  of sweeps. `ProbesAreClean` needs `OneRecovery` only if the cooldown is 0.

### WorkflowProofs

* `TypeCorrect`, `TypeSafety`: `TypeOK` is not inductive, since a step writes the row
  `cur[w]` and must know that it exists. `TypeInv` adds `HeldRows`: a worker past
  its claim has the id of an existing row in hand, and the ids in `seen` are
  rows. It is kept because no step removes a row (`RowsGrow`).
* `RowsSafe` (`AssigneeMatchesStatus`, which no run checks): `StepCases` and
  `RowSteps` say that a step, seen from one row, is one of a short list of changes
  (claim, completion, failure, requeue, sweep, age, none); `RowStepOK` then checks
  each change once instead of each action. A write that makes a row PENDING clears its
  agent.
* `NoneGivenUpEarly` (`NotGivenUpEarly`): `Earned`. A stored count of attempts never
  exceeds the claims, and is below them while the task is under claim (`Tried`); so
  is a count that a worker or the stuck sweep has read and is about to write plus
  one. A count that reaches the limit has as many claims behind it, stale or not.
* `TriesBounded` (`RetryBudget`): `Exact`. As long as no sweep takes the task, the
  count is exact: no claim is uncounted but the present one (`Counted`), and what a
  worker has read is what the row still says when it writes.
* `ClaimsNotStolen` (`NoSteal`): by the same list: the only change that sets an
  agent requires the row to be PENDING.
* `HistorySound`, `DepsRespected`, `VerdictsJustified`: what `advance` does rests on
  a view that may be old. `RowsInHistory` says that a final status of a row is in
  the history `reached`, `ViewSound` the same of every status a view still holds.
  Both survive all interleavings because history only grows; a task that is
  created, or a verdict, is then justified by the view.
* `CommitsComeFirst` (`EventsAfterCommit`): `Committed` says for each label behind
  a write what that write has left in the history or the run.
* `EventsLegal` (`FsmLegal`): `FsmInAdvance` says in which state of its machine a
  worker is inside the engine, on the way into each of its exits.
* `LeasesHold`, `FinalIsFinal`: `Lease` says that the row a worker has in hand is
  ASSIGNED to it until its own write, unless a sweep has taken it.
* `OneTask`: `SerialInv`: one process at a time is in the engine, and a node that
  its view takes for empty still is (`SeesEmpty`).
* `Implements`: `Current` says that what the process in `advance` has read, of the
  run and of the tasks, is what the rows still say. Then each write of the engine
  is a step of `DagRun`, and everything else is a stutter. `NoSweepRuns` and `NoneSwept`
  say that no sweep is under way and no row was swept.
* `CursorKept` (`CursorKeepsUp`): from the same invariants, and `CursorOfRun`, that
  there is no cursor before there is a run. Every cursor is computed from a view that
  is `Current`; between two writes of it DONE stays DONE.

### DefinitionsProofs

* `LoadedCanRun`: `from_dict` accepts a definition, of any size and over any ids, iff
  ids are distinct, dependencies known and no node depends on itself through others;
  `topo_order` then lists every node once, after all it depends on. What the recursive
  function `Visits` computes is proved by well-founded induction on the nodes that are
  not on the stack, then on those still to visit: `Recursion` unfolds it,
  `VisitsPlace` says that what it returns extends the order it was given by the nodes
  asked for and all they depend on, each after its dependencies.
* `CursorCanRun` (`LoadedMeansRunnable`) joins it with `CursorKept`.

### EventBusProofs

* `BusInvHolds`, `BusTypes`: `Numbering` orders the sequence numbers of committed rows
  and of rows in an open transaction, and says that one store at a time has any;
  `BusyLoops`, that a loop past `ReadSince` has a batch.
* `NothingDestroyed` (`PrunedAreArchived`): `ArchiveFirst`: between the
  archive and the DELETE, what is past the cutoff is archived or came just then (`late`).
* `AtLeastOnce`, `InOrder`: `Delivery`. The cursor and the position of each loop are
  `Covered` (all wanted events up to there are handled or given up), what a loop
  has read leaves out no event between its position and the end of its batch
  (`Sound`), the event whose offset it is about to write was handled
  (`Attempted`). A stale loop may move the cursor back, but never to a place
  that is not covered.
* `GivenUpFairly` (`PoisonPatience`): `Patience` ties a loop's private count to the
  history of the failures of the event it names.
* `NoRedelivery` (`NoNeedlessRedelivery`): `Calm`: as long as no fault has happened
  there is one loop per consumer, and what it has handled lies behind the cursor
  or is the event in its hand.

### BreakersProofs

* `BreakersTyped`: `Typed` bounds the counts by the number of emitted events, without
  which the sums the sweeps take have no type.
* `CooldownsServed`, `TripsAreEarned`, `ProbesAreClean`: `AllTasks` says what each
  entry of a sweep's snapshot entitles it to, and that the counts it rests on still
  hold (failures do not vanish within a tick, `Enough`; what was `dirty` when the
  sweep began has failed still when it counts, `HasFailed`, and is not closed);
  `AllFresh`, that the row of a breaker a recovery sweep is about to write is as the
  sweep read it, or was opened in this very tick, or was touched by hand.
* `CooldownsServedOrNew`, `TripsHaveFailures`, and `ProbesAreClean` for overlapping
  sweeps: `AllFresh` is lost there, as a second sweep writes in between. `AllMarked`
  keeps what no such write spoils: a row whose probation was over when some sweep
  read it is OPEN only if it was opened in this tick (`Probed`), one whose cooldown
  was served is still OPEN and old, or was put on probation in this tick (`Served`);
  a cooldown that is not 0 and a probation cannot both end in one tick.
  `Failing` is what a probe that fails rests on: a failure younger than the probe
  window, which time alone takes away.

Of `Admission`, `AdmissionTyped` and `TripsStopAgents` follow from `Admitted`: types, that tasks are
created once and before any claim (`Started`), that who works on a task holds it alone
(`Alone`), and that who has ended a task under a breaker that is still OPEN is
not past the gate that asks this breaker (`Stopped`).

### GatesProofs and CouncilProofs

* `VerdictGrows`: a better score, one more approval, a better opinion of the peers
  never makes the verdict worse, for every jury that the validators let pass. It
  rests on `MeanGrows`, `MeanOfEqual` and, step by step along `_aggregate`,
  `EffectiveGrows`, `AverageGrows`, `AgreementGrows`, `PassingGrows`.
* `EvidenceBinds`, `BestIsApproved`, `SameVerdict` say what the host's evidence
  decides, that a perfect review is approved, and what a verdict does not
  depend on.
* The sums behind the means are folds over sets. What `SumLemmas` says of them is
  proved by an induction over finite sets whose statement is a set of subsets,
  not an operator, so that it stays within the provers' reach.
* `CouncilTyped`: `Shapes` and, for each thread, `Local`: what it knows at each label.
* `CallersSeeRows` (`CallerSeesRow`, which no run checks, since `Sessions` promises it and
  more), `CacheIsFull`, `QuorumsDecide`: `Honest`. The row of a session is written by the
  thread that opened it (`Owns`), and a row that the cache may serve is of a
  review whose every member answered both stages (`Complete`, `ServedRows`).
* `Implements` (`ImplementsSessions`): `Missing` says what a call that is not a success
  leaves behind (a member without a review or an evaluation), so that `full` and the
  grounds of the verdict agree when the row is written, and `OpenRows` that a row a
  thread has in hand is RUNNING until that thread writes it, and its caller has been
  told nothing. Then `SaveSession` is `Open`, `Finalize` is `Decide`, `Returns` and the
  two ends of a failure are `Report` and `Fail`, and all else is a stutter.
* `OwnWordsAreNothing`, `BetterIsNoWorse` are facts about `Gates`
  applied to the grounds of verdicts, whose shapes are part of the invariant.

### RequestsProofs

* `ReplaysAreFresh`: `Replays` says that each row of the cache holds the verdict of
  an accepted configuration and request, with every member answering, and that
  its key is their hash. An equal key means equal ids, providers, base URLs and
  weights (`SameMembers`) and an equal policy (`SameJudge`), and with the members of the
  row hence an equal verdict (`SameDecision`): whatever else differs between the two
  is not looked at.
* `EvidenceIsDecisive`, `NothingIsHopeless`: `JuryIsValid` shows that the validators let
  only valid juries pass, for given policies and for each built-in gate, so that
  the theorems of `GatesProofs` apply.

### Left to TLC

* Liveness under fairness: `RunSettles`, `OrphansRecovered`, `Delivered`, `Heals`,
  `WorkSettles`, `ReviewEnds`.
* The four violations.

## Plan

Done: `Workflow`, `EventBus`, `Breakers`, `Gates`, `Council` with `Sessions`, `Admission`,
`Requests` and `Definitions`, with the proofs above. Open: `NoProgress`, the window of
the detector and the worker that clears it only after a success. It needs a model
of the handlers that feed the window, of which the repository has none.

## Not modelled

`register_sweeps`, the CLI, the status report, package exports and the event
envelope do input and output and keep no state. The alert file is written by
`open` and read by people. The in-process listeners cannot fail a publish. The
tool policy of the agent state machine is a constant table that only the host
consults. `PROJECT.json` lists every component with its status.
