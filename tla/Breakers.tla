------------------------------ MODULE Breakers ------------------------------
(***************************************************************************)
(* The circuit breakers (breakers.py) and the two sweeps that move them:   *)
(* metric_watchdog trips, breaker_recovery_sweep heals (sweeps.py).  Both  *)
(* are cron processes; every second minute divisible by ten both start.    *)
(*                                                                         *)
(* Granularity.  Each SELECT of a breaker or of the event counts is a      *)
(* step, each upsert of BreakerRegistry._set (it commits) is another, so   *)
(* what a sweep read may be stale when it writes.  Left out: the breaker   *)
(* events, which no sweep counts, and the lines of the alert file.         *)
(*                                                                         *)
(* Time is a tick, as long as the recovery sweep's cadence.  Timestamps    *)
(* are kept as ages in ticks, up to the largest the code compares them     *)
(* with.  A sweep ends within the tick it began in and runs once in it.    *)
(***************************************************************************)
EXTENDS Integers, FiniteSets, Functions

CONSTANTS
    Key,           \* aggregate ids of failure events, agent-level breaker keys
    Global,        \* the global breaker, ("global", "system")
    Watchdog,      \* runs of metric_watchdog
    Recovery,      \* runs of breaker_recovery_sweep
    Window,        \* metric_watchdog: window_s, in ticks
    AgentErrors,   \* agent_error_threshold
    MinEvents,     \* global_min_events
    FailPercent,   \* global_fail_ratio, in percent
    BudgetHits,    \* budget_exhaustion_threshold
    Cooldown,      \* breaker_recovery_sweep: open_cooldown_s, in ticks
    Probe,         \* half_open_probe_s, in ticks
    MaxEvents,     \* BOUND on the events published
    MaxManual,     \* BOUND on the calls by hand
    MaxFaults      \* BOUND on the sweeps that die

Breaker == Key \cup {Global}
Sweep   == Watchdog \cup Recovery

\* turn.failed and task.failed events of an aggregate, and the other events.
Kind == Key \cup {"run_failed", "completed", "budget"}

ASSUME BreakerAssumption ==
    /\ IsFiniteSet(Key) /\ Global \notin Kind
    /\ Watchdog \cap Recovery = {}
    /\ {Window, AgentErrors, MinEvents, FailPercent, BudgetHits, Cooldown, Probe,
        MaxEvents, MaxManual, MaxFaults} \subseteq Nat
    /\ Probe <= Window

VARIABLES
    breaker,   \* of each breaker its state and the ages of its timestamps
    events,    \* how many events of each kind there are of each age
    emitted,   \* how many of the MaxEvents events have been published
    pc,        \* what each process does next
    todo,      \* what a sweep has still to do: <<breaker, what>>
    target,    \* the breaker a sweep is about to write
    ran,       \* the sweeps that ran in this tick
    dirty,     \* history: the breakers due for their probe that had failed within
               \* it when a recovery sweep of this tick began
    manual,    \* history: breakers written by hand in this tick
    calls,     \* how many of the MaxManual calls have been made
    faults     \* how many of the MaxFaults faults have happened

procVars == <<pc, todo, target>>
envVars  == <<emitted, ran, dirty, calls, faults>>
vars     == <<breaker, events, procVars, manual, envVars>>

State == {"CLOSED", "OPEN", "HALF_OPEN"}
Row   == [state : State, opened : 0..Cooldown, half : 0..Probe]

\* No row reads as CLOSED; timestamps that are not there are never looked at.
NoRow == [state |-> "CLOSED", opened |-> Cooldown, half |-> Probe]

\* No sweep under way.
Quiet ==
    /\ emitted = 0
    /\ pc = [p \in Sweep |-> "idle"]
    /\ todo = [p \in Sweep |-> {}]
    /\ target = [p \in Sweep |-> Global]
    /\ ran = {} /\ dirty = [r \in Recovery |-> {}]
    /\ manual = {} /\ calls = 0 /\ faults = 0

Init ==
    /\ breaker = [b \in Breaker |-> NoRow]
    /\ events = [k \in Kind |-> [age \in 0..Window |-> 0]]
    /\ Quiet

-----------------------------------------------------------------------------
(* BreakerRegistry.                                                        *)

IsOpen(b) == breaker[b].state = "OPEN"

\* Bug: the upsert takes both timestamps from the new row, NULL (-1) where it has none.
SetBoth(b, s) ==
    breaker' = [breaker EXCEPT ![b] = [state  |-> s,
                                       opened |-> IF s = "OPEN" THEN 0 ELSE -1,
                                       half   |-> IF s = "HALF_OPEN" THEN 0 ELSE -1]]

\* _set: the upsert; each state stamps its own timestamp and keeps the other.
Set(b, s) ==
    breaker' = [breaker EXCEPT ![b] = [state  |-> s,
                                       opened |-> IF s = "OPEN" THEN 0 ELSE @.opened,
                                       half   |-> IF s = "HALF_OPEN" THEN 0 ELSE @.half]]

Goto(p, label) == pc' = [pc EXCEPT ![p] = label]

\* Where a sweep goes when a call of the registry returns.
Back(p) == Goto(p, IF todo[p] = {} THEN "idle" ELSE "work")

\* open() or close() of a sweep: it writes the breaker, whatever it is by now.
Writes(p, label, s) ==
    /\ pc[p] = label
    /\ Set(target[p], s)
    /\ Back(p)
    /\ UNCHANGED <<events, todo, target, manual, envVars>>

OpenWrites(p)  == Writes(p, "open", "OPEN")
CloseWrites(p) == Writes(p, "close", "CLOSED")

\* A call of open, close or half_open by hand.
OperatorSets(b, s) ==
    /\ calls < MaxManual /\ calls' = calls + 1
    /\ Set(b, s)
    /\ manual' = manual \cup {b}
    /\ UNCHANGED <<events, emitted, procVars, ran, dirty, faults>>

-----------------------------------------------------------------------------
(* The counts.  aggregate_counts_by_type takes what is not older than the  *)
(* window it is given.                                                     *)

Count(kinds, age) == SumFunction([x \in kinds \X (0..age) |-> events[x[1]][x[2]]])

\* turn.failed and task.failed of one aggregate.
FailuresOf(k, age) == Count({k}, age)

\* Bug: what completed is counted with what failed.
AgentTripsOfAll == { k \in Key : Count({k, "completed"}, Window) >= AgentErrors }

\* What the watchdog's counts make it trip.
AgentTrips == { k \in Key : FailuresOf(k, Window) >= AgentErrors }

GlobalTrips ==
    LET failed == Count(Key, Window)
        total  == Count(Key \cup {"completed"}, Window)
    IN  \/ total > 0 /\ total >= MinEvents /\ 100 * failed >= FailPercent * total
        \/ Count({"budget"}, Window) >= BudgetHits

\* Bug: the probe of the global breaker looks for failures of aggregate "system".
ProbeByKey(b) == IF b = Global THEN 0 ELSE FailuresOf(b, Probe)

\* The recovery sweep's count: all failures for the global breaker, among them
\* workflow.run_failed, which never matches another key (it carries a run id).
ProbeFailures(b) == IF b = Global THEN Count(Key \cup {"run_failed"}, Probe)
                                  ELSE FailuresOf(b, Probe)

-----------------------------------------------------------------------------
(* metric_watchdog.                                                        *)

\* All the counts are read at once.
WatchdogReads(w) ==
    /\ pc[w] = "idle" /\ w \notin ran
    /\ ran' = ran \cup {w}
    /\ todo' = [todo EXCEPT ![w] =
                   (AgentTrips \cup (IF GlobalTrips THEN {Global} ELSE {})) \X {"trip"}]
    /\ Goto(w, IF todo'[w] = {} THEN "idle" ELSE "work")
    /\ UNCHANGED <<breaker, events, emitted, target, manual, dirty, calls, faults>>

\* The breakers one by one, the global one last: an OPEN one is left alone.
WatchdogTrips(w) ==
    /\ pc[w] = "work"
    /\ \E t \in todo[w] :
         /\ t[1] = Global => todo[w] = {t}
         /\ todo' = [todo EXCEPT ![w] = @ \ {t}]
         /\ target' = [target EXCEPT ![w] = t[1]]
         /\ Goto(w, CASE ~IsOpen(t[1])                 -> "open"
                      [] IsOpen(t[1]) /\ todo[w] = {t} -> "idle"
                      [] OTHER                         -> "work")
    /\ UNCHANGED <<breaker, events, manual, envVars>>

-----------------------------------------------------------------------------
(* breaker_recovery_sweep.                                                 *)

\* Bug: an OPEN breaker is put on probation at once.
DueAtOnce ==
    { <<b, "half_open">> : b \in { x \in Breaker : breaker[x].state = "OPEN" } } \cup
    { <<b, "probe">> : b \in { x \in Breaker : breaker[x].state = "HALF_OPEN"
                                               /\ breaker[x].half >= Probe } }

\* The rows of the snapshot that have been OPEN or HALF_OPEN long enough.
Due ==
    { <<b, "half_open">> : b \in { x \in Breaker : breaker[x].state = "OPEN"
                                               /\ breaker[x].opened >= Cooldown } } \cup
    { <<b, "probe">> : b \in { x \in Breaker : breaker[x].state = "HALF_OPEN"
                                               /\ breaker[x].half >= Probe } }

\* Has one of the events of breaker b that its probe looks for been published
\* within it?
HasFailed(b) ==
    \E k \in Kind, age \in 0..Probe :
        /\ events[k][age] > 0
        /\ k = b \/ (b = Global /\ k \notin {"completed", "budget"})

RecoverySnapshot(r) ==
    /\ pc[r] = "idle" /\ r \notin ran
    /\ ran' = ran \cup {r}
    /\ dirty' = [dirty EXCEPT ![r] = { b \in Breaker : <<b, "probe">> \in Due /\ HasFailed(b) }]
    /\ todo' = [todo EXCEPT ![r] = Due]
    /\ Goto(r, IF Due = {} THEN "idle" ELSE "work")
    /\ UNCHANGED <<breaker, events, emitted, target, manual, calls, faults>>

\* An OPEN row of the snapshot: half_open() writes whatever the state is now.
RecoveryHalfOpens(r) ==
    /\ pc[r] = "work"
    /\ \E t \in todo[r] :
         /\ t[2] = "half_open"
         /\ Set(t[1], "HALF_OPEN")
         /\ todo' = [todo EXCEPT ![r] = @ \ {t}]
    /\ Goto(r, IF todo'[r] = {} THEN "idle" ELSE "work")
    /\ UNCHANGED <<events, target, manual, envVars>>

\* A HALF_OPEN row of the snapshot: count the failures, then open or close.
RecoveryProbes(r) ==
    /\ pc[r] = "work"
    /\ \E t \in todo[r] :
         /\ t[2] = "probe"
         /\ Goto(r, IF ProbeFailures(t[1]) > 0 THEN "open" ELSE "close")
         /\ target' = [target EXCEPT ![r] = t[1]]
         /\ todo' = [todo EXCEPT ![r] = @ \ {t}]
    /\ UNCHANGED <<breaker, events, manual, envVars>>

-----------------------------------------------------------------------------
(* The rest of the system.                                                 *)

\* A turn, a task or a run fails or completes, or a token budget is spent.
Publish(k) ==
    /\ emitted < MaxEvents
    /\ emitted' = emitted + 1
    /\ events' = [events EXCEPT ![k][0] = @ + 1]
    /\ UNCHANGED <<breaker, procVars, manual, ran, dirty, calls, faults>>

\* A sweep process dies, or one of its calls raises out of it.
SweepDies(p) ==
    /\ faults < MaxFaults /\ faults' = faults + 1
    /\ pc[p] # "idle"
    /\ Goto(p, "idle")
    /\ todo' = [todo EXCEPT ![p] = {}]
    /\ UNCHANGED <<breaker, events, emitted, target, manual, ran, dirty, calls>>

Older(n, limit) == IF n < limit THEN n + 1 ELSE limit

\* Bug: the window has no end.
AgedForever ==
    [k \in Kind |-> [a \in 0..Window |->
        IF a = 0 THEN 0 ELSE events[k][a - 1] + (IF a = Window THEN events[k][a] ELSE 0)]]

\* What leaves the watchdog's window is never counted again.
Aged == [k \in Kind |-> [a \in 0..Window |-> IF a = 0 THEN 0 ELSE events[k][a - 1]]]

Tick ==
    /\ \A p \in Sweep : pc[p] = "idle"
    /\ breaker' = [b \in Breaker |-> [breaker[b] EXCEPT !.opened = Older(@, Cooldown),
                                                        !.half = Older(@, Probe)]]
    /\ events' = Aged
    /\ ran' = {} /\ manual' = {} /\ dirty' = [r \in Recovery |-> {}]
    /\ UNCHANGED <<emitted, procVars, calls, faults>>

-----------------------------------------------------------------------------
(* The specification.                                                      *)

WatchdogStep(w) == WatchdogReads(w) \/ WatchdogTrips(w) \/ OpenWrites(w)

RecoveryStep(r) ==
    \/ RecoverySnapshot(r) \/ RecoveryHalfOpens(r) \/ RecoveryProbes(r)
    \/ OpenWrites(r) \/ CloseWrites(r)

Next ==
    \/ \E w \in Watchdog : WatchdogStep(w)
    \/ \E r \in Recovery : RecoveryStep(r)
    \/ \E b \in Breaker, s \in State : OperatorSets(b, s)
    \/ \E p \in Sweep : SweepDies(p)
    \/ \E k \in Kind : Publish(k)
    \/ Tick

Spec == Init /\ [][Next]_vars

\* cron runs both sweeps, and time passes.
Fairness ==
    /\ \A w \in Watchdog : WF_vars(WatchdogStep(w))
    /\ \A r \in Recovery : WF_vars(RecoveryStep(r))
    /\ WF_vars(Tick)

FairSpec == Spec /\ Fairness

-----------------------------------------------------------------------------
(* Properties.                                                             *)

TypeOK ==
    /\ breaker \in [Breaker -> Row]
    /\ events \in [Kind -> [0..Window -> 0..MaxEvents]]
    /\ emitted \in 0..MaxEvents
    /\ pc \in [Sweep -> {"idle", "work", "open", "close"}]
    /\ todo \in [Sweep -> SUBSET (Breaker \X {"trip", "half_open", "probe"})]
    /\ target \in [Sweep -> Breaker]
    /\ ran \subseteq Sweep
    /\ dirty \in [Recovery -> SUBSET Breaker]
    /\ manual \subseteq Breaker
    /\ calls \in 0..MaxManual
    /\ faults \in 0..MaxFaults

\* Has breaker b just gone from state s to state t, nobody touching it by hand?
Moves(b, s, t) == /\ breaker[b].state = s /\ breaker'[b].state = t
                  /\ b \notin manual'

\* A breaker goes on probation only when it has been OPEN for the cooldown,
\* though half_open() writes on the strength of an older snapshot.
CooldownServed ==
    [][\A b \in Breaker : Moves(b, "OPEN", "HALF_OPEN") => breaker[b].opened = Cooldown]_vars

\* A breaker is closed only after a full probe window, and only by a sweep that
\* began when there was no failure of that breaker within it, be it of this very
\* tick.  (What is published while the sweep runs may come too late for its count.)
ProbeClean ==
    [][\A b \in Breaker : Moves(b, "HALF_OPEN", "CLOSED") =>
          /\ breaker[b].half = Probe
          /\ \E r \in Recovery : pc[r] = "close" /\ pc'[r] # "close"
                                 /\ target[r] = b /\ b \notin dirty[r]]_vars

\* The watchdog trips an agent-level breaker only over its own failures, and
\* enough of them within the window, although it writes after it counted.
TripsEarned ==
    [][\A k \in Key : Moves(k, "CLOSED", "OPEN") =>
          FailuresOf(k, Window) >= AgentErrors]_vars

\* Once no more failures are published every breaker heals: the sweeps do not
\* trip and release each other's breakers for ever.
Heals == <>[](\A b \in Breaker : breaker[b].state = "CLOSED")

\* breakers.py: "CLOSED (normal) -> OPEN (tripped) -> HALF_OPEN (probation) ->
\* CLOSED": no sweep closes an OPEN breaker without its probation.
ProbationFirst == [][\A b \in Breaker : ~Moves(b, "OPEN", "CLOSED")]_vars

=============================================================================
