--------------------------- MODULE BreakersProofs ---------------------------
(***************************************************************************)
(* Proofs about Breakers, for any keys, thresholds, windows and cadences,  *)
(* any number of watchdogs, events, calls by hand and sweeps that die; and *)
(* about Admission, for every number of agents and tasks too: nobody works *)
(* on a task that another holds, and an OPEN breaker stops its agents.     *)
(*                                                                         *)
(* The last is the hard one.  The gate and the claim are apart, so a       *)
(* breaker may well be OPEN when a claim is written; what the invariant    *)
(* Stopped says is who may still write it.                                 *)
(***************************************************************************)
EXTENDS Admission, SumLemmas

-----------------------------------------------------------------------------
(* Types.                                                                  *)

Todo == Breaker \X {"trip", "half_open", "probe"}

\* No count is larger than the number of events published.
Counted == \A k \in Kind, a \in 0..Window : events[k][a] <= emitted

Typed == TypeOK /\ Counted

\* The values the model's constants allow.
LEMMA Constants ==
    /\ Global \notin Kind /\ IsFiniteSet(Key)
    /\ Window \in Nat /\ AgentErrors \in Nat /\ Cooldown \in Nat /\ Probe \in Nat
    /\ MaxEvents \in Nat /\ MaxManual \in Nat /\ MaxFaults \in Nat
    /\ Probe <= Window
BY BreakerAssumption

\* An upsert writes one row and gives it the shape of a row.
LEMMA SetType ==
    ASSUME breaker \in [Breaker -> Row], NEW b \in Breaker, NEW s \in State, Set(b, s)
    PROVE  /\ breaker' \in [Breaker -> Row]
           /\ breaker'[b].state = s
           /\ breaker'[b].opened = IF s = "OPEN" THEN 0 ELSE breaker[b].opened
           /\ breaker'[b].half = IF s = "HALF_OPEN" THEN 0 ELSE breaker[b].half
           /\ \A c \in Breaker \ {b} : breaker'[c] = breaker[c]
<1> DEFINE row == [state  |-> s,
                   opened |-> IF s = "OPEN" THEN 0 ELSE breaker[b].opened,
                   half   |-> IF s = "HALF_OPEN" THEN 0 ELSE breaker[b].half]
<1>1. breaker' = [breaker EXCEPT ![b] = row]
  BY DEF Set
<1>2. row \in Row
  <2>1. breaker[b] \in Row
    OBVIOUS
  <2>2. breaker[b].opened \in 0..Cooldown /\ breaker[b].half \in 0..Probe
    BY <2>1 DEF Row
  <2>3. 0 \in 0..Cooldown /\ 0 \in 0..Probe
    BY Constants
  <2> QED BY <2>2, <2>3 DEF Row
<1>3. /\ row.state = s
      /\ row.opened = IF s = "OPEN" THEN 0 ELSE breaker[b].opened
      /\ row.half = IF s = "HALF_OPEN" THEN 0 ELSE breaker[b].half
  OBVIOUS
<1> HIDE DEF row
<1> QED BY <1>1, <1>2, <1>3

\* Time moves every row's ages on, and no row's state.
LEMMA TickType ==
    ASSUME breaker \in [Breaker -> Row], Tick
    PROVE  /\ breaker' \in [Breaker -> Row]
           /\ \A b \in Breaker : breaker'[b].state = breaker[b].state
<1>1. ASSUME NEW r \in Row
      PROVE  /\ [r EXCEPT !.opened = Older(@, Cooldown), !.half = Older(@, Probe)] \in Row
             /\ [r EXCEPT !.opened = Older(@, Cooldown), !.half = Older(@, Probe)].state = r.state
  <2>1. Older(r.opened, Cooldown) \in 0..Cooldown /\ Older(r.half, Probe) \in 0..Probe
    BY Constants DEF Older, Row
  <2> QED BY <2>1 DEF Row
<1>2. breaker' = [b \in Breaker |-> [breaker[b] EXCEPT !.opened = Older(@, Cooldown),
                                                       !.half = Older(@, Probe)]]
  BY DEF Tick
<1> QED BY <1>1, <1>2

\* What the watchdog and the recovery sweep find to do.
LEMMA Jobs ==
    /\ AgentTrips \cup (IF GlobalTrips THEN {Global} ELSE {}) \subseteq Breaker
    /\ Due \subseteq Breaker \X {"half_open", "probe"}
BY DEF AgentTrips, Due, Breaker

\* Every step keeps the types.
LEMMA TypedStep ==
    ASSUME Typed, [Next]_vars
    PROVE  Typed'
<1> USE DEF procVars, envVars
<1>0. /\ breaker \in [Breaker -> Row]
      /\ events \in [Kind -> [0..Window -> 0..MaxEvents]]
      /\ emitted \in 0..MaxEvents
      /\ pc \in [Sweep -> {"idle", "work", "open", "close"}]
      /\ todo \in [Sweep -> SUBSET Todo]
      /\ target \in [Sweep -> Breaker]
      /\ ran \subseteq Sweep /\ manual \subseteq Breaker
      /\ dirty \in [Recovery -> SUBSET Breaker]
      /\ calls \in 0..MaxManual /\ faults \in 0..MaxFaults
      /\ Counted
  BY DEF Typed, TypeOK, Todo
<1>1. ASSUME breaker' \in [Breaker -> Row],
             pc' \in [Sweep -> {"idle", "work", "open", "close"}],
             todo' \in [Sweep -> SUBSET Todo], target' \in [Sweep -> Breaker],
             ran' \subseteq Sweep, manual' \subseteq Breaker,
             dirty' \in [Recovery -> SUBSET Breaker],
             calls' \in 0..MaxManual, faults' \in 0..MaxFaults,
             UNCHANGED <<events, emitted>>
      PROVE  Typed'
  BY <1>0, <1>1 DEF Typed, TypeOK, Todo, Counted
<1>2. CASE UNCHANGED vars
  BY <1>0, <1>1, <1>2 DEF vars
<1>3. ASSUME NEW w \in Watchdog, WatchdogReads(w) PROVE Typed'
  <2>1. w \in Sweep
    BY DEF Sweep
  <2> DEFINE new == (AgentTrips \cup (IF GlobalTrips THEN {Global} ELSE {})) \X {"trip"}
  <2>2. new \subseteq Todo
    BY Jobs DEF Todo
  <2>3. /\ ran' = ran \cup {w} /\ todo' = [todo EXCEPT ![w] = new]
        /\ pc' = [pc EXCEPT ![w] = IF todo'[w] = {} THEN "idle" ELSE "work"]
        /\ UNCHANGED <<breaker, events, emitted, target, manual, dirty, calls, faults>>
    BY <1>3 DEF WatchdogReads, Goto
  <2> HIDE DEF new
  <2>4. todo' \in [Sweep -> SUBSET Todo]
    BY <1>0, <2>2, <2>3
  <2>5. pc' \in [Sweep -> {"idle", "work", "open", "close"}]
    BY <1>0, <2>3
  <2> QED BY <1>0, <1>1, <2>1, <2>3, <2>4, <2>5
<1>4. ASSUME NEW w \in Watchdog, WatchdogTrips(w) PROVE Typed'
  <2>1. w \in Sweep
    BY DEF Sweep
  <2>2. PICK t \in todo[w], l \in {"idle", "work", "open", "close"} :
           /\ todo' = [todo EXCEPT ![w] = @ \ {t}]
           /\ target' = [target EXCEPT ![w] = t[1]]
           /\ pc' = [pc EXCEPT ![w] = l]
           /\ UNCHANGED <<breaker, events, manual, envVars>>
    <3>1. PICK t \in todo[w] :
             /\ todo' = [todo EXCEPT ![w] = @ \ {t}]
             /\ target' = [target EXCEPT ![w] = t[1]]
             /\ Goto(w, CASE ~IsOpen(t[1])                 -> "open"
                      [] IsOpen(t[1]) /\ todo[w] = {t} -> "idle"
                      [] OTHER                         -> "work")
      BY <1>4 DEF WatchdogTrips
    <3>2. UNCHANGED <<breaker, events, manual, envVars>>
      BY <1>4 DEF WatchdogTrips
    <3> QED BY <3>1, <3>2 DEF Goto
  <2>3. t[1] \in Breaker
    BY <1>0, <2>1 DEF Todo
  <2>4. todo' \in [Sweep -> SUBSET Todo]
    BY <1>0, <2>2
  <2>5. target' \in [Sweep -> Breaker] /\ pc' \in [Sweep -> {"idle", "work", "open", "close"}]
    BY <1>0, <2>2, <2>3
  <2> QED BY <1>0, <1>1, <2>2, <2>4, <2>5
<1>5. ASSUME NEW p \in Sweep, OpenWrites(p) \/ CloseWrites(p) PROVE Typed'
  <2>1. PICK s \in State : Set(target[p], s)
    BY <1>5 DEF OpenWrites, CloseWrites, Writes, State
  <2>2. /\ pc' = [pc EXCEPT ![p] = IF todo[p] = {} THEN "idle" ELSE "work"]
        /\ UNCHANGED <<events, todo, target, manual, envVars>>
    BY <1>5 DEF OpenWrites, CloseWrites, Writes, Back, Goto
  <2>3. breaker' \in [Breaker -> Row]
    BY <1>0, <2>1, SetType
  <2>4. pc' \in [Sweep -> {"idle", "work", "open", "close"}]
    BY <1>0, <2>2
  <2> QED BY <1>0, <1>1, <2>2, <2>3, <2>4
<1>6. ASSUME NEW r \in Recovery, RecoverySnapshot(r) PROVE Typed'
  <2>1. r \in Sweep
    BY DEF Sweep
  <2>2. Due \subseteq Todo
    BY Jobs DEF Todo
  <2>3. /\ ran' = ran \cup {r} /\ todo' = [todo EXCEPT ![r] = Due]
        /\ dirty' = [dirty EXCEPT ![r] =
                        { b \in Breaker : <<b, "probe">> \in Due /\ HasFailed(b) }]
        /\ pc' = [pc EXCEPT ![r] = IF Due = {} THEN "idle" ELSE "work"]
        /\ UNCHANGED <<breaker, events, emitted, target, manual, calls, faults>>
    BY <1>6 DEF RecoverySnapshot, Goto
  <2>4. todo' \in [Sweep -> SUBSET Todo]
    BY <1>0, <2>2, <2>3
  <2>5. pc' \in [Sweep -> {"idle", "work", "open", "close"}]
    BY <1>0, <2>3
  <2>6. dirty' \in [Recovery -> SUBSET Breaker]
    BY <1>0, <2>3
  <2> QED BY <1>0, <1>1, <2>1, <2>3, <2>4, <2>5, <2>6
<1>7. ASSUME NEW r \in Recovery, RecoveryHalfOpens(r) PROVE Typed'
  <2>1. r \in Sweep
    BY DEF Sweep
  <2>2. PICK t \in todo[r] : Set(t[1], "HALF_OPEN") /\ todo' = [todo EXCEPT ![r] = @ \ {t}]
    BY <1>7 DEF RecoveryHalfOpens
  <2>3. /\ pc' = [pc EXCEPT ![r] = IF todo'[r] = {} THEN "idle" ELSE "work"]
        /\ UNCHANGED <<events, target, manual, envVars>>
    BY <1>7 DEF RecoveryHalfOpens, Goto
  <2>4. t[1] \in Breaker
    BY <1>0, <2>1 DEF Todo
  <2>5. breaker' \in [Breaker -> Row]
    BY <1>0, <2>2, <2>4, SetType DEF State
  <2>6. todo' \in [Sweep -> SUBSET Todo]
    BY <1>0, <2>2
  <2>7. pc' \in [Sweep -> {"idle", "work", "open", "close"}]
    BY <1>0, <2>3
  <2> QED BY <1>0, <1>1, <2>3, <2>5, <2>6, <2>7
<1>8. ASSUME NEW r \in Recovery, RecoveryProbes(r) PROVE Typed'
  <2>1. r \in Sweep
    BY DEF Sweep
  <2>2. PICK t \in todo[r] :
           /\ pc' = [pc EXCEPT ![r] = IF ProbeFailures(t[1]) > 0 THEN "open" ELSE "close"]
           /\ target' = [target EXCEPT ![r] = t[1]]
           /\ todo' = [todo EXCEPT ![r] = @ \ {t}]
           /\ UNCHANGED <<breaker, events, manual, envVars>>
    BY <1>8 DEF RecoveryProbes, Goto
  <2>3. t[1] \in Breaker
    BY <1>0, <2>1 DEF Todo
  <2>4. todo' \in [Sweep -> SUBSET Todo]
    BY <1>0, <2>2
  <2>5. target' \in [Sweep -> Breaker] /\ pc' \in [Sweep -> {"idle", "work", "open", "close"}]
    BY <1>0, <2>2, <2>3
  <2> QED BY <1>0, <1>1, <2>2, <2>4, <2>5
<1>9. ASSUME NEW b \in Breaker, NEW s \in State, OperatorSets(b, s) PROVE Typed'
  <2>1. /\ Set(b, s) /\ manual' = manual \cup {b} /\ calls < MaxManual /\ calls' = calls + 1
        /\ UNCHANGED <<events, emitted, procVars, ran, dirty, faults>>
    BY <1>9 DEF OperatorSets
  <2>2. breaker' \in [Breaker -> Row]
    BY <1>0, <2>1, SetType
  <2>3. calls' \in 0..MaxManual
    BY <1>0, <2>1, Constants
  <2> QED BY <1>0, <1>1, <2>1, <2>2, <2>3
<1>10. ASSUME NEW p \in Sweep, SweepDies(p) PROVE Typed'
  <2>1. /\ faults < MaxFaults /\ faults' = faults + 1
        /\ pc' = [pc EXCEPT ![p] = "idle"] /\ todo' = [todo EXCEPT ![p] = {}]
        /\ UNCHANGED <<breaker, events, emitted, target, manual, ran, dirty, calls>>
    BY <1>10 DEF SweepDies, Goto
  <2>2. faults' \in 0..MaxFaults
    BY <1>0, <2>1, Constants
  <2>3. todo' \in [Sweep -> SUBSET Todo]
    BY <1>0, <2>1
  <2>4. pc' \in [Sweep -> {"idle", "work", "open", "close"}]
    BY <1>0, <2>1
  <2> QED BY <1>0, <1>1, <2>1, <2>2, <2>3, <2>4
<1>11. ASSUME NEW k \in Kind, Publish(k) PROVE Typed'
  <2>1. /\ emitted < MaxEvents /\ emitted' = emitted + 1
        /\ events' = [events EXCEPT ![k][0] = @ + 1]
        /\ UNCHANGED <<breaker, procVars, manual, ran, dirty, calls, faults>>
    BY <1>11 DEF Publish
  <2>2. 0 \in 0..Window /\ emitted' \in 0..MaxEvents
    BY <1>0, <2>1, Constants
  <2>3. \A c \in Kind, a \in 0..Window : events[c][a] \in Nat /\ events[c][a] <= emitted
    BY <1>0, Constants DEF Counted
  <2>4. events[k][0] + 1 \in 0..MaxEvents
    BY <1>0, <2>1, <2>2, <2>3, Constants
  <2>5. events' \in [Kind -> [0..Window -> 0..MaxEvents]]
    BY <1>0, <2>1, <2>4
  <2>6. Counted'
    <3>1. ASSUME NEW c \in Kind, NEW a \in 0..Window PROVE events'[c][a] <= emitted + 1
      <4>1. events'[c][a] = IF c = k /\ a = 0 THEN events[c][a] + 1 ELSE events[c][a]
        BY <1>0, <2>1, <2>2
      <4> QED BY <1>0, <2>3, <4>1, Constants
    <3> QED BY <2>1, <3>1 DEF Counted
  <2> QED BY <1>0, <2>1, <2>2, <2>5, <2>6 DEF Typed, TypeOK, Todo
<1>12. CASE Tick
  <2>1. /\ events' = Aged /\ ran' = {} /\ manual' = {} /\ dirty' = [r \in Recovery |-> {}]
        /\ UNCHANGED <<emitted, procVars, calls, faults>>
    BY <1>12 DEF Tick
  <2>2. breaker' \in [Breaker -> Row]
    BY <1>0, <1>12, TickType
  <2>3. \A c \in Kind, a \in 0..Window : a # 0 => a - 1 \in 0..Window
    BY Constants
  <2>4. 0 \in 0..MaxEvents
    BY Constants
  <2>5. events' \in [Kind -> [0..Window -> 0..MaxEvents]]
    BY <1>0, <2>1, <2>3, <2>4 DEF Aged
  <2>6. Counted'
    <3>1. ASSUME NEW c \in Kind, NEW a \in 0..Window PROVE events'[c][a] <= emitted
      BY <1>0, <2>1, <2>3 DEF Aged, Counted
    <3> QED BY <2>1, <3>1 DEF Counted
  <2> QED BY <1>0, <2>1, <2>2, <2>5, <2>6 DEF Typed, TypeOK, Todo
<1> QED BY <1>2, <1>3, <1>4, <1>5, <1>6, <1>7, <1>8, <1>9, <1>10, <1>11, <1>12
        DEF Next, WatchdogStep, RecoveryStep, Sweep

\* All breakers start CLOSED with no event counted.
LEMMA InitTyped == Init => Typed
<1> SUFFICES ASSUME Init PROVE Typed
  OBVIOUS
<1>1. /\ breaker = [b \in Breaker |-> NoRow]
      /\ events = [k \in Kind |-> [age \in 0..Window |-> 0]] /\ emitted = 0
      /\ pc = [p \in Sweep |-> "idle"] /\ todo = [p \in Sweep |-> {}]
      /\ target = [p \in Sweep |-> Global]
      /\ ran = {} /\ dirty = [r \in Recovery |-> {}]
      /\ manual = {} /\ calls = 0 /\ faults = 0
  BY DEF Init, Quiet
<1>2. NoRow \in Row
  BY Constants DEF NoRow, Row, State
<1>3. 0 \in 0..MaxEvents /\ 0 \in 0..MaxManual /\ 0 \in 0..MaxFaults /\ Global \in Breaker
  BY Constants DEF Breaker
<1>4. events \in [Kind -> [0..Window -> 0..MaxEvents]] /\ Counted
  BY <1>1, <1>3 DEF Counted
<1> QED BY <1>1, <1>2, <1>3, <1>4 DEF Typed, TypeOK

\* Types are right in every reachable state.
LEMMA TypedHolds == Spec => []Typed
BY InitTyped, TypedStep, PTL DEF Spec

\* The rows of the breakers, the counts and the sweeps have the shapes the code
\* gives them.
THEOREM BreakersTyped == Spec => []TypeOK
<1>1. Typed => TypeOK
  BY DEF Typed
<1> QED BY <1>1, TypedHolds, PTL

-----------------------------------------------------------------------------
(* The counts a sweep acts on.                                             *)

Enough(b) == b \in Key => FailuresOf(b, Window) >= AgentErrors

\* A failure of b's own that the probe looks at, if b is no more than an agent's.
Failing(b) == b \in Key => \E age \in 0..Probe : events[b][age] > 0

Writing(p) == pc[p] \in {"open", "close"}

\* What a sweep has still to do, and why: the watchdog trips over counts that still
\* stand; the recovery sweep has one thing to do for each breaker, what was dirty
\* when it began still is, it closes none of that and opens over a failed probe.
Tasks(p) ==
    /\ pc[p] = "idle" => todo[p] = {}
    /\ p \in Watchdog => /\ todo[p] \subseteq Breaker \X {"trip"}
                         /\ pc[p] # "close"
                         /\ \A x \in todo[p] : Enough(x[1])
                         /\ pc[p] = "open" => Enough(target[p])
    /\ p \in Recovery => /\ todo[p] \subseteq Breaker \X {"half_open", "probe"}
                         /\ \A x, y \in todo[p] : x[1] = y[1] => x = y
                         /\ Writing(p) => \A x \in todo[p] : x[1] # target[p]
                         /\ \A b \in dirty[p] : HasFailed(b)
                         /\ pc[p] = "close" => target[p] \notin dirty[p]
                         /\ pc[p] = "open" => Failing(target[p])

AllTasks == \A p \in Sweep : Tasks(p)

\* Failures that are published do not make the counts smaller.
LEMMA FailuresGrow ==
    ASSUME Typed, NEW k \in Kind, Publish(k), NEW b \in Key
    PROVE  /\ FailuresOf(b, Window) <= FailuresOf(b, Window)'
           /\ FailuresOf(b, Window) \in Nat /\ FailuresOf(b, Window)' \in Nat
<1> DEFINE S == {b} \X (0..Window)
           V == [x \in S |-> events[x[1]][x[2]]]
           W == [x \in S |-> events'[x[1]][x[2]]]
<1>1. IsFiniteSet(S)
  <2>1. IsFiniteSet({b})
    BY FS_Singleton
  <2>2. IsFiniteSet(0..Window)
    BY Constants, FS_Interval
  <2> QED BY <2>1, <2>2, FS_Product
<1>2. \A x \in S : x[1] \in Kind /\ x[2] \in 0..Window
  BY DEF Kind
<1>3. events \in [Kind -> [0..Window -> 0..MaxEvents]]
      /\ events' = [events EXCEPT ![k][0] = @ + 1]
  BY DEF Typed, TypeOK, Publish
<1>4. \A c \in Kind, a \in 0..Window : events[c][a] \in Nat
  BY <1>3, Constants
<1>5. \A c \in Kind, a \in 0..Window : events'[c][a] = IF c = k /\ a = 0 THEN events[c][a] + 1
                                                       ELSE events[c][a]
  BY <1>3
<1>6. \A x \in S : V[x] \in Nat /\ W[x] \in Nat /\ V[x] <= W[x]
  BY <1>2, <1>4, <1>5
<1>7. V \in [S -> Nat] /\ W \in [S -> Nat]
  BY <1>6
<1>8. FailuresOf(b, Window) = SumFunction(V) /\ FailuresOf(b, Window)' = SumFunction(W)
  BY DEF FailuresOf, Count
<1> HIDE DEF S, V, W
<1>9. SumFunction(V) <= SumFunction(W)
  <2>1. V \in [S -> Int] /\ W \in [S -> Int]
    BY <1>7
  <2> QED BY <1>1, <1>6, <2>1, SumGrows
<1>10. SumFunction(V) \in Nat /\ SumFunction(W) \in Nat
  BY <1>1, <1>7, SumNat
<1> QED BY <1>8, <1>9, <1>10

\* A probe that counts no failure has looked at every failure there was.
LEMMA NothingFailed ==
    ASSUME Typed, NEW b \in Breaker, ~(ProbeFailures(b) > 0)
    PROVE  ~HasFailed(b)
<1> DEFINE K == IF b = Global THEN Key \cup {"run_failed"} ELSE {b}
           S == K \X (0..Probe)
           V == [x \in S |-> events[x[1]][x[2]]]
<1>1. IsFiniteSet(S)
  <2>1. IsFiniteSet(K)
    BY Constants, FS_Singleton, FS_Union
  <2>2. IsFiniteSet(0..Probe)
    BY Constants, FS_Interval
  <2> HIDE DEF K
  <2> QED BY <2>1, <2>2, FS_Product
<1>2. K \subseteq Kind /\ 0..Probe \subseteq 0..Window
  BY Constants DEF Kind, Breaker
<1>3. V \in [S -> Nat]
  <2>1. \A c \in Kind, a \in 0..Window : events[c][a] \in Nat
    BY Constants DEF Typed, TypeOK
  <2> QED BY <1>2, <2>1
<1>4. SumFunction(V) = ProbeFailures(b)
  BY DEF ProbeFailures, FailuresOf, Count
<1>5. SumFunction(V) \in Nat
  <2> HIDE DEF V, S
  <2> QED BY <1>1, <1>3, SumNat
<1>6. \A x \in S : V[x] = 0
  <2> HIDE DEF V, S
  <2>1. ASSUME NEW x \in S PROVE V[x] <= SumFunction(V) /\ V[x] \in Nat
    BY <1>1, <1>3, SumCovers
  <2> QED BY <1>4, <1>5, <2>1
<1>7. ASSUME NEW c \in K, NEW a \in 0..Probe PROVE events[c][a] = 0
  <2>1. <<c, a>> \in S
    OBVIOUS
  <2> QED BY <1>6, <2>1
<1>8. ASSUME NEW c \in Kind, c = b \/ (b = Global /\ c \notin {"completed", "budget"})
      PROVE  c \in K
  BY <1>8, Constants DEF Kind
<1> HIDE DEF K, V, S
<1> QED BY <1>7, <1>8 DEF HasFailed

\* A probe that counts a failure of an agent's breaker has seen one of its own.
LEMMA SomethingFailed ==
    ASSUME Typed, NEW b \in Breaker, ProbeFailures(b) > 0
    PROVE  Failing(b)
<1> SUFFICES ASSUME b \in Key, \A age \in 0..Probe : ~(events[b][age] > 0) PROVE FALSE
  BY DEF Failing
<1> DEFINE S == {b} \X (0..Probe)
           V == [x \in S |-> events[x[1]][x[2]]]
<1>1. IsFiniteSet(S)
  <2>1. IsFiniteSet({b})
    BY FS_Singleton
  <2>2. IsFiniteSet(0..Probe)
    BY Constants, FS_Interval
  <2> QED BY <2>1, <2>2, FS_Product
<1>2. b \in Kind /\ 0..Probe \subseteq 0..Window
  BY Constants DEF Kind
<1>3. \A a \in 0..Window : events[b][a] \in Nat
  BY <1>2, Constants DEF Typed, TypeOK
<1>4. \A a \in 0..Probe : events[b][a] = 0
  BY <1>2, <1>3
<1>5. \A x \in S : V[x] = 0
  BY <1>4
<1>6. SumFunction(V) = ProbeFailures(b)
  <2>1. b # Global
    BY Constants DEF Kind
  <2> QED BY <2>1 DEF ProbeFailures, FailuresOf, Count
<1> HIDE DEF S
<1>7. V \in [S -> Int] /\ V = [x \in S |-> V[x] * 0]
  BY <1>5
<1> HIDE DEF V
<1>8. SumFunction([x \in S |-> V[x] * 0]) = SumFunction(V) * 0 /\ SumFunction(V) \in Int
  BY <1>1, <1>7, SumScales, SumGrows
<1> QED BY <1>6, <1>7, <1>8

\* Only time takes counts away.
LEMMA CountsStand ==
    ASSUME Typed, [Next]_vars, ~Tick, NEW b \in Breaker
    PROVE  /\ Enough(b) => Enough(b)'
           /\ HasFailed(b) => HasFailed(b)'
           /\ Failing(b) => Failing(b)'
<1>1. CASE events' = events
  BY <1>1 DEF Enough, HasFailed, Failing, FailuresOf, Count
<1>2. ASSUME NEW k \in Kind, Publish(k)
      PROVE  /\ Enough(b) => Enough(b)'
             /\ HasFailed(b) => HasFailed(b)'
             /\ Failing(b) => Failing(b)'
  <2>1. Enough(b) => Enough(b)'
    <3>1. b \in Key => /\ FailuresOf(b, Window) <= FailuresOf(b, Window)'
                       /\ FailuresOf(b, Window) \in Nat /\ FailuresOf(b, Window)' \in Nat
      BY <1>2, FailuresGrow
    <3> QED BY <3>1, Constants DEF Enough
  <2>2. ASSUME NEW c \in Kind, NEW a \in 0..Probe, events[c][a] > 0 PROVE events'[c][a] > 0
    <3>1. events \in [Kind -> [0..Window -> 0..MaxEvents]]
          /\ events' = [events EXCEPT ![k][0] = @ + 1]
      BY <1>2 DEF Typed, TypeOK, Publish
    <3>2. a \in 0..Window /\ MaxEvents \in Nat
      BY Constants
    <3>3. events[c][a] \in Nat
      <4>1. events[c] \in [0..Window -> 0..MaxEvents]
        BY <3>1
      <4>2. events[c][a] \in 0..MaxEvents
        BY <3>2, <4>1
      <4> QED BY <3>2, <4>2
    <3>4. events'[c][a] = IF c = k /\ a = 0 THEN events[c][a] + 1 ELSE events[c][a]
      BY <3>1, <3>2, <3>3
    <3> QED BY <2>2, <3>3, <3>4
  <2>3. HasFailed(b) => HasFailed(b)'
    BY <2>2 DEF HasFailed
  <2>4. Failing(b) => Failing(b)'
    BY <2>2 DEF Failing, Kind
  <2> QED BY <2>1, <2>3, <2>4
<1>3. events' = events \/ \E k \in Kind : Publish(k)
  BY DEF Next, WatchdogStep, RecoveryStep, WatchdogReads, WatchdogTrips, OpenWrites, CloseWrites,
         Writes, RecoverySnapshot, RecoveryHalfOpens, RecoveryProbes, OperatorSets, SweepDies, vars
<1> QED BY <1>1, <1>2, <1>3

\* A sweep that is not at work, while the counts stand, has the same to do.
LEMMA SameTasks ==
    ASSUME NEW p \in Sweep, Tasks(p), pc'[p] = pc[p], todo'[p] = todo[p], target'[p] = target[p],
           target[p] \in Breaker, todo[p] \subseteq Todo,
           p \in Recovery => dirty'[p] = dirty[p] /\ dirty[p] \subseteq Breaker,
           \A b \in Breaker : /\ Enough(b) => Enough(b)'
                              /\ HasFailed(b) => HasFailed(b)'
                              /\ Failing(b) => Failing(b)'
    PROVE  Tasks(p)'
BY DEF Tasks, Todo, Writing

\* Every step of a sweep leaves it something to do only for a reason.
LEMMA TasksStep ==
    ASSUME Typed, AllTasks, [Next]_vars
    PROVE  AllTasks'
<1> USE DEF procVars, envVars
<1>0. /\ pc \in [Sweep -> {"idle", "work", "open", "close"}]
      /\ todo \in [Sweep -> SUBSET Todo]
      /\ target \in [Sweep -> Breaker]
      /\ dirty \in [Recovery -> SUBSET Breaker]
  BY DEF Typed, TypeOK, Todo
<1>1. Watchdog \cap Recovery = {} /\ Watchdog \subseteq Sweep /\ Recovery \subseteq Sweep
  BY BreakerAssumption DEF Sweep
<1>2. CASE Tick
  <2>1. /\ \A p \in Sweep : pc'[p] = "idle" /\ todo'[p] = {} /\ Tasks(p)
        /\ \A p \in Recovery : dirty'[p] = {}
    BY <1>2 DEF Tick, AllTasks, Tasks
  <2> QED BY <2>1 DEF AllTasks, Tasks, Writing
<1>3. CASE ~Tick
  <2>0. \A b \in Breaker : /\ Enough(b) => Enough(b)'
                           /\ HasFailed(b) => HasFailed(b)'
                           /\ Failing(b) => Failing(b)'
    BY <1>3, CountsStand
  <2>1. ASSUME NEW p \in Sweep, Tasks(p)', \A q \in Sweep \ {p} :
               /\ pc'[q] = pc[q] /\ todo'[q] = todo[q] /\ target'[q] = target[q]
               /\ q \in Recovery => dirty'[q] = dirty[q]
        PROVE  AllTasks'
    <3>1. ASSUME NEW q \in Sweep, q # p PROVE Tasks(q)'
      BY <1>0, <2>0, <2>1, <3>1, SameTasks DEF AllTasks
    <3> QED BY <2>1, <3>1 DEF AllTasks
  <2>2. CASE UNCHANGED <<procVars, dirty>>
    BY <1>0, <2>0, <2>2, SameTasks DEF AllTasks
  <2>3. ASSUME NEW w \in Watchdog, WatchdogReads(w) PROVE AllTasks'
    <3> DEFINE new == (AgentTrips \cup (IF GlobalTrips THEN {Global} ELSE {})) \X {"trip"}
    <3>1. /\ todo' = [todo EXCEPT ![w] = new]
          /\ pc' = [pc EXCEPT ![w] = IF todo'[w] = {} THEN "idle" ELSE "work"]
          /\ UNCHANGED <<breaker, events, target, dirty>>
      BY <2>3 DEF WatchdogReads, Goto
    <3>2. \A x \in new : Enough(x[1])
      BY Constants DEF AgentTrips, Enough, Kind
    <3>3. new \subseteq Breaker \X {"trip"}
      BY Jobs
    <3> HIDE DEF new
    <3>4. todo'[w] = new /\ pc'[w] \in {"idle", "work"} /\ (pc'[w] = "idle" => new = {})
      BY <1>0, <1>1, <3>1
    <3>5. Tasks(w)'
      BY <1>1, <2>0, <3>2, <3>3, <3>4 DEF Tasks
    <3> QED BY <1>0, <1>1, <2>1, <3>1, <3>5
  <2>4. ASSUME NEW w \in Watchdog, WatchdogTrips(w) PROVE AllTasks'
    <3>1. PICK t \in todo[w] :
             /\ todo' = [todo EXCEPT ![w] = @ \ {t}]
             /\ target' = [target EXCEPT ![w] = t[1]]
             /\ pc' = [pc EXCEPT ![w] = CASE ~IsOpen(t[1])                 -> "open"
                                          [] IsOpen(t[1]) /\ todo[w] = {t} -> "idle"
                                          [] OTHER                         -> "work"]
      BY <2>4 DEF WatchdogTrips, Goto
    <3>0. UNCHANGED dirty
      BY <2>4 DEF WatchdogTrips
    <3>2. /\ pc'[w] \in {"idle", "work", "open"}
          /\ pc'[w] = "idle" => todo'[w] = {}
          /\ todo'[w] = todo[w] \ {t} /\ target'[w] = t[1]
      BY <1>0, <1>1, <3>1
    <3>3. Tasks(w) /\ t[1] \in Breaker
      BY <1>0, <1>1 DEF AllTasks, Todo
    <3>4. Tasks(w)'
      BY <1>1, <2>0, <3>2, <3>3 DEF Tasks
    <3> QED BY <1>0, <1>1, <2>1, <3>0, <3>1, <3>4
  <2>5. ASSUME NEW p \in Sweep, OpenWrites(p) \/ CloseWrites(p) PROVE AllTasks'
    <3>1. /\ pc' = [pc EXCEPT ![p] = IF todo[p] = {} THEN "idle" ELSE "work"]
          /\ UNCHANGED <<todo, target, dirty>>
      BY <2>5 DEF OpenWrites, CloseWrites, Writes, Back, Goto
    <3>2. pc'[p] \in {"idle", "work"} /\ (pc'[p] = "idle" => todo[p] = {})
      BY <1>0, <3>1
    <3>3. Tasks(p) /\ \A x \in todo[p] : x[1] \in Breaker
      BY <1>0 DEF AllTasks, Todo
    <3>4. Tasks(p)'
      BY <1>0, <2>0, <3>1, <3>2, <3>3 DEF Tasks, Writing, HasFailed
    <3> QED BY <1>0, <2>1, <3>1, <3>4
  <2>6. ASSUME NEW r \in Recovery, RecoverySnapshot(r) PROVE AllTasks'
    <3>1. /\ todo' = [todo EXCEPT ![r] = Due]
          /\ pc' = [pc EXCEPT ![r] = IF Due = {} THEN "idle" ELSE "work"]
          /\ dirty' = [dirty EXCEPT ![r] =
                          { b \in Breaker : <<b, "probe">> \in Due /\ HasFailed(b) }]
          /\ UNCHANGED <<events, target>>
      BY <2>6 DEF RecoverySnapshot, Goto
    <3>2. /\ pc'[r] \in {"idle", "work"} /\ (pc'[r] = "idle" => Due = {}) /\ todo'[r] = Due
          /\ \A b \in dirty'[r] : HasFailed(b)'
      BY <1>0, <1>1, <3>1 DEF HasFailed
    <3>3. \A x, y \in Due : x[1] = y[1] => x = y
      BY DEF Due
    <3>4. Tasks(r)'
      BY <1>1, <3>2, <3>3, Jobs DEF Tasks, Writing
    <3> QED BY <1>0, <1>1, <2>1, <3>1, <3>4
  <2>7. ASSUME NEW r \in Recovery, RecoveryHalfOpens(r) PROVE AllTasks'
    <3>1. PICK t \in todo[r] : todo' = [todo EXCEPT ![r] = @ \ {t}]
      BY <2>7 DEF RecoveryHalfOpens
    <3>2. /\ pc' = [pc EXCEPT ![r] = IF todo'[r] = {} THEN "idle" ELSE "work"]
          /\ UNCHANGED <<target, dirty>>
      BY <2>7 DEF RecoveryHalfOpens, Goto
    <3>3. /\ pc'[r] \in {"idle", "work"} /\ (pc'[r] = "idle" => todo'[r] = {})
          /\ todo'[r] = todo[r] \ {t}
      BY <1>0, <1>1, <3>1, <3>2
    <3>4. Tasks(r) /\ \A b \in dirty'[r] : HasFailed(b)'
      BY <1>0, <1>1, <2>0, <3>2 DEF AllTasks, Tasks
    <3>5. Tasks(r)'
      BY <1>1, <3>2, <3>3, <3>4 DEF Tasks, Writing
    <3> QED BY <1>0, <1>1, <2>1, <3>1, <3>2, <3>5
  <2>8. ASSUME NEW r \in Recovery, RecoveryProbes(r) PROVE AllTasks'
    <3>1. PICK t \in todo[r] :
             /\ pc' = [pc EXCEPT ![r] = IF ProbeFailures(t[1]) > 0 THEN "open" ELSE "close"]
             /\ target' = [target EXCEPT ![r] = t[1]]
             /\ todo' = [todo EXCEPT ![r] = @ \ {t}]
             /\ UNCHANGED <<events, dirty>>
      BY <2>8 DEF RecoveryProbes, Goto
    <3>2. /\ pc'[r] \in {"open", "close"}
          /\ pc'[r] = "close" => ~(ProbeFailures(t[1]) > 0)
          /\ pc'[r] = "open" => ProbeFailures(t[1]) > 0
          /\ todo'[r] = todo[r] \ {t} /\ target'[r] = t[1]
      BY <1>0, <1>1, <3>1
    <3>3. Tasks(r) /\ t[1] \in Breaker
      BY <1>0, <1>1 DEF AllTasks, Todo
    <3>4. (pc'[r] = "close" => ~HasFailed(t[1])) /\ (pc'[r] = "open" => Failing(t[1])')
      BY <2>0, <3>2, <3>3, NothingFailed, SomethingFailed
    <3>5. /\ \A b \in dirty'[r] : HasFailed(b)'
          /\ pc'[r] = "close" => t[1] \notin dirty'[r]
      BY <1>1, <3>1, <3>3, <3>4 DEF Tasks, HasFailed
    <3>6. Tasks(r)'
      BY <1>1, <3>2, <3>3, <3>4, <3>5 DEF Tasks, Writing, Failing
    <3> QED BY <1>0, <1>1, <2>1, <3>1, <3>6
  <2>9. ASSUME NEW p \in Sweep, SweepDies(p) PROVE AllTasks'
    <3>1. /\ pc' = [pc EXCEPT ![p] = "idle"] /\ todo' = [todo EXCEPT ![p] = {}]
          /\ UNCHANGED <<target, dirty>>
      BY <2>9 DEF SweepDies, Goto
    <3>2. pc'[p] = "idle" /\ todo'[p] = {}
      BY <1>0, <3>1
    <3>3. Tasks(p) /\ (p \in Recovery => \A b \in dirty'[p] : HasFailed(b)')
      BY <1>0, <2>0, <3>1 DEF Tasks, AllTasks
    <3>4. Tasks(p)'
      BY <3>1, <3>2, <3>3 DEF Tasks, Writing
    <3> QED BY <1>0, <2>1, <3>1, <3>4
  <2>10. \/ UNCHANGED <<procVars, dirty>>
         \/ \E w \in Watchdog : WatchdogReads(w) \/ WatchdogTrips(w)
         \/ \E p \in Sweep : OpenWrites(p) \/ CloseWrites(p) \/ SweepDies(p)
         \/ \E r \in Recovery : RecoverySnapshot(r) \/ RecoveryHalfOpens(r) \/ RecoveryProbes(r)
    BY <1>1, <1>3 DEF Next, WatchdogStep, RecoveryStep, OperatorSets, Publish, vars
  <2> QED BY <2>2, <2>3, <2>4, <2>5, <2>6, <2>7, <2>8, <2>9, <2>10
<1> QED BY <1>2, <1>3

\* No sweep has anything to do before the first one runs.
LEMMA InitTasks == Init => AllTasks
BY DEF Init, Quiet, AllTasks, Tasks, Writing

\* What a sweep has queued is of its kind, and a trip is earned, in every reachable state.
LEMMA TasksHold == Spec => []AllTasks
BY InitTasks, TasksStep, TypedHolds, PTL DEF Spec

-----------------------------------------------------------------------------
(* The rows a sweep acts on, where cron runs one recovery sweep at a time. *)

OneRecovery == \A r, s \in Recovery : r = s

JustOpened(b) == IsOpen(b) => breaker[b].opened = 0

\* How the row of a breaker nobody touched by hand may have changed since a sweep
\* read it: it was opened in this very tick, and in no other way.
Fresh(p) ==
    /\ pc[p] = "open" /\ target[p] \notin manual => JustOpened(target[p])
    /\ p \in Recovery => \A b \in Breaker \ manual :
          /\ <<b, "half_open">> \in todo[p] => IsOpen(b) /\ breaker[b].opened = Cooldown
          /\ <<b, "probe">> \in todo[p] \/ (Writing(p) /\ target[p] = b) =>
                \/ breaker[b].state = "HALF_OPEN" /\ breaker[b].half = Probe
                \/ IsOpen(b) /\ breaker[b].opened = 0

AllFresh == \A p \in Sweep : Fresh(p)

\* A write by hand, or nothing that concerns the rows.
LEMMA SameFresh ==
    ASSUME NEW p \in Sweep, Fresh(p), pc'[p] = pc[p], todo'[p] = todo[p], target'[p] = target[p],
           target[p] \in Breaker, manual \subseteq manual',
           \A b \in Breaker \ manual' : breaker'[b] = breaker[b]
    PROVE  Fresh(p)'
BY DEF Fresh, JustOpened, IsOpen, Writing

\* The writes of the sweeps, one by one.
LEMMA FreshWrites ==
    ASSUME Typed, AllTasks, AllFresh, OneRecovery, NEW p \in Sweep,
           OpenWrites(p) \/ (p \in Recovery /\ (CloseWrites(p) \/ RecoveryHalfOpens(p)))
    PROVE  AllFresh'
<1> USE DEF procVars, envVars
<1>0. /\ breaker \in [Breaker -> Row]
      /\ pc \in [Sweep -> {"idle", "work", "open", "close"}]
      /\ todo \in [Sweep -> SUBSET Todo]
      /\ target \in [Sweep -> Breaker]
      /\ Cooldown \in Nat
  BY Constants DEF Typed, TypeOK, Todo
<1>1. Watchdog \cap Recovery = {} /\ Sweep = Watchdog \cup Recovery
  BY BreakerAssumption DEF Sweep
<1>2. Tasks(p) /\ Fresh(p)
  BY DEF AllTasks, AllFresh
<1>3. PICK b \in Breaker, s \in State, left \in SUBSET todo[p] :
         /\ Set(b, s)
         /\ todo' = [todo EXCEPT ![p] = left]
         /\ pc' = [pc EXCEPT ![p] = IF left = {} THEN "idle" ELSE "work"]
         /\ UNCHANGED <<target, manual>>
         /\ s # "OPEN" => p \in Recovery
         /\ s = "OPEN" => pc[p] = "open" /\ b = target[p]
         /\ p \in Recovery => \A x \in left : x[1] # b
  <2>1. CASE OpenWrites(p)
    <3>1. /\ Set(target[p], "OPEN") /\ pc[p] = "open"
          /\ pc' = [pc EXCEPT ![p] = IF todo[p] = {} THEN "idle" ELSE "work"]
          /\ UNCHANGED <<todo, target, manual>>
      BY <2>1 DEF OpenWrites, Writes, Back, Goto
    <3>2. todo' = [todo EXCEPT ![p] = todo[p]]
      BY <1>0, <3>1
    <3>3. p \in Recovery => \A x \in todo[p] : x[1] # target[p]
      BY <1>2, <3>1 DEF Tasks, Writing
    <3> QED BY <1>0, <3>1, <3>2, <3>3 DEF State
  <2>2. CASE p \in Recovery /\ CloseWrites(p)
    <3>1. /\ Set(target[p], "CLOSED") /\ pc[p] = "close"
          /\ pc' = [pc EXCEPT ![p] = IF todo[p] = {} THEN "idle" ELSE "work"]
          /\ UNCHANGED <<todo, target, manual>>
      BY <2>2 DEF CloseWrites, Writes, Back, Goto
    <3>2. todo' = [todo EXCEPT ![p] = todo[p]]
      BY <1>0, <3>1
    <3>3. \A x \in todo[p] : x[1] # target[p]
      BY <1>2, <2>2, <3>1 DEF Tasks, Writing
    <3> QED BY <1>0, <2>2, <3>1, <3>2, <3>3 DEF State
  <2>3. CASE p \in Recovery /\ RecoveryHalfOpens(p)
    <3>1. PICK t \in todo[p] : Set(t[1], "HALF_OPEN") /\ todo' = [todo EXCEPT ![p] = @ \ {t}]
      BY <2>3 DEF RecoveryHalfOpens
    <3>2. /\ pc' = [pc EXCEPT ![p] = IF todo'[p] = {} THEN "idle" ELSE "work"]
          /\ UNCHANGED <<target, manual>>
      BY <2>3 DEF RecoveryHalfOpens, Goto
    <3>3. todo'[p] = todo[p] \ {t}
      BY <1>0, <3>1
    <3>4. pc' = [pc EXCEPT ![p] = IF todo[p] \ {t} = {} THEN "idle" ELSE "work"]
      BY <3>2, <3>3
    <3>5. \A x \in todo[p] \ {t} : x[1] # t[1]
      BY <1>2, <2>3 DEF Tasks
    <3>6. t[1] \in Breaker
      BY <1>0 DEF Todo
    <3> QED BY <2>3, <3>1, <3>2, <3>4, <3>5, <3>6 DEF State
  <2> QED BY <2>1, <2>2, <2>3
<1>4. /\ breaker'[b].state = s /\ (s = "OPEN" => breaker'[b].opened = 0)
      /\ \A c \in Breaker \ {b} : breaker'[c] = breaker[c]
  BY <1>0, <1>3, SetType
<1>5. /\ pc'[p] \in {"idle", "work"} /\ todo'[p] = left
      /\ \A q \in Sweep \ {p} : pc'[q] = pc[q] /\ todo'[q] = todo[q]
  BY <1>0, <1>3
<1>6. \A c \in Breaker : JustOpened(c) => JustOpened(c)'
  BY <1>4 DEF JustOpened, IsOpen
<1>7. ASSUME NEW q \in Sweep PROVE pc'[q] = "open" /\ target'[q] \notin manual' => JustOpened(target[q])'
  BY <1>0, <1>3, <1>5, <1>6 DEF AllFresh, Fresh
<1>8. ASSUME NEW q \in Recovery, NEW c \in Breaker \ manual', c # b
      PROVE  /\ <<c, "half_open">> \in todo'[q] => IsOpen(c)' /\ breaker'[c].opened = Cooldown
             /\ <<c, "probe">> \in todo'[q] \/ (Writing(q)' /\ target'[q] = c) =>
                   \/ breaker'[c].state = "HALF_OPEN" /\ breaker'[c].half = Probe
                   \/ IsOpen(c)' /\ breaker'[c].opened = 0
  <2>1. Fresh(q) /\ breaker'[c] = breaker[c] /\ todo'[q] \subseteq todo[q] /\ target'[q] = target[q]
        /\ (Writing(q)' => Writing(q)) /\ c \notin manual
    BY <1>1, <1>3, <1>4, <1>5, <1>8 DEF AllFresh, Writing
  <2> QED BY <1>8, <2>1 DEF Fresh, IsOpen
<1>9. ASSUME NEW q \in Recovery, b \notin manual'
      PROVE  /\ <<b, "half_open">> \in todo'[q] => IsOpen(b)' /\ breaker'[b].opened = Cooldown
             /\ <<b, "probe">> \in todo'[q] \/ (Writing(q)' /\ target'[q] = b) =>
                   \/ breaker'[b].state = "HALF_OPEN" /\ breaker'[b].half = Probe
                   \/ IsOpen(b)' /\ breaker'[b].opened = 0
  <2>1. CASE q = p
    <3>1. \A x \in todo'[p] : x[1] # b
      BY <1>3, <1>5, <1>9, <2>1
    <3>2. <<b, "half_open">> \notin todo'[q] /\ <<b, "probe">> \notin todo'[q]
      BY <2>1, <3>1
    <3> QED BY <1>5, <2>1, <3>2 DEF Writing
  <2>2. CASE q # p
    <3>1. s = "OPEN"
      BY <1>3, <1>9, <2>2 DEF OneRecovery
    <3>2. IsOpen(b)' /\ breaker'[b].opened = 0
      BY <1>4, <3>1 DEF IsOpen
    <3>3. ASSUME <<b, "half_open">> \in todo[q] PROVE Cooldown = 0
      <4>1. IsOpen(b) /\ breaker[b].opened = Cooldown
        BY <1>1, <1>3, <1>9, <3>3 DEF AllFresh, Fresh
      <4>2. JustOpened(b)
        BY <1>2, <1>3, <1>9, <3>1 DEF Fresh
      <4> QED BY <4>1, <4>2 DEF JustOpened
    <3> QED BY <1>1, <1>5, <2>2, <3>2, <3>3
  <2> QED BY <2>1, <2>2
<1>10. ASSUME NEW q \in Sweep PROVE Fresh(q)'
  BY <1>3, <1>7, <1>8, <1>9, <1>10 DEF Fresh
<1> QED BY <1>10 DEF AllFresh

\* The other steps, too, leave every sweep with rows that are fresh.
LEMMA FreshStep ==
    ASSUME Typed, AllTasks, AllFresh, OneRecovery, [Next]_vars
    PROVE  AllFresh'
<1> USE DEF procVars, envVars
<1>0. /\ breaker \in [Breaker -> Row]
      /\ pc \in [Sweep -> {"idle", "work", "open", "close"}]
      /\ todo \in [Sweep -> SUBSET Todo]
      /\ target \in [Sweep -> Breaker]
  BY DEF Typed, TypeOK, Todo
<1>1. Watchdog \cap Recovery = {} /\ Watchdog \subseteq Sweep /\ Recovery \subseteq Sweep
  BY BreakerAssumption DEF Sweep
<1>2. ASSUME NEW p \in Sweep, Fresh(p)', UNCHANGED <<breaker, manual>>, \A q \in Sweep \ {p} :
             pc'[q] = pc[q] /\ todo'[q] = todo[q] /\ target'[q] = target[q]
      PROVE  AllFresh'
  <2>1. ASSUME NEW q \in Sweep, q # p PROVE Fresh(q)'
    BY <1>0, <1>2, <2>1, SameFresh DEF AllFresh
  <2> QED BY <1>2, <2>1 DEF AllFresh
<1>3. CASE UNCHANGED <<breaker, procVars, manual>>
  BY <1>0, <1>3, SameFresh DEF AllFresh
<1>4. ASSUME NEW b \in Breaker, NEW s \in State, OperatorSets(b, s) PROVE AllFresh'
  <2>1. /\ Set(b, s) /\ manual' = manual \cup {b} /\ UNCHANGED procVars
    BY <1>4 DEF OperatorSets
  <2>2. \A c \in Breaker \ manual' : breaker'[c] = breaker[c]
    BY <1>0, <2>1, SetType
  <2> QED BY <1>0, <2>1, <2>2, SameFresh DEF AllFresh
<1>5. CASE Tick
  <2>1. \A p \in Sweep : pc'[p] = "idle" /\ todo'[p] = {} /\ Tasks(p)
    BY <1>5 DEF Tick, AllTasks, Tasks
  <2> QED BY <2>1 DEF AllFresh, Fresh, Writing
<1>6. ASSUME NEW w \in Watchdog, WatchdogReads(w) PROVE AllFresh'
  <2>1. PICK new : /\ todo' = [todo EXCEPT ![w] = new]
                   /\ pc' = [pc EXCEPT ![w] = IF todo'[w] = {} THEN "idle" ELSE "work"]
                   /\ UNCHANGED <<breaker, manual, target>>
    BY <1>6 DEF WatchdogReads, Goto
  <2>2. pc'[w] \in {"idle", "work"}
    BY <1>0, <1>1, <2>1
  <2>3. Fresh(w)'
    BY <1>1, <2>2 DEF Fresh
  <2> QED BY <1>0, <1>1, <1>2, <2>1, <2>3
<1>7. ASSUME NEW w \in Watchdog, WatchdogTrips(w) PROVE AllFresh'
  <2>1. PICK t \in todo[w] :
             /\ todo' = [todo EXCEPT ![w] = @ \ {t}]
             /\ target' = [target EXCEPT ![w] = t[1]]
             /\ pc' = [pc EXCEPT ![w] = CASE ~IsOpen(t[1])                 -> "open"
                                          [] IsOpen(t[1]) /\ todo[w] = {t} -> "idle"
                                          [] OTHER                         -> "work"]
             /\ UNCHANGED <<breaker, manual>>
    BY <1>7 DEF WatchdogTrips, Goto
  <2>2. target'[w] = t[1] /\ (pc'[w] = "open" => ~IsOpen(t[1]))
    BY <1>0, <1>1, <2>1
  <2>3. Fresh(w)'
    BY <1>1, <2>1, <2>2 DEF Fresh, JustOpened, IsOpen
  <2> QED BY <1>0, <1>1, <1>2, <2>1, <2>3
<1>8. ASSUME NEW r \in Recovery, RecoverySnapshot(r) PROVE AllFresh'
  <2>1. /\ todo' = [todo EXCEPT ![r] = Due]
        /\ pc' = [pc EXCEPT ![r] = IF Due = {} THEN "idle" ELSE "work"]
        /\ UNCHANGED <<breaker, manual, target>>
    BY <1>8 DEF RecoverySnapshot, Goto
  <2>2. pc'[r] \in {"idle", "work"} /\ todo'[r] = Due
    BY <1>0, <1>1, <2>1
  <2>3. ASSUME NEW b \in Breaker
        PROVE  /\ <<b, "half_open">> \in Due => IsOpen(b) /\ breaker[b].opened = Cooldown
               /\ <<b, "probe">> \in Due => breaker[b].state = "HALF_OPEN" /\ breaker[b].half = Probe
    <3>1. breaker[b].opened \in 0..Cooldown /\ breaker[b].half \in 0..Probe
      BY <1>0 DEF Row
    <3>2. <<b, "half_open">> \in Due => IsOpen(b) /\ breaker[b].opened >= Cooldown
      BY DEF Due, IsOpen
    <3>3. <<b, "probe">> \in Due => breaker[b].state = "HALF_OPEN" /\ breaker[b].half >= Probe
      BY DEF Due
    <3> QED BY <3>1, <3>2, <3>3, Constants
  <2>4. Fresh(r)'
    BY <2>1, <2>2, <2>3 DEF Fresh, IsOpen, Writing
  <2> QED BY <1>0, <1>1, <1>2, <2>1, <2>4
<1>9. ASSUME NEW r \in Recovery, RecoveryProbes(r) PROVE AllFresh'
  <2>1. PICK t \in todo[r] :
           /\ t[2] = "probe"
           /\ pc' = [pc EXCEPT ![r] = IF ProbeFailures(t[1]) > 0 THEN "open" ELSE "close"]
           /\ target' = [target EXCEPT ![r] = t[1]]
           /\ todo' = [todo EXCEPT ![r] = @ \ {t}]
           /\ UNCHANGED <<breaker, manual>>
    BY <1>9 DEF RecoveryProbes, Goto
  <2>2. t[1] \in Breaker /\ <<t[1], "probe">> = t /\ t \in todo[r] /\ r \in Sweep
    BY <1>0, <1>1, <2>1 DEF Todo
  <2>3. todo'[r] \subseteq todo[r] /\ target'[r] = t[1]
    BY <1>0, <1>1, <2>1
  <2>4. Fresh(r)
    BY <2>2 DEF AllFresh
  <2>5. t[1] \notin manual => \/ breaker[t[1]].state = "HALF_OPEN" /\ breaker[t[1]].half = Probe
                              \/ IsOpen(t[1]) /\ breaker[t[1]].opened = 0
    BY <2>2, <2>4 DEF Fresh
  <2>6. Fresh(r)'
    BY <2>1, <2>3, <2>4, <2>5 DEF Fresh, JustOpened, IsOpen, Writing
  <2> QED BY <1>0, <1>1, <1>2, <2>1, <2>6
<1>10. ASSUME NEW p \in Sweep, SweepDies(p) PROVE AllFresh'
  <2>1. /\ pc' = [pc EXCEPT ![p] = "idle"] /\ todo' = [todo EXCEPT ![p] = {}]
        /\ UNCHANGED <<breaker, manual, target>>
    BY <1>10 DEF SweepDies, Goto
  <2>2. pc'[p] = "idle" /\ todo'[p] = {}
    BY <1>0, <2>1
  <2>3. Fresh(p)'
    BY <2>2 DEF Fresh, Writing
  <2> QED BY <1>0, <1>2, <2>1, <2>3
<1>11. ASSUME NEW k \in Kind, Publish(k) PROVE AllFresh'
  BY <1>3, <1>11 DEF Publish
<1>12. CASE UNCHANGED vars
  BY <1>3, <1>12 DEF vars
<1> QED BY <1>1, <1>4, <1>5, <1>6, <1>7, <1>8, <1>9, <1>10, <1>11, <1>12, FreshWrites
        DEF Next, WatchdogStep, RecoveryStep

\* No sweep has read anything at the start.
LEMMA InitFresh == Init => AllFresh
BY DEF Init, Quiet, AllFresh, Fresh, Writing

\* With one recovery sweep at a time, what a sweep has read stays true until it acts on it.
LEMMA FreshHold ==
    ASSUME OneRecovery
    PROVE  Spec => []AllFresh
<1>1. Init => AllFresh
  BY InitFresh
<1>2. Typed /\ AllTasks /\ AllFresh /\ [Next]_vars => AllFresh'
  BY FreshStep
<1> QED BY <1>1, <1>2, TypedHolds, TasksHold, PTL DEF Spec

-----------------------------------------------------------------------------
(* The rows a sweep acts on, where recovery sweeps overlap.                *)

\* What is left of an OPEN row that had served its cooldown when some sweep read it.
Served(b) ==
    \/ IsOpen(b) /\ breaker[b].opened = Cooldown
    \/ breaker[b].half = 0 /\ breaker[b].opened \in {0, Cooldown}

\* What is left of a row whose probation was over when some sweep read it.
Probed(b) == breaker[b].half = Probe /\ JustOpened(b)

Marked(p) ==
    /\ pc[p] = "open" /\ target[p] \notin manual => JustOpened(target[p])
    /\ p \in Recovery => \A b \in Breaker \ manual :
          /\ <<b, "half_open">> \in todo[p] => Served(b)
          /\ <<b, "probe">> \in todo[p] \/ (Writing(p) /\ target[p] = b) => Probed(b)

AllMarked == \A p \in Sweep : Marked(p)

\* A write by hand, or nothing that concerns the rows.
LEMMA SameMarked ==
    ASSUME NEW p \in Sweep, Marked(p), pc'[p] = pc[p], todo'[p] = todo[p], target'[p] = target[p],
           target[p] \in Breaker, manual \subseteq manual',
           \A b \in Breaker \ manual' : breaker'[b] = breaker[b]
    PROVE  Marked(p)'
BY DEF Marked, Served, Probed, JustOpened, IsOpen, Writing

\* The write of one sweep spoils nothing that another has read, because no row can
\* have served its cooldown and its probation in one tick.
LEMMA MarkedWrites ==
    ASSUME Typed, AllTasks, AllMarked, Cooldown > 0, NEW p \in Sweep,
           OpenWrites(p) \/ (p \in Recovery /\ (CloseWrites(p) \/ RecoveryHalfOpens(p)))
    PROVE  AllMarked'
<1> USE DEF procVars, envVars
<1>0. /\ breaker \in [Breaker -> Row]
      /\ pc \in [Sweep -> {"idle", "work", "open", "close"}]
      /\ todo \in [Sweep -> SUBSET Todo]
      /\ target \in [Sweep -> Breaker]
      /\ Cooldown \in Nat
  BY Constants DEF Typed, TypeOK, Todo
<1>1. Watchdog \cap Recovery = {} /\ Sweep = Watchdog \cup Recovery
  BY BreakerAssumption DEF Sweep
<1>2. PICK b \in Breaker, s \in State, left \in SUBSET todo[p] :
         /\ Set(b, s)
         /\ todo' = [todo EXCEPT ![p] = left]
         /\ pc' = [pc EXCEPT ![p] = IF left = {} THEN "idle" ELSE "work"]
         /\ UNCHANGED <<target, manual>>
         /\ s = "OPEN" => pc[p] = "open" /\ b = target[p]
         /\ s = "CLOSED" => p \in Recovery /\ Writing(p) /\ b = target[p]
         /\ s = "HALF_OPEN" => p \in Recovery /\ <<b, "half_open">> \in todo[p]
  <2>1. ASSUME NEW s \in {"OPEN", "CLOSED"}, NEW label \in {"open", "close"}, Writes(p, label, s)
        PROVE  /\ target[p] \in Breaker /\ Set(target[p], s) /\ pc[p] = label
               /\ todo[p] \in SUBSET todo[p] /\ todo' = [todo EXCEPT ![p] = todo[p]]
               /\ pc' = [pc EXCEPT ![p] = IF todo[p] = {} THEN "idle" ELSE "work"]
               /\ UNCHANGED <<target, manual>>
    BY <1>0, <2>1 DEF Writes, Back, Goto
  <2>2. CASE OpenWrites(p)
    BY <2>1, <2>2 DEF OpenWrites, State
  <2>3. CASE p \in Recovery /\ CloseWrites(p)
    BY <2>1, <2>3 DEF CloseWrites, State, Writing
  <2>4. CASE p \in Recovery /\ RecoveryHalfOpens(p)
    <3>1. PICK t \in todo[p] : /\ t[2] = "half_open" /\ Set(t[1], "HALF_OPEN")
                               /\ todo' = [todo EXCEPT ![p] = @ \ {t}]
      BY <2>4 DEF RecoveryHalfOpens
    <3>2. /\ pc' = [pc EXCEPT ![p] = IF todo'[p] = {} THEN "idle" ELSE "work"]
          /\ UNCHANGED <<target, manual>>
      BY <2>4 DEF RecoveryHalfOpens, Goto
    <3>3. todo'[p] = todo[p] \ {t} /\ t[1] \in Breaker /\ t = <<t[1], "half_open">>
      BY <1>0, <3>1 DEF Todo
    <3>4. pc' = [pc EXCEPT ![p] = IF todo[p] \ {t} = {} THEN "idle" ELSE "work"]
      BY <3>2, <3>3
    <3> QED BY <2>4, <3>1, <3>2, <3>3, <3>4 DEF State
  <2> QED BY <2>2, <2>3, <2>4
<1>3. /\ breaker'[b].state = s
      /\ breaker'[b].opened = IF s = "OPEN" THEN 0 ELSE breaker[b].opened
      /\ breaker'[b].half = IF s = "HALF_OPEN" THEN 0 ELSE breaker[b].half
      /\ \A c \in Breaker \ {b} : breaker'[c] = breaker[c]
  BY <1>0, <1>2, SetType
<1>4. /\ pc'[p] \in {"idle", "work"} /\ todo'[p] \subseteq todo[p]
      /\ \A q \in Sweep \ {p} : pc'[q] = pc[q] /\ todo'[q] = todo[q]
  BY <1>0, <1>2
<1>5. JustOpened(b)' /\ \A c \in Breaker : JustOpened(c) => JustOpened(c)'
  BY <1>3 DEF JustOpened, IsOpen
<1>6. ASSUME b \notin manual
      PROVE  /\ s = "OPEN" => JustOpened(b)
             /\ s = "CLOSED" => Probed(b)
             /\ s = "HALF_OPEN" => Served(b)
  BY <1>2, <1>6 DEF AllMarked, Marked
<1>7. ASSUME b \notin manual, Served(b) PROVE Served(b)'
  <2>1. CASE s = "OPEN"
    BY <1>0, <1>3, <1>6, <1>7, <2>1 DEF Served, JustOpened, IsOpen
  <2>2. CASE s = "CLOSED"
    BY <1>0, <1>3, <1>6, <1>7, <2>2 DEF Served, Probed, JustOpened, IsOpen
  <2>3. CASE s = "HALF_OPEN"
    BY <1>0, <1>3, <1>7, <2>3 DEF Served, IsOpen
  <2> QED BY <2>1, <2>2, <2>3 DEF State
<1>8. ASSUME b \notin manual, Probed(b) PROVE Probed(b)'
  <2>1. s = "HALF_OPEN" => breaker[b].half = 0
    BY <1>0, <1>6, <1>8 DEF Served, Probed, JustOpened
  <2> QED BY <1>3, <1>5, <1>8, <2>1 DEF Probed
<1>9. ASSUME NEW c \in Breaker \ manual
      PROVE  (Served(c) => Served(c)') /\ (Probed(c) => Probed(c)')
  <2>1. CASE c = b
    BY <1>7, <1>8, <1>9, <2>1
  <2>2. CASE c # b
    BY <1>3, <2>2 DEF Served, Probed, JustOpened, IsOpen
  <2> QED BY <2>1, <2>2
<1>10. ASSUME NEW q \in Sweep PROVE Marked(q)'
  <2>1. /\ Marked(q) /\ todo'[q] \subseteq todo[q] /\ target'[q] = target[q] /\ manual' = manual
        /\ pc'[q] = "open" => pc[q] = "open"
        /\ Writing(q)' => Writing(q)
    BY <1>2, <1>4 DEF AllMarked, Writing
  <2>2. target[q] \in Breaker
    BY <1>0
  <2> QED BY <1>5, <1>9, <2>1, <2>2 DEF Marked
<1> QED BY <1>10 DEF AllMarked

\* So do the other steps, whoever else is at work.
LEMMA MarkedStep ==
    ASSUME Typed, AllTasks, AllMarked, Cooldown > 0, [Next]_vars
    PROVE  AllMarked'
<1> USE DEF procVars, envVars
<1>0. /\ breaker \in [Breaker -> Row]
      /\ pc \in [Sweep -> {"idle", "work", "open", "close"}]
      /\ todo \in [Sweep -> SUBSET Todo]
      /\ target \in [Sweep -> Breaker]
  BY DEF Typed, TypeOK, Todo
<1>1. Watchdog \cap Recovery = {} /\ Watchdog \subseteq Sweep /\ Recovery \subseteq Sweep
  BY BreakerAssumption DEF Sweep
<1>2. ASSUME NEW p \in Sweep, Marked(p)', UNCHANGED <<breaker, manual>>, \A q \in Sweep \ {p} :
             pc'[q] = pc[q] /\ todo'[q] = todo[q] /\ target'[q] = target[q]
      PROVE  AllMarked'
  <2>1. ASSUME NEW q \in Sweep, q # p PROVE Marked(q)'
    BY <1>0, <1>2, <2>1, SameMarked DEF AllMarked
  <2> QED BY <1>2, <2>1 DEF AllMarked
<1>3. CASE UNCHANGED <<breaker, procVars, manual>>
  BY <1>0, <1>3, SameMarked DEF AllMarked
<1>4. ASSUME NEW b \in Breaker, NEW s \in State, OperatorSets(b, s) PROVE AllMarked'
  <2>1. /\ Set(b, s) /\ manual' = manual \cup {b} /\ UNCHANGED procVars
    BY <1>4 DEF OperatorSets
  <2>2. \A c \in Breaker \ manual' : breaker'[c] = breaker[c]
    BY <1>0, <2>1, SetType
  <2> QED BY <1>0, <2>1, <2>2, SameMarked DEF AllMarked
<1>5. CASE Tick
  <2>1. \A p \in Sweep : pc'[p] = "idle" /\ todo'[p] = {}
    BY <1>5 DEF Tick, AllTasks, Tasks
  <2> QED BY <2>1 DEF AllMarked, Marked, Writing
<1>6. ASSUME NEW w \in Watchdog, WatchdogReads(w) PROVE AllMarked'
  <2>1. /\ pc' = [pc EXCEPT ![w] = IF todo'[w] = {} THEN "idle" ELSE "work"]
        /\ \A q \in Sweep \ {w} : todo'[q] = todo[q]
        /\ UNCHANGED <<breaker, manual, target>>
    BY <1>0, <1>6 DEF WatchdogReads, Goto
  <2>2. pc'[w] \in {"idle", "work"}
    BY <1>0, <1>1, <2>1
  <2>3. Marked(w)'
    BY <1>1, <2>2 DEF Marked
  <2> QED BY <1>0, <1>1, <1>2, <2>1, <2>3
<1>7. ASSUME NEW w \in Watchdog, WatchdogTrips(w) PROVE AllMarked'
  <2>1. PICK t \in todo[w] :
             /\ todo' = [todo EXCEPT ![w] = @ \ {t}]
             /\ target' = [target EXCEPT ![w] = t[1]]
             /\ pc' = [pc EXCEPT ![w] = CASE ~IsOpen(t[1])                 -> "open"
                                          [] IsOpen(t[1]) /\ todo[w] = {t} -> "idle"
                                          [] OTHER                         -> "work"]
             /\ UNCHANGED <<breaker, manual>>
    BY <1>7 DEF WatchdogTrips, Goto
  <2>2. target'[w] = t[1] /\ (pc'[w] = "open" => ~IsOpen(t[1]))
    BY <1>0, <1>1, <2>1
  <2>3. Marked(w)'
    BY <1>1, <2>1, <2>2 DEF Marked, JustOpened, IsOpen
  <2> QED BY <1>0, <1>1, <1>2, <2>1, <2>3
<1>8. ASSUME NEW r \in Recovery, RecoverySnapshot(r) PROVE AllMarked'
  <2>1. /\ todo' = [todo EXCEPT ![r] = Due]
        /\ pc' = [pc EXCEPT ![r] = IF Due = {} THEN "idle" ELSE "work"]
        /\ UNCHANGED <<breaker, manual, target>>
    BY <1>8 DEF RecoverySnapshot, Goto
  <2>2. pc'[r] \in {"idle", "work"} /\ todo'[r] = Due
    BY <1>0, <1>1, <2>1
  <2>3. ASSUME NEW b \in Breaker
        PROVE  /\ <<b, "half_open">> \in Due => Served(b)
               /\ <<b, "probe">> \in Due => Probed(b)
    <3>1. breaker[b].opened \in 0..Cooldown /\ breaker[b].half \in 0..Probe
      BY <1>0 DEF Row
    <3>2. <<b, "half_open">> \in Due => IsOpen(b) /\ breaker[b].opened >= Cooldown
      BY DEF Due, IsOpen
    <3>3. <<b, "probe">> \in Due => breaker[b].state = "HALF_OPEN" /\ breaker[b].half >= Probe
      BY DEF Due
    <3>4. <<b, "half_open">> \in Due => Served(b)
      BY <3>1, <3>2, Constants DEF Served
    <3>5. <<b, "probe">> \in Due => Probed(b)
      BY <3>1, <3>3, Constants DEF Probed, JustOpened, IsOpen
    <3> QED BY <3>4, <3>5
  <2>4. Marked(r)'
    BY <2>1, <2>2, <2>3 DEF Marked, Served, Probed, JustOpened, IsOpen, Writing
  <2> QED BY <1>0, <1>1, <1>2, <2>1, <2>4
<1>9. ASSUME NEW r \in Recovery, RecoveryProbes(r) PROVE AllMarked'
  <2>1. PICK t \in todo[r] :
           /\ t[2] = "probe"
           /\ target' = [target EXCEPT ![r] = t[1]]
           /\ todo' = [todo EXCEPT ![r] = @ \ {t}]
           /\ \A q \in Sweep \ {r} : pc'[q] = pc[q]
           /\ UNCHANGED <<breaker, manual>>
    BY <1>0, <1>9 DEF RecoveryProbes, Goto
  <2>2. t[1] \in Breaker /\ <<t[1], "probe">> = t /\ t \in todo[r] /\ r \in Sweep
    BY <1>0, <1>1, <2>1 DEF Todo
  <2>3. todo'[r] \subseteq todo[r] /\ target'[r] = t[1]
    BY <1>0, <1>1, <2>1
  <2>4. Marked(r) /\ (t[1] \notin manual => Probed(t[1]))
    BY <1>9, <2>2 DEF AllMarked, Marked
  <2>5. \A c : (Served(c) <=> Served(c)') /\ (Probed(c) <=> Probed(c)')
    BY <2>1 DEF Served, Probed, JustOpened, IsOpen
  <2>6. Marked(r)'
    BY <2>1, <2>3, <2>4, <2>5 DEF Marked, Probed
  <2> QED BY <1>0, <1>1, <1>2, <2>1, <2>6
<1>10. ASSUME NEW p \in Sweep, SweepDies(p) PROVE AllMarked'
  <2>1. /\ pc' = [pc EXCEPT ![p] = "idle"] /\ todo' = [todo EXCEPT ![p] = {}]
        /\ UNCHANGED <<breaker, manual, target>>
    BY <1>10 DEF SweepDies, Goto
  <2>2. pc'[p] = "idle" /\ todo'[p] = {}
    BY <1>0, <2>1
  <2>3. Marked(p)'
    BY <2>2 DEF Marked, Writing
  <2> QED BY <1>0, <1>2, <2>1, <2>3
<1>11. ASSUME NEW k \in Kind, Publish(k) PROVE AllMarked'
  BY <1>3, <1>11 DEF Publish
<1>12. CASE UNCHANGED vars
  BY <1>3, <1>12 DEF vars
<1> QED BY <1>1, <1>4, <1>5, <1>6, <1>7, <1>8, <1>9, <1>10, <1>11, <1>12, MarkedWrites
        DEF Next, WatchdogStep, RecoveryStep

\* However many recovery sweeps overlap, a row that one of them has read has been
\* changed within the tick in few ways only.
LEMMA MarkedHold ==
    ASSUME Cooldown > 0
    PROVE  Spec => []AllMarked
<1>1. Init => AllMarked
  BY DEF Init, Quiet, AllMarked, Marked, Writing
<1>2. Typed /\ AllTasks /\ AllMarked /\ [Next]_vars => AllMarked'
  BY MarkedStep
<1> QED BY <1>1, <1>2, TypedHolds, TasksHold, PTL DEF Spec

-----------------------------------------------------------------------------
(* What a step may never do.                                               *)

\* Who moves a breaker that nobody touches by hand, and to which state.
LEMMA WhoMoves ==
    ASSUME Typed, [Next]_vars, NEW b \in Breaker,
           breaker'[b].state # breaker[b].state, b \notin manual'
    PROVE  /\ b \notin manual /\ ~Tick
           /\ \/ \E p \in Sweep : pc[p] = "open" /\ target[p] = b /\ breaker'[b].state = "OPEN"
              \/ \E r \in Recovery : pc[r] = "close" /\ pc'[r] # "close" /\ target[r] = b
                                     /\ breaker'[b].state = "CLOSED"
              \/ \E r \in Recovery : <<b, "half_open">> \in todo[r]
                                     /\ breaker'[b].state = "HALF_OPEN"
<1>0. /\ breaker \in [Breaker -> Row]
      /\ todo \in [Sweep -> SUBSET Todo]
      /\ target \in [Sweep -> Breaker]
      /\ pc \in [Sweep -> {"idle", "work", "open", "close"}]
  BY DEF Typed, TypeOK, Todo
<1>1. ASSUME NEW p \in Sweep, OpenWrites(p)
      PROVE  b \notin manual /\ pc[p] = "open" /\ target[p] = b /\ breaker'[b].state = "OPEN"
  <2>1. pc[p] = "open" /\ Set(target[p], "OPEN") /\ manual' = manual
    BY <1>1 DEF OpenWrites, Writes
  <2> QED BY <1>0, <2>1, SetType DEF State
<1>2. ASSUME NEW r \in Recovery, CloseWrites(r)
      PROVE  /\ b \notin manual /\ pc[r] = "close" /\ pc'[r] # "close" /\ target[r] = b
             /\ breaker'[b].state = "CLOSED"
  <2>1. pc[r] = "close" /\ Set(target[r], "CLOSED") /\ manual' = manual /\ r \in Sweep
    BY <1>2 DEF CloseWrites, Writes, Sweep
  <2>2. pc'[r] # "close"
    BY <1>0, <1>2, <2>1 DEF CloseWrites, Writes, Back, Goto
  <2> QED BY <1>0, <2>1, <2>2, SetType DEF State
<1>3. ASSUME NEW r \in Recovery, RecoveryHalfOpens(r)
      PROVE  b \notin manual /\ <<b, "half_open">> \in todo[r] /\ breaker'[b].state = "HALF_OPEN"
  <2>1. PICK t \in todo[r] : t[2] = "half_open" /\ Set(t[1], "HALF_OPEN")
    BY <1>3 DEF RecoveryHalfOpens
  <2>2. t[1] \in Breaker /\ t = <<t[1], "half_open">> /\ manual' = manual
    BY <1>0, <1>3, <2>1 DEF RecoveryHalfOpens, Sweep, Todo
  <2>3. b = t[1] /\ breaker'[b].state = "HALF_OPEN"
    BY <1>0, <2>1, <2>2, SetType DEF State
  <2> QED BY <2>2, <2>3
<1>4. ASSUME NEW c \in Breaker, NEW s \in State, OperatorSets(c, s) PROVE FALSE
  <2>1. Set(c, s) /\ manual' = manual \cup {c}
    BY <1>4 DEF OperatorSets
  <2> QED BY <1>0, <2>1, SetType
<1>5. ~Tick
  BY <1>0, TickType
<1>6. breaker' # breaker
  OBVIOUS
<1>7. \/ \E p \in Sweep : OpenWrites(p)
      \/ \E r \in Recovery : CloseWrites(r) \/ RecoveryHalfOpens(r)
      \/ \E c \in Breaker, s \in State : OperatorSets(c, s)
  BY <1>5, <1>6 DEF Next, WatchdogStep, RecoveryStep, WatchdogReads, WatchdogTrips,
                    RecoverySnapshot, RecoveryProbes, SweepDies, Publish, vars, Sweep
<1> QED BY <1>1, <1>2, <1>3, <1>4, <1>5, <1>7

\* A breaker goes on probation only after its cooldown, though half_open() writes
\* on the strength of an older snapshot: for any number of watchdogs that trip
\* it meanwhile, as long as cron runs one recovery sweep at a time.
THEOREM CooldownsServed ==
    ASSUME OneRecovery
    PROVE  Spec => CooldownServed
<1>1. ASSUME Typed, AllTasks, AllFresh, [Next]_vars
      PROVE  [\A b \in Breaker : Moves(b, "OPEN", "HALF_OPEN") => breaker[b].opened = Cooldown]_vars
  <2>1. ASSUME NEW b \in Breaker, Moves(b, "OPEN", "HALF_OPEN") PROVE breaker[b].opened = Cooldown
    <3>1. /\ b \notin manual
          /\ \E r \in Recovery : <<b, "half_open">> \in todo[r]
      BY <1>1, <2>1, WhoMoves DEF Moves
    <3> QED BY <1>1, <3>1 DEF AllFresh, Fresh, Sweep
  <2> QED BY <2>1
<1>2. Typed /\ AllTasks /\ AllFresh /\ [Next]_vars
      => [\A b \in Breaker : Moves(b, "OPEN", "HALF_OPEN") => breaker[b].opened = Cooldown]_vars
  BY <1>1
<1> QED BY <1>2, TypedHolds, TasksHold, FreshHold, PTL DEF Spec, CooldownServed

\* The watchdog trips an agent's breaker over failures that are enough when it
\* writes, and no recovery sweep trips one that is closed.
THEOREM TripsAreEarned ==
    ASSUME OneRecovery
    PROVE  Spec => TripsEarned
<1>1. ASSUME Typed, AllTasks, AllFresh, [Next]_vars
      PROVE  [\A k \in Key : Moves(k, "CLOSED", "OPEN") =>
                FailuresOf(k, Window) >= AgentErrors]_vars
  <2>1. ASSUME NEW k \in Key, Moves(k, "CLOSED", "OPEN")
        PROVE  FailuresOf(k, Window) >= AgentErrors
    <3>1. k \in Breaker
      BY DEF Breaker
    <3>2. k \notin manual /\ \E p \in Sweep : pc[p] = "open" /\ target[p] = k
      BY <1>1, <2>1, <3>1, WhoMoves DEF Moves
    <3>3. PICK p \in Sweep : pc[p] = "open" /\ target[p] = k
      BY <3>2
    <3>4. p \notin Recovery
      BY <1>1, <2>1, <3>1, <3>2, <3>3 DEF AllFresh, Fresh, Writing, Moves, IsOpen
    <3>5. p \in Watchdog
      BY <3>4 DEF Sweep
    <3> QED BY <1>1, <3>3, <3>5 DEF AllTasks, Tasks, Enough
  <2> QED BY <2>1
<1>2. Typed /\ AllTasks /\ AllFresh /\ [Next]_vars
      => [\A k \in Key : Moves(k, "CLOSED", "OPEN") => FailuresOf(k, Window) >= AgentErrors]_vars
  BY <1>1
<1> QED BY <1>2, TypedHolds, TasksHold, FreshHold, PTL DEF Spec, TripsEarned

\* The first half of what CooldownServed says, for recovery sweeps that overlap: a breaker
\* goes on probation after its cooldown, or else it was tripped in this very tick.
THEOREM CooldownsServedOrNew ==
    Spec => [][\A b \in Breaker : Moves(b, "OPEN", "HALF_OPEN") =>
                  breaker[b].opened \in {0, Cooldown}]_vars
<1> DEFINE Goal == [\A b \in Breaker : Moves(b, "OPEN", "HALF_OPEN") =>
                       breaker[b].opened \in {0, Cooldown}]_vars
<1>1. CASE Cooldown > 0
  <2>1. ASSUME Typed, AllMarked, [Next]_vars PROVE Goal
    <3>1. ASSUME NEW b \in Breaker, Moves(b, "OPEN", "HALF_OPEN")
          PROVE  breaker[b].opened \in {0, Cooldown}
      <4>1. /\ b \notin manual
            /\ \E r \in Recovery : <<b, "half_open">> \in todo[r]
        BY <2>1, <3>1, WhoMoves DEF Moves
      <4> QED BY <2>1, <4>1 DEF AllMarked, Marked, Served, Sweep
    <3> QED BY <3>1
  <2>2. Typed /\ AllMarked /\ [Next]_vars => Goal
    BY <2>1
  <2> QED BY <1>1, <2>2, TypedHolds, MarkedHold, PTL DEF Spec
<1>2. CASE ~(Cooldown > 0)
  <2>1. ASSUME Typed PROVE Goal
    <3>1. \A b \in Breaker : breaker[b].opened \in 0..Cooldown
      BY <2>1 DEF Typed, TypeOK, Row
    <3>2. Cooldown = 0
      BY <1>2, Constants
    <3> QED BY <3>1, <3>2
  <2>2. Typed => Goal
    BY <2>1
  <2> QED BY <2>2, TypedHolds, PTL DEF Spec
<1> QED BY <1>1, <1>2

\* What TripsEarned leaves for recovery sweeps that overlap: an agent's breaker is tripped
\* over enough failures of its own in the window, or over one that is younger than
\* the probe; never over none.
THEOREM TripsHaveFailures ==
    Spec => [][\A k \in Key : Moves(k, "CLOSED", "OPEN") =>
                  \/ FailuresOf(k, Window) >= AgentErrors
                  \/ \E age \in 0..Probe : events[k][age] > 0]_vars
<1>1. ASSUME Typed, AllTasks, [Next]_vars
      PROVE  [\A k \in Key : Moves(k, "CLOSED", "OPEN") =>
                \/ FailuresOf(k, Window) >= AgentErrors
                \/ \E age \in 0..Probe : events[k][age] > 0]_vars
  <2>1. ASSUME NEW k \in Key, Moves(k, "CLOSED", "OPEN")
        PROVE  \/ FailuresOf(k, Window) >= AgentErrors
               \/ \E age \in 0..Probe : events[k][age] > 0
    <3>1. k \in Breaker
      BY DEF Breaker
    <3>2. PICK p \in Sweep : pc[p] = "open" /\ target[p] = k
      BY <1>1, <2>1, <3>1, WhoMoves DEF Moves
    <3>3. Tasks(p)
      BY <1>1 DEF AllTasks
    <3>4. p \in Watchdog \/ p \in Recovery
      BY DEF Sweep
    <3> QED BY <2>1, <3>2, <3>3, <3>4 DEF Tasks, Enough, Failing
  <2> QED BY <2>1
<1>2. Typed /\ AllTasks /\ [Next]_vars
      => [\A k \in Key : Moves(k, "CLOSED", "OPEN") =>
            \/ FailuresOf(k, Window) >= AgentErrors
            \/ \E age \in 0..Probe : events[k][age] > 0]_vars
  BY <1>1
<1> QED BY <1>2, TypedHolds, TasksHold, PTL DEF Spec

\* A probation ends in CLOSED only after a full probe window, and by a sweep that
\* began when there was no failure of the breaker within it: for any number of
\* recovery sweeps at once, unless a breaker may be put on probation in the tick
\* in which it was tripped.
THEOREM ProbesAreClean ==
    ASSUME OneRecovery \/ Cooldown > 0
    PROVE  Spec => ProbeClean
<1> DEFINE Clean == [\A b \in Breaker : Moves(b, "HALF_OPEN", "CLOSED") =>
                       /\ breaker[b].half = Probe
                       /\ \E r \in Recovery : pc[r] = "close" /\ pc'[r] # "close"
                                              /\ target[r] = b /\ b \notin dirty[r]]_vars
           Full  == \A b \in Breaker, r \in Recovery :
                       /\ b \notin manual /\ breaker[b].state = "HALF_OPEN"
                       /\ pc[r] = "close" /\ target[r] = b
                       => breaker[b].half = Probe
<1>1. ASSUME Typed, AllTasks, Full, [Next]_vars PROVE Clean
  <2>1. ASSUME NEW b \in Breaker, Moves(b, "HALF_OPEN", "CLOSED")
        PROVE  /\ breaker[b].half = Probe
               /\ \E r \in Recovery : pc[r] = "close" /\ pc'[r] # "close"
                                      /\ target[r] = b /\ b \notin dirty[r]
    <3>1. b \notin manual /\ \E r \in Recovery : pc[r] = "close" /\ pc'[r] # "close" /\ target[r] = b
      BY <1>1, <2>1, WhoMoves DEF Moves
    <3>2. PICK r \in Recovery : pc[r] = "close" /\ pc'[r] # "close" /\ target[r] = b
      BY <3>1
    <3> QED BY <1>1, <2>1, <3>1, <3>2 DEF AllTasks, Tasks, Sweep, Moves
  <2> QED BY <2>1
<1>2. Typed /\ AllTasks /\ Full /\ [Next]_vars => Clean
  BY <1>1
<1>3. AllFresh => Full
  BY DEF AllFresh, Fresh, Writing, IsOpen, Sweep
<1>4. AllMarked => Full
  BY DEF AllMarked, Marked, Probed, Writing, Sweep
<1>5. CASE OneRecovery
  BY <1>2, <1>3, <1>5, TypedHolds, TasksHold, FreshHold, PTL DEF Spec, ProbeClean
<1>6. CASE Cooldown > 0
  BY <1>2, <1>4, <1>6, TypedHolds, TasksHold, MarkedHold, PTL DEF Spec, ProbeClean
<1> QED BY <1>5, <1>6

-----------------------------------------------------------------------------
(* Admission: the claims beside the breakers.                              *)

AgentLabel  == {"idle", "gate", "write", "work", "completed", "failed"}
ClientLabel == {"idle", "gate", "write", "create"}

\* The types AdmissionTypeOK lists, and where each process stands.
Types ==
    /\ breaker \in [Breaker -> Row]
    /\ run \in {"none", "RUNNING", "COMPLETED", "FAILED"}
    /\ task \in [Task -> {"none", "PENDING", "ASSIGNED", "DONE", "FAILED"}]
    /\ asked \in [Caller -> 0..2] /\ asked[Client] < 2
    /\ rows \in [Agent -> SUBSET Task]
    /\ hand \in [Agent -> Task \cup {NoTask}]
    /\ ended \subseteq Agent \X Breaker
    /\ at \in [Caller -> AgentLabel \cup ClientLabel]
    /\ \A w \in Agent : at[w] \in AgentLabel
    /\ \A w \in Agent : at[w] # "idle" => hand[w] \in Task
    /\ at[Client] \in ClientLabel

\* The tasks are created once, before anybody can claim one.
Started ==
    /\ at[Client] \in {"gate", "write"} => run = "none"
    /\ at[Client] = "create" => run # "none"
    /\ run = "none" \/ at[Client] = "create" => \A t \in Task : task[t] = "none"

\* Who works on a task holds it alone.
Alone ==
    /\ \A w \in Agent : at[w] = "work" => task[hand[w]] = "ASSIGNED"
    /\ \A v, w \in Agent : at[v] = "work" /\ at[w] = "work" /\ hand[v] = hand[w] => v = w

\* An agent that has ended a task under a breaker is stopped by it: every
\* breaker the agent has asked since, and every one if it has got through the
\* gate, was released in between.
Stopped ==
    /\ \A x \in ended : IsOpen(x[2])
    /\ \A w \in Agent :
         /\ at[w] # "gate" => asked[w] = 0
         /\ asked[w] >= 1 \/ at[w] \in {"write", "work"} => <<w, Global>> \notin ended
         /\ asked[w] >= 2 \/ at[w] \in {"write", "work"} => <<w, Flow>> \notin ended
         /\ at[w] \in {"write", "work"} => <<w, w>> \notin ended

Admitted == Types /\ Started /\ Alone /\ Stopped

-----------------------------------------------------------------------------
(* The gate.                                                               *)

\* The client asks two breakers, an agent its own as the third.
LEMMA GateOrder ==
    /\ Asks(Client) = <<Global, Flow>> /\ Len(Asks(Client)) = 2
    /\ \A w \in Agent : /\ Client # w
                        /\ Asks(w)[1] = Global /\ Asks(w)[2] = Flow /\ Asks(w)[3] = w
                        /\ Len(Asks(w)) = 3
    /\ {Global, Flow} \cup Agent \subseteq Breaker
BY AdmissionAssumption DEF Asks, Breaker

\* Who is admitted by a breaker asks the next or is through.
LEMMA AdmittedMoves ==
    ASSUME Types, NEW p \in Caller, GateAdmits(p)
    PROVE  /\ asked[p] < 3 /\ (p = Client => asked[p] < 2)
           /\ \/ /\ at' = [at EXCEPT ![p] = "write"] /\ asked' = [asked EXCEPT ![p] = 0]
                 /\ asked[p] = IF p = Client THEN 1 ELSE 2
              \/ /\ at' = [at EXCEPT ![p] = "gate"]
                 /\ asked' = [asked EXCEPT ![p] = @ + 1]
                 /\ asked[p] < IF p = Client THEN 1 ELSE 2
           /\ ~IsOpen(Asks(p)[asked[p] + 1])
<1>1. asked[p] \in 0..2 /\ (p = Client => asked[p] < 2)
  BY DEF Types
<1>2. Len(Asks(p)) = IF p = Client THEN 2 ELSE 3
  BY GateOrder DEF Caller
<1> DEFINE through == asked[p] + 1 = Len(Asks(p))
<1>3. /\ asked' = [asked EXCEPT ![p] = IF through THEN 0 ELSE @ + 1]
      /\ at' = [at EXCEPT ![p] = IF through THEN "write" ELSE "gate"]
      /\ ~IsOpen(Asks(p)[asked[p] + 1])
  BY DEF GateAdmits, To
<1>4. through <=> asked[p] = IF p = Client THEN 1 ELSE 2
  BY <1>1, <1>2
<1>5. ~through => asked[p] < IF p = Client THEN 1 ELSE 2
  BY <1>1, <1>2
<1> HIDE DEF through
<1>6. CASE through
  BY <1>1, <1>3, <1>4, <1>6
<1>7. CASE ~through
  BY <1>1, <1>3, <1>5, <1>7
<1> QED BY <1>6, <1>7

\* A write of the registry leaves rows of breakers behind.
LEMMA SetRow ==
    ASSUME breaker \in [Breaker -> Row], NEW b, NEW s \in State, Set(b, s)
    PROVE  breaker' \in [Breaker -> Row]
<1>1. /\ Cooldown \in Nat /\ Probe \in Nat
  BY BreakerAssumption
<1>2. CASE b \in Breaker
  <2>1. /\ breaker[b].opened \in 0..Cooldown /\ breaker[b].half \in 0..Probe
    BY <1>2 DEF Row
  <2>2. [state  |-> s, opened |-> IF s = "OPEN" THEN 0 ELSE breaker[b].opened,
         half   |-> IF s = "HALF_OPEN" THEN 0 ELSE breaker[b].half] \in Row
    BY <1>1, <2>1 DEF Row
  <2> QED BY <2>2 DEF Set
<1>3. CASE b \notin Breaker
  BY <1>3 DEF Set
<1> QED BY <1>2, <1>3

\* So do the sweeps and the passing of time.
LEMMA CronRow ==
    ASSUME breaker \in [Breaker -> Row], CronStep
    PROVE  breaker' \in [Breaker -> Row]
<1>1. ASSUME NEW w \in Watchdog, WatchdogStep(w) PROVE breaker' \in [Breaker -> Row]
  <2>1. CASE OpenWrites(w)
    BY <2>1, SetRow DEF OpenWrites, Writes, State
  <2>2. CASE WatchdogReads(w) \/ WatchdogTrips(w)
    BY <2>2 DEF WatchdogReads, WatchdogTrips
  <2> QED BY <1>1, <2>1, <2>2 DEF WatchdogStep
<1>2. ASSUME NEW r \in Recovery, RecoveryStep(r) PROVE breaker' \in [Breaker -> Row]
  <2>1. CASE OpenWrites(r) \/ CloseWrites(r)
    BY <2>1, SetRow DEF OpenWrites, CloseWrites, Writes, State
  <2>2. CASE RecoverySnapshot(r) \/ RecoveryProbes(r)
    BY <2>2 DEF RecoverySnapshot, RecoveryProbes
  <2>3. CASE RecoveryHalfOpens(r)
    BY <2>3, SetRow DEF RecoveryHalfOpens, State
  <2> QED BY <1>2, <2>1, <2>2, <2>3 DEF RecoveryStep
<1>3. ASSUME Tick PROVE breaker' \in [Breaker -> Row]
  <2>1. Cooldown \in Nat /\ Probe \in Nat
    BY BreakerAssumption
  <2>2. ASSUME NEW r \in Row
        PROVE  [r EXCEPT !.opened = Older(@, Cooldown), !.half = Older(@, Probe)] \in Row
    <3>1. Older(r.opened, Cooldown) \in 0..Cooldown /\ Older(r.half, Probe) \in 0..Probe
      BY <2>1 DEF Older, Row
    <3> QED BY <3>1 DEF Row
  <2>3. breaker' = [b \in Breaker |-> [breaker[b] EXCEPT !.opened = Older(@, Cooldown),
                                                         !.half = Older(@, Probe)]]
    BY <1>3 DEF Tick
  <2> QED BY <2>2, <2>3
<1> QED BY <1>1, <1>2, <1>3 DEF CronStep

-----------------------------------------------------------------------------
(* The invariant is inductive, one part after the other.                   *)

\* No step leaves the types.
LEMMA TypesStep ==
    ASSUME Types, [AdmissionNext]_allVars
    PROVE  Types'
<1> USE DEF AgentLabel, ClientLabel
<1>1. /\ Client \in Caller /\ Agent \subseteq Caller /\ \A w \in Agent : w # Client
  BY AdmissionAssumption DEF Caller
<1>2. ASSUME GateAdmits(Client) PROVE Types'
  <2>1. UNCHANGED <<breaker, run, task, rows, hand, ended>>
    BY <1>2 DEF GateAdmits, vars
  <2> QED BY <1>1, <1>2, <2>1, AdmittedMoves DEF Types
<1>3. ASSUME StartRefused \/ StartRun \/ InsertRun PROVE Types'
  BY <1>1, <1>3 DEF StartRefused, StartRun, InsertRun, To, Types, vars
<1>4. ASSUME CreateTasks PROVE Types'
  BY <1>1, <1>4 DEF CreateTasks, To, Types, vars
<1>5. ASSUME NEW w \in Agent, AgentStep(w) PROVE Types'
  <2>1. CASE GateAdmits(w)
    <3>1. UNCHANGED <<breaker, run, task, rows, hand, ended>> /\ hand[w] \in Task
      BY <2>1 DEF GateAdmits, vars, Types
    <3> QED BY <1>1, <2>1, <3>1, AdmittedMoves DEF Types
  <2>2. ASSUME NEW left \in SUBSET Task, Tries(w, left),
               UNCHANGED <<breaker, run, task, ended>>,
               asked' = asked \/ asked' = [asked EXCEPT ![w] = 0]
        PROVE  Types'
    BY <1>1, <2>2 DEF Tries, To, Types
  <2>3. CASE ClaimNext(w)
    BY <2>2, <2>3 DEF ClaimNext, Pending, vars
  <2>4. CASE ClaimRefused(w)
    BY <2>2, <2>4 DEF ClaimRefused, Types, vars
  <2>5. CASE ClaimLoses(w)
    BY <2>2, <2>5 DEF ClaimLoses, Types, vars
  <2>6. CASE ClaimWins(w)
    BY <1>1, <2>6 DEF ClaimWins, To, Types, vars
  <2>7. ASSUME NEW status \in {"DONE", "FAILED"}, NEW label \in {"completed", "failed"},
               Ends(w, status), To(w, label)
        PROVE  Types'
    <3>1. ended' \subseteq Agent \X Breaker
      BY <2>7, GateOrder DEF Ends, Types
    <3> QED BY <1>1, <2>7, <3>1 DEF Ends, To, Types, vars
  <2>8. CASE PublishAndAdvance(w)
    BY <1>1, <2>8 DEF PublishAndAdvance, Advanced, To, Types, breakerVars
  <2> QED BY <1>5, <2>1, <2>3, <2>4, <2>5, <2>6, <2>7, <2>8 DEF AgentStep, Completes, Fails
<1>6. ASSUME Beside(CronStep) PROVE Types'
  BY <1>6, CronRow DEF Beside, Types, engineVars
<1>7. ASSUME UNCHANGED allVars PROVE Types'
  BY <1>7 DEF allVars, vars, engineVars, Types
<1> QED BY <1>2, <1>3, <1>4, <1>5, <1>6, <1>7 DEF AdmissionNext, ClientStep

\* The tasks are created once.
LEMMA StartedStep ==
    ASSUME Types, Started, Alone, [AdmissionNext]_allVars
    PROVE  Started'
<1>1. /\ Client \in Caller /\ Agent \subseteq Caller /\ \A w \in Agent : w # Client
  BY AdmissionAssumption DEF Caller
<1>2. ASSUME ClientStep PROVE Started'
  <2>1. CASE GateAdmits(Client)
    BY <1>1, <2>1, AdmittedMoves DEF GateAdmits, Types, Started
  <2>2. CASE StartRefused \/ StartRun
    BY <1>1, <2>2 DEF StartRefused, StartRun, To, Types, Started
  <2>3. CASE InsertRun
    BY <1>1, <2>3 DEF InsertRun, To, Types, Started
  <2>4. CASE CreateTasks
    BY <1>1, <2>4 DEF CreateTasks, To, Types, Started
  <2> QED BY <1>2, <2>1, <2>2, <2>3, <2>4 DEF ClientStep
<1>3. ASSUME NEW w \in Agent, AgentStep(w) PROVE Started'
  <2>1. at'[Client] = at[Client]
    <3>1. \E label : To(w, label)
      BY <1>3 DEF AgentStep, GateAdmits, ClaimNext, ClaimRefused, ClaimWins, ClaimLoses, Tries,
         Completes, Fails, PublishAndAdvance
    <3> QED BY <1>1, <3>1 DEF To, Types
  <2>2. run' = "none" <=> run = "none"
    <3>1. run' = run \/ (PublishAndAdvance(w) /\ run' = Advanced)
      BY <1>3 DEF AgentStep, GateAdmits, ClaimNext, ClaimRefused, ClaimWins, ClaimLoses,
         Completes, Fails, Ends, PublishAndAdvance
    <3>2. CASE run # "RUNNING"
      BY <3>1, <3>2 DEF Advanced
    <3>3. CASE run = "RUNNING"
      BY <3>1, <3>3 DEF Advanced
    <3> QED BY <3>2, <3>3
  <2>3. ASSUME run = "none" \/ at[Client] = "create" PROVE task' = task
    <3>1. /\ \A t \in Task : task[t] = "none"
          /\ at[w] # "work" /\ (at[w] = "write" => hand[w] \notin Pending)
      BY <2>3 DEF Started, Alone, Types, Pending
    <3>2. ~ClaimWins(w) /\ ~Completes(w) /\ ~Fails(w)
      BY <3>1 DEF ClaimWins, Completes, Fails, Ends
    <3> QED
      BY <1>3, <3>2 DEF AgentStep, GateAdmits, ClaimNext, ClaimRefused, ClaimLoses,
         PublishAndAdvance
  <2> QED BY <2>1, <2>2, <2>3 DEF Started
<1>4. ASSUME Beside(CronStep) \/ UNCHANGED allVars PROVE Started'
  BY <1>4 DEF Beside, Started, allVars, engineVars
<1> QED BY <1>2, <1>3, <1>4 DEF AdmissionNext

\* A claim is won on a PENDING row only, and the row of a task that somebody
\* works on is ASSIGNED.
LEMMA AloneStep ==
    ASSUME Types, Started, Alone, [AdmissionNext]_allVars
    PROVE  Alone'
<1>1. /\ Client \in Caller /\ Agent \subseteq Caller /\ \A w \in Agent : w # Client
  BY AdmissionAssumption DEF Caller
<1>2. ASSUME ClientStep PROVE Alone'
  <2>1. \E label : at' = [at EXCEPT ![Client] = label]
    BY <1>2, AdmittedMoves, <1>1 DEF ClientStep, GateAdmits, StartRefused, StartRun, InsertRun,
       CreateTasks, To
  <2>2. \A w \in Agent : at'[w] = at[w]
    BY <1>1, <2>1 DEF Types
  <2>3. hand' = hand
    BY <1>2 DEF ClientStep, GateAdmits, StartRefused, StartRun, InsertRun, CreateTasks
  <2>4. task' = task \/ \A w \in Agent : at[w] # "work"
    <3>1. CASE CreateTasks
      BY <3>1 DEF CreateTasks, Started, Alone, Types
    <3>2. CASE ~CreateTasks
      BY <1>2, <3>2 DEF ClientStep, GateAdmits, StartRefused, StartRun, InsertRun
    <3> QED BY <3>1, <3>2
  <2> QED BY <2>2, <2>3, <2>4 DEF Alone
<1>3. ASSUME NEW w \in Agent, AgentStep(w) PROVE Alone'
  <2>1. CASE ClaimWins(w)
    <3>1. /\ at' = [at EXCEPT ![w] = "work"] /\ hand' = hand
          /\ hand[w] \in Task /\ task[hand[w]] = "PENDING"
          /\ task' = [task EXCEPT ![hand[w]] = "ASSIGNED"]
      BY <2>1 DEF ClaimWins, To, Pending
    <3>2. \A v \in Agent \ {w} : at[v] = "work" => hand[v] # hand[w]
      BY <3>1 DEF Alone
    <3> QED BY <1>1, <3>1, <3>2 DEF Alone, Types
  <2>2. ASSUME NEW status, NEW label, label # "work", Ends(w, status), To(w, label)
        PROVE  Alone'
    <3>1. /\ at' = [at EXCEPT ![w] = label] /\ hand' = hand /\ at[w] = "work"
          /\ task' = [task EXCEPT ![hand[w]] = status]
      BY <2>2 DEF Ends, To
    <3>2. \A v \in Agent \ {w} : at[v] = "work" => hand[v] # hand[w]
      BY <3>1 DEF Alone
    <3>3. \A v \in Agent : at'[v] = "work" => v # w /\ at[v] = "work"
      BY <1>1, <2>2, <3>1 DEF Types
    <3> QED BY <1>1, <3>1, <3>2, <3>3 DEF Alone, Types
  <2>3. ASSUME task' = task, NEW label, label # "work", at' = [at EXCEPT ![w] = label],
               NEW t, hand' = hand \/ hand' = [hand EXCEPT ![w] = t]
        PROVE  Alone'
    <3>1. \A v \in Agent : at'[v] = "work" => v # w /\ at[v] = "work"
      BY <1>1, <2>3 DEF Types
    <3>2. \A v \in Agent \ {w} : hand'[v] = hand[v]
      BY <2>3 DEF Types
    <3> QED BY <2>3, <3>1, <3>2 DEF Alone
  <2>4. CASE GateAdmits(w)
    BY <1>1, <2>3, <2>4, AdmittedMoves DEF GateAdmits
  <2>5. CASE ClaimNext(w) \/ ClaimRefused(w) \/ ClaimLoses(w)
    BY <2>3, <2>5 DEF ClaimNext, ClaimRefused, ClaimLoses, Tries, To
  <2>6. CASE PublishAndAdvance(w)
    BY <2>3, <2>6 DEF PublishAndAdvance, To
  <2> QED BY <1>3, <2>1, <2>2, <2>4, <2>5, <2>6 DEF AgentStep, Completes, Fails
<1>4. ASSUME Beside(CronStep) \/ UNCHANGED allVars PROVE Alone'
  BY <1>4 DEF Beside, Alone, allVars, engineVars
<1> QED BY <1>2, <1>3, <1>4 DEF AdmissionNext

\* Each breaker an agent asks was released since the agent ended a task under
\* it, or the gate would not have let the agent pass.
LEMMA StoppedStep ==
    ASSUME Types, Stopped, [AdmissionNext]_allVars
    PROVE  Stopped'
<1>1. /\ Client \in Caller /\ Agent \subseteq Caller /\ \A w \in Agent : w # Client
  BY AdmissionAssumption DEF Caller
<1>2. ASSUME ClientStep PROVE Stopped'
  <2>1. UNCHANGED <<breaker, ended>>
    BY <1>2 DEF ClientStep, GateAdmits, StartRefused, StartRun, InsertRun, CreateTasks, vars
  <2>2. \E label : at' = [at EXCEPT ![Client] = label]
    BY <1>2, AdmittedMoves, <1>1 DEF ClientStep, GateAdmits, StartRefused, StartRun, InsertRun,
       CreateTasks, To
  <2>3. asked' = asked \/ \E n : asked' = [asked EXCEPT ![Client] = n]
    BY <1>2, AdmittedMoves, <1>1 DEF ClientStep, StartRefused, StartRun, InsertRun, CreateTasks
  <2>4. \A w \in Agent : at'[w] = at[w] /\ asked'[w] = asked[w]
    BY <1>1, <2>2, <2>3 DEF Types
  <2> QED BY <2>1, <2>4 DEF Stopped, IsOpen
<1>3. ASSUME NEW w \in Agent, AgentStep(w) PROVE Stopped'
  <2>1. breaker' = breaker
    BY <1>3 DEF AgentStep, GateAdmits, ClaimNext, ClaimRefused, ClaimWins, ClaimLoses, Completes,
       Fails, Ends, PublishAndAdvance, vars, breakerVars
  <2>2. /\ \E label : at' = [at EXCEPT ![w] = label]
        /\ asked' = asked \/ \E n : asked' = [asked EXCEPT ![w] = n]
    <3>1. CASE GateAdmits(w)
      BY <3>1, AdmittedMoves, <1>1
    <3>2. CASE ~GateAdmits(w)
      BY <1>3, <3>2 DEF AgentStep, ClaimNext, ClaimRefused, ClaimWins, ClaimLoses, Tries, Completes,
         Fails, Ends, PublishAndAdvance, To
    <3> QED BY <3>1, <3>2
  <2>3. \A v \in Agent \ {w} : at'[v] = at[v] /\ asked'[v] = asked[v]
    BY <1>1, <2>2 DEF Types
  <2> DEFINE Held(v) ==
        /\ at[v] # "gate" => asked[v] = 0
        /\ asked[v] >= 1 \/ at[v] \in {"write", "work"} => <<v, Global>> \notin ended
        /\ asked[v] >= 2 \/ at[v] \in {"write", "work"} => <<v, Flow>> \notin ended
        /\ at[v] \in {"write", "work"} => <<v, v>> \notin ended
  <2>4. /\ ended' = ended
        /\ Held(w)'
        => Stopped'
    BY <2>1, <2>3 DEF Stopped, IsOpen
  <2>5. CASE GateAdmits(w)
    <3>1. ended' = ended
      BY <2>5 DEF GateAdmits
    <3>2. asked[w] \in 0..2 /\ Held(w)
      BY <1>1 DEF Types, Stopped
    <3>3. /\ asked[w] = 0 => <<w, Global>> \notin ended
          /\ asked[w] = 1 => <<w, Flow>> \notin ended
          /\ asked[w] = 2 => <<w, w>> \notin ended
      <4>1. ~IsOpen(Asks(w)[asked[w] + 1])
        BY <1>1, <2>5, AdmittedMoves
      <4>2. \A b : <<w, b>> \in ended => IsOpen(b)
        BY DEF Stopped
      <4> QED BY <4>1, <4>2, GateOrder
    <3>4. \/ at'[w] = "write" /\ asked'[w] = 0 /\ asked[w] = 2
          \/ at'[w] = "gate" /\ asked'[w] = asked[w] + 1 /\ asked[w] < 2
      BY <1>1, <2>5, AdmittedMoves DEF Types
    <3>5. Held(w)'
      BY <3>1, <3>2, <3>3, <3>4
    <3> QED BY <2>4, <3>1, <3>5
  <2>6. CASE ClaimNext(w) \/ ClaimRefused(w) \/ ClaimLoses(w)
    <3>1. ended' = ended /\ at'[w] \in {"idle", "gate"}
      BY <1>1, <2>6 DEF ClaimNext, ClaimRefused, ClaimLoses, Tries, To, Types
    <3>2. asked'[w] = 0
      BY <1>1, <2>6 DEF ClaimNext, ClaimRefused, ClaimLoses, Types, Stopped
    <3> QED BY <2>4, <3>1, <3>2
  <2>7. CASE ClaimWins(w)
    <3>1. ended' = ended /\ at[w] = "write" /\ at'[w] = "work" /\ asked' = asked
      BY <1>1, <2>7 DEF ClaimWins, To, Types
    <3>2. Held(w) /\ asked[w] = 0
      BY <3>1 DEF Stopped
    <3> QED BY <2>4, <3>1, <3>2
  <2>8. CASE Completes(w) \/ Fails(w)
    <3>1. /\ ended' = ended \cup ({w} \X { b \in {Global, Flow, w} : IsOpen(b) })
          /\ at[w] = "work" /\ at'[w] \in {"completed", "failed"} /\ asked' = asked
      BY <1>1, <2>8 DEF Completes, Fails, Ends, To, Types
    <3>2. asked'[w] = 0
      BY <3>1 DEF Stopped
    <3>3. \A x \in ended' : IsOpen(x[2])'
      BY <2>1, <3>1 DEF Stopped, IsOpen
    <3>4. \A v \in Agent \ {w} : \A b : <<v, b>> \in ended' => <<v, b>> \in ended
      BY <3>1
    <3> QED BY <2>3, <3>1, <3>2, <3>3, <3>4 DEF Stopped
  <2>9. CASE PublishAndAdvance(w)
    <3>1. ended' = ended /\ asked' = asked /\ at[w] \in {"completed", "failed"} /\ at'[w] = "idle"
      BY <1>1, <2>9 DEF PublishAndAdvance, To, Types
    <3>2. asked'[w] = 0
      BY <3>1 DEF Stopped
    <3> QED BY <2>4, <3>1, <3>2
  <2> QED BY <1>3, <2>5, <2>6, <2>7, <2>8, <2>9 DEF AgentStep
<1>4. ASSUME Beside(CronStep) PROVE Stopped'
  <2>1. ended' \subseteq ended /\ \A x \in ended' : breaker'[x[2]].state = "OPEN"
    BY <1>4 DEF Beside
  <2>2. UNCHANGED <<at, asked>>
    BY <1>4 DEF Beside, engineVars
  <2> QED BY <2>1, <2>2 DEF Stopped, IsOpen
<1>5. ASSUME UNCHANGED allVars PROVE Stopped'
  BY <1>5 DEF allVars, vars, engineVars, Stopped, IsOpen
<1> QED BY <1>2, <1>3, <1>4, <1>5 DEF AdmissionNext

-----------------------------------------------------------------------------
(* The theorems.                                                           *)

\* At first nobody works, and no breaker has stopped anybody.
LEMMA InitAdmitted == AdmissionInit => Admitted
<1> SUFFICES ASSUME AdmissionInit PROVE Admitted
  OBVIOUS
<1>1. \A s \in State : [state |-> s, opened |-> 0, half |-> Probe] \in Row
  BY BreakerAssumption DEF Row
<1>2. NoRow \in Row
  BY BreakerAssumption DEF NoRow, Row, State
<1>3. breaker \in [Breaker -> Row]
  BY <1>1, <1>2 DEF AdmissionInit, State
<1>4. Types
  BY <1>3 DEF AdmissionInit, Types, AgentLabel, ClientLabel, Caller
<1>5. Started /\ Alone /\ Stopped
  BY DEF AdmissionInit, Started, Alone, Stopped, Caller
<1> QED BY <1>4, <1>5 DEF Admitted

\* The inductive invariant holds.
LEMMA AdmittedHolds == AdmissionSpec => []Admitted
<1>1. ASSUME Admitted, [AdmissionNext]_allVars PROVE Admitted'
  BY <1>1, TypesStep, StartedStep, AloneStep, StoppedStep DEF Admitted
<1> QED BY <1>1, InitAdmitted, PTL DEF AdmissionSpec

\* The types of the closed loop, and the claim's promise: whatever the order of
\* asking breakers, claiming and failing, no two agents work on one task, and
\* the row of a task somebody works on is ASSIGNED (engine.py: claim_task).
THEOREM AdmissionTyped == AdmissionSpec => []AdmissionTypeOK
<1>1. Admitted => AdmissionTypeOK
  BY DEF Admitted, Types, Alone, AdmissionTypeOK
<1> QED BY <1>1, AdmittedHolds, PTL

\* An agent that has ended a task under an OPEN breaker, be it the global one,
\* the workflow's or its own, claims no other until that breaker is released,
\* although the gate and the UPDATE of the claim are separate steps.
THEOREM TripsStopAgents == AdmissionSpec => TripStopsAgents
<1> DEFINE Passed(w) == at[w] = "write" /\ at'[w] = "work" =>
                          \A b \in {Global, Flow, w} : IsOpen(b) => <<w, b>> \notin ended
<1>1. Admitted => [\A w \in Agent : Passed(w)]_allVars
  BY DEF Admitted, Stopped
<1> QED BY <1>1, AdmittedHolds, PTL DEF TripStopsAgents

=============================================================================
