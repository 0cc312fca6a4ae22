------------------------------ MODULE Council ------------------------------
(***************************************************************************)
(* CouncilService (council/service.py): reviews of one subject, asked for  *)
(* by several threads of one process that share a service.  The process    *)
(* may crash and be started again; council_sessions stays.                 *)
(*                                                                         *)
(* Granularity.  The cache lookup, each write of the session row, the read *)
(* of the cooldowns at the start of a stage and their update at its end    *)
(* are steps; the members' answers arrive in between, in any order or not  *)
(* at all.  A call that is queued for a pool thread and one that is        *)
(* running are both `pending`: the deadline treats them alike, and so the  *)
(* size of the pool is no constant of the model.                           *)
(***************************************************************************)
EXTENDS Gates, Sequences

CONSTANTS
    Jury,          \* the members, the policy and the evidence: see module Gates
    Thread,        \* callers of review()
    MinQuorum,     \* min_quorum
    PeerEval,      \* does this request go through stage 2?
    MaxAttempts,   \* _MAX_ATTEMPTS_PER_COOLDOWN
    Replies,       \* the valid reviews a member may give
    PeerScores,    \* the overall scores an evaluator may give
    MaxReviews,    \* BOUND on the sessions ever created
    MaxFaults      \* BOUND on exceptions and crashes

Member == DOMAIN Jury.weight

ASSUME CouncilAssumption ==
    /\ ValidJury(Jury)
    /\ MinQuorum \in 1..Cardinality(Member)
    /\ PeerEval \in BOOLEAN
    /\ MaxAttempts \in Nat \ {0}
    /\ Replies \subseteq Review(Jury) /\ PeerScores \subseteq Score(Jury)
    /\ MaxReviews \in Nat /\ MaxFaults \in Nat

VARIABLES
    sessions,   \* council_sessions, by order of creation
    failures,   \* _failures: of each member attempts, and is the window over?
    pc,         \* what each thread does next
    sid,        \* the session a thread works on
    late,       \* has the deadline of the thread's review passed?
    call,       \* the state of each member's call in the present stage
    reviews,    \* the valid reviews of stage 1, by member
    peers,      \* the valid evaluations of stage 2, by evaluator
    full,       \* did every call of the review succeed so far?
    told,       \* history: what the caller of each session was given
    served,     \* history: the sessions served from the cache
    basis,      \* history: the grounds of each verdict (see Grounds)
    faults      \* how many of the MaxFaults faults have happened

locals  == <<sid, late, call, reviews, peers, full>>
history == <<told, served, basis>>
vars    == <<sessions, failures, pc, locals, history, faults>>

Id       == 1..Len(sessions)
Decision == {"APPROVE", "REWORK", "REJECT"}
Outcome  == {"invalid_output", "error"}   \* "error": provider_error or timeout
Nothing  == <<>>   \* no review, no evaluation: a function with an empty domain

Silent(state) == [is |-> state, says |-> Nothing]
NoCall        == [m \in Member |-> Silent("none")]

Init ==
    /\ sessions = <<>>
    /\ failures = [m \in Member |-> [attempts |-> 0, over |-> FALSE]]
    /\ pc = [t \in Thread |-> "idle"]
    /\ sid = [t \in Thread |-> 0]
    /\ late = [t \in Thread |-> FALSE]
    /\ call = [t \in Thread |-> NoCall]
    /\ reviews = [t \in Thread |-> Nothing]
    /\ peers = [t \in Thread |-> Nothing]
    /\ full = [t \in Thread |-> TRUE]
    /\ told = <<>>
    /\ served = {}
    /\ basis = <<>>
    /\ faults = 0

Fault          == faults < MaxFaults /\ faults' = faults + 1
Goto(t, label) == pc' = [pc EXCEPT ![t] = label]
Stages         == {"stage1", "wait1", "stage2", "wait2"}

\* The locals of a call of review() that is over.
Forget(t) ==
    /\ sid' = [sid EXCEPT ![t] = 0]
    /\ late' = [late EXCEPT ![t] = FALSE]
    /\ call' = [call EXCEPT ![t] = NoCall]
    /\ reviews' = [reviews EXCEPT ![t] = Nothing]
    /\ peers' = [peers EXCEPT ![t] = Nothing]
    /\ full' = [full EXCEPT ![t] = TRUE]

\* History: did every member answer validly in every stage, was that a quorum, and
\* do those who approve weigh enough?
Grounds(t) ==
    LET approving == { m \in DOMAIN reviews[t] : reviews[t][m].approves }
    IN  [everybody |-> DOMAIN reviews[t] = Member /\ (PeerEval => DOMAIN peers[t] = Member),
         quorum    |-> Cardinality(DOMAIN reviews[t]) >= MinQuorum,
         agreement |-> 100 * WeightOf(Jury, approving)
                         >= Jury.agreement * WeightOf(Jury, DOMAIN reviews[t])]

NoGrounds == [everybody |-> FALSE, quorum |-> FALSE, agreement |-> FALSE]

-----------------------------------------------------------------------------
(* review(): the cache and the session row.                                *)

\* Bug: a session that was degraded is served, too.
CacheableAnyVerdict(i) == sessions[i].status \in {"DONE", "DEGRADED"}

Cacheable(i) == sessions[i].status = "DONE"

\* The newest cacheable session, unless it is older than the cache's ttl.
Cached == { i \in Id : /\ Cacheable(i) /\ ~sessions[i].old
                       /\ \A j \in Id : Cacheable(j) => j <= i }

CacheHit(t) ==
    /\ pc[t] = "idle"
    /\ Cached # {}
    /\ served' = served \cup Cached
    /\ UNCHANGED <<sessions, failures, pc, locals, told, basis, faults>>

CacheMiss(t) ==
    /\ pc[t] = "idle"
    /\ Cached = {}
    /\ Goto(t, "insert")
    /\ UNCHANGED <<sessions, failures, locals, history, faults>>

\* Bug: a review that is under way is joined, to pay for the council only once.
SaveSessionJoining(t) ==
    LET open == { i \in Id : sessions[i].status = "RUNNING" }
    IN  /\ pc[t] = "insert"
        /\ Len(sessions) < MaxReviews
        /\ IF open # {} THEN UNCHANGED <<sessions, told, basis>>
           ELSE /\ sessions' = Append(sessions, [status |-> "RUNNING", decision |-> "none",
                                                 old |-> FALSE])
                /\ told' = Append(told, "nothing")
                /\ basis' = Append(basis, NoGrounds)
        /\ sid' = [sid EXCEPT ![t] = IF open # {} THEN CHOOSE i \in open : TRUE
                                     ELSE Len(sessions) + 1]
        /\ Goto(t, "stage1")
        /\ UNCHANGED <<failures, late, call, reviews, peers, full, served, faults>>

\* _save_session: the RUNNING row; the deadline starts to run.
SaveSession(t) ==
    /\ pc[t] = "insert"
    /\ Len(sessions) < MaxReviews
    /\ sessions' = Append(sessions, [status |-> "RUNNING", decision |-> "none", old |-> FALSE])
    /\ told' = Append(told, "nothing")
    /\ basis' = Append(basis, NoGrounds)
    /\ sid' = [sid EXCEPT ![t] = Len(sessions) + 1]
    /\ Goto(t, "stage1")
    /\ UNCHANGED <<failures, late, call, reviews, peers, full, served, faults>>

-----------------------------------------------------------------------------
(* A stage: the active members are asked in parallel until the deadline.   *)

\* _is_in_cooldown
InCooldown(m) == failures[m].attempts >= MaxAttempts /\ ~failures[m].over

\* An entry whose window is over is deleted when it is looked at.
StageBegins(t) ==
    /\ pc[t] \in {"stage1", "stage2"}
    /\ call' = [call EXCEPT ![t] = [m \in Member |->
                    Silent(IF InCooldown(m) THEN "cooldown" ELSE "pending")]]
    /\ failures' = [m \in Member |-> IF failures[m].over
                                     THEN [attempts |-> 0, over |-> FALSE] ELSE failures[m]]
    /\ Goto(t, IF pc[t] = "stage1" THEN "wait1" ELSE "wait2")
    /\ UNCHANGED <<sessions, sid, late, reviews, peers, full, history, faults>>

\* A member's worker ends: its answer is valid or invalid (twice, in stage 1), or
\* the provider failed or gave up at the deadline.
Answers(t, m) ==
    /\ call[t][m].is = "pending"
    /\ \/ \E o \in Outcome : call' = [call EXCEPT ![t][m] = Silent(o)]
       \/ /\ pc[t] = "wait1"
          /\ \E r \in Replies : call' = [call EXCEPT ![t][m] = [is |-> "valid", says |-> r]]
       \/ /\ pc[t] = "wait2"
          /\ \E e \in [DOMAIN reviews[t] -> PeerScores] :
                call' = [call EXCEPT ![t][m] = [is |-> "valid", says |-> e]]
    /\ UNCHANGED <<sessions, failures, pc, sid, late, reviews, peers, full, history, faults>>

DeadlinePasses(t) ==
    /\ pc[t] \in Stages /\ ~late[t]
    /\ late' = [late EXCEPT ![t] = TRUE]
    /\ UNCHANGED <<sessions, failures, pc, sid, call, reviews, peers, full, history, faults>>

Valid(t)  == { m \in Member : call[t][m].is = "valid" }

\* Bug: a success forgets the attempts and not when the first of them was.
RecordedAttemptsOnly(t, m) ==
    LET f == failures[m]
    IN  CASE call[t][m].is \in {"valid", "invalid_output"} -> [f EXCEPT !.attempts = 0]
          [] call[t][m].is = "cooldown"                    -> f
          [] OTHER -> [f EXCEPT !.attempts = IF @ < MaxAttempts THEN @ + 1 ELSE MaxAttempts]

\* _record_failure, _record_success: what the stage does to _failures.
Recorded(t, m) ==
    LET f == failures[m]
    IN  CASE call[t][m].is \in {"valid", "invalid_output"} -> [attempts |-> 0, over |-> FALSE]
          [] call[t][m].is = "cooldown"                    -> f
          [] OTHER -> [attempts |-> IF f.over THEN 1
                                    ELSE IF f.attempts < MaxAttempts THEN f.attempts + 1
                                         ELSE MaxAttempts,
                       over     |-> FALSE]

\* Bug: the pool is left only when every worker has ended.
StageIsOverWhenAll(t) == \A m \in Member : call[t][m].is # "pending"

\* futures_wait: everybody has answered, or the deadline has passed.
StageIsOver(t) == late[t] \/ \A m \in Member : call[t][m].is # "pending"

\* Bug: the quorum is of the members asked, not of the valid reviews.
IsQuorateAsked(t, rs) == Cardinality({ m \in Member : call[t][m].is # "cooldown" }) >= MinQuorum

IsQuorate(t, rs) == Cardinality(DOMAIN rs) >= MinQuorum

\* The outcome of every call of the review, so far, is a success.
StaysFull(t) == full[t] /\ Valid(t) = Member

\* Whoever is pending is a timeout from now on; its answer will be thrown away.
StageEnds(t) ==
    /\ pc[t] \in {"wait1", "wait2"}
    /\ StageIsOver(t)
    /\ failures' = [m \in Member |-> Recorded(t, m)]
    /\ full' = [full EXCEPT ![t] = StaysFull(t)]
    /\ call' = [call EXCEPT ![t] = NoCall]
    /\ LET new == [m \in Valid(t) |-> call[t][m].says]
       IN  IF pc[t] = "wait1"
           THEN /\ reviews' = [reviews EXCEPT ![t] = new]
                /\ UNCHANGED peers
                /\ Goto(t, IF PeerEval /\ IsQuorate(t, new) THEN "stage2" ELSE "finalize")
           ELSE /\ peers' = [peers EXCEPT ![t] = new]
                /\ UNCHANGED reviews
                /\ Goto(t, "finalize")
    /\ UNCHANGED <<sessions, sid, late, history, faults>>

-----------------------------------------------------------------------------
(* The verdict, and how a review ends.                                     *)

Decided(t) == IF IsQuorate(t, reviews[t]) THEN Verdict(Jury, reviews[t], peers[t]) ELSE "REWORK"

\* _finalize: the persist hook's exceptions are swallowed, the row is written.
FinalizeAs(t, verdict) ==
    /\ pc[t] = "finalize"
    /\ sessions' = [sessions EXCEPT ![sid[t]].status = IF full[t] THEN "DONE" ELSE "DEGRADED",
                                    ![sid[t]].decision = verdict]
    /\ basis' = [basis EXCEPT ![sid[t]] = Grounds(t)]
    /\ Goto(t, "emit")
    /\ UNCHANGED <<failures, locals, told, served, faults>>

Finalize(t) == FinalizeAs(t, Decided(t))

\* council.decision is published, and the caller has its decision.
ReturnsAs(t, verdict) ==
    /\ pc[t] = "emit"
    /\ told' = [told EXCEPT ![sid[t]] = verdict]
    /\ Forget(t)
    /\ Goto(t, "idle")
    /\ UNCHANGED <<sessions, failures, served, basis, faults>>

Returns(t) == ReturnsAs(t, Decided(t))

\* Anything raises inside _review_uncached, an interrupt included.
Raises(t) ==
    /\ Fault
    /\ pc[t] \in Stages \cup {"finalize", "emit"}
    /\ Goto(t, "mark")
    /\ UNCHANGED <<sessions, failures, locals, history>>

\* _mark_session_failed, and the exception goes on to the caller.
MarkSessionFailed(t) ==
    /\ pc[t] = "mark"
    /\ sessions' = [sessions EXCEPT ![sid[t]].status = "FAILED"]
    /\ told' = [told EXCEPT ![sid[t]] = "raised"]
    /\ Forget(t)
    /\ Goto(t, "idle")
    /\ UNCHANGED <<failures, served, basis, faults>>

\* It is best-effort: the row stays as it is when the UPDATE fails.
MarkRaises(t) ==
    /\ pc[t] = "mark"
    /\ told' = [told EXCEPT ![sid[t]] = "raised"]
    /\ Forget(t)
    /\ Goto(t, "idle")
    /\ UNCHANGED <<sessions, failures, served, basis, faults>>

\* The process dies with all its threads, and a new service starts.
Crash ==
    /\ Fault
    /\ \E t \in Thread : pc[t] # "idle"
    /\ failures' = [m \in Member |-> [attempts |-> 0, over |-> FALSE]]
    /\ pc' = [t \in Thread |-> "idle"]
    /\ sid' = [t \in Thread |-> 0]
    /\ late' = [t \in Thread |-> FALSE]
    /\ call' = [t \in Thread |-> NoCall]
    /\ reviews' = [t \in Thread |-> Nothing]
    /\ peers' = [t \in Thread |-> Nothing]
    /\ full' = [t \in Thread |-> TRUE]
    /\ UNCHANGED <<sessions, history>>

-----------------------------------------------------------------------------
(* Time.                                                                   *)

\* The 15 minutes since first_fail are over.
WindowEnds(m) ==
    /\ failures[m].attempts > 0 /\ ~failures[m].over
    /\ failures' = [failures EXCEPT ![m].over = TRUE]
    /\ UNCHANGED <<sessions, pc, locals, history, faults>>

\* A session, and with it every older one, passes the cache's ttl.
SessionAges(i) ==
    /\ ~sessions[i].old
    /\ sessions' = [j \in Id |-> IF j <= i THEN [sessions[j] EXCEPT !.old = TRUE] ELSE sessions[j]]
    /\ UNCHANGED <<failures, pc, locals, history, faults>>

-----------------------------------------------------------------------------
(* The specification.                                                      *)

ReviewStep(t) ==
    \/ CacheHit(t) \/ CacheMiss(t) \/ SaveSession(t)
    \/ StageBegins(t) \/ DeadlinePasses(t) \/ StageEnds(t)
    \/ Finalize(t) \/ Returns(t) \/ MarkSessionFailed(t)

Next ==
    \/ \E t \in Thread : \/ ReviewStep(t) \/ Raises(t) \/ MarkRaises(t)
                         \/ \E m \in Member : Answers(t, m)
    \/ Crash
    \/ \E m \in Member : WindowEnds(m)
    \/ \E i \in Id : SessionAges(i)

Spec == Init /\ [][Next]_vars

\* A thread inside review() goes on, whatever its verdict, and time passes: nothing
\* is asked of the members' providers.
Fairness ==
    \A t \in Thread :
        WF_vars(\/ StageBegins(t) \/ StageEnds(t) \/ MarkSessionFailed(t) \/ DeadlinePasses(t)
                \/ \E verdict \in Decision : FinalizeAs(t, verdict) \/ ReturnsAs(t, verdict))

FairSpec == Spec /\ Fairness

-----------------------------------------------------------------------------
(* Properties.                                                             *)

\* Every variable has the shape the code gives it; no member's attempts pass the limit.
TypeOK ==
    /\ sessions \in Seq([status : {"RUNNING", "DONE", "DEGRADED", "FAILED"},
                         decision : Decision \cup {"none"}, old : BOOLEAN])
    /\ failures \in [Member -> [attempts : 0..MaxAttempts, over : BOOLEAN]]
    /\ \A m \in Member : failures[m].over => failures[m].attempts > 0
    /\ \A t \in Thread :
          /\ pc[t] \in Stages \cup {"idle", "insert", "finalize", "emit", "mark"}
          /\ pc[t] \in {"idle", "insert"} <=> sid[t] = 0
          /\ sid[t] \in Id \cup {0}
          /\ late[t] \in BOOLEAN /\ full[t] \in BOOLEAN
          /\ \A m \in Member : call[t][m].is \in Outcome \cup {"none", "pending", "cooldown", "valid"}
          /\ DOMAIN reviews[t] \subseteq Member /\ DOMAIN peers[t] \subseteq Member
          /\ \A m \in DOMAIN reviews[t] : reviews[t][m] \in Review(Jury)
          /\ \A e \in DOMAIN peers[t] : peers[t][e] \in [DOMAIN reviews[t] -> Score(Jury)]
    /\ DOMAIN told = Id /\ DOMAIN basis = Id /\ served \subseteq Id
    /\ faults \in 0..MaxFaults

\* What the caller of a review was told is what the row of its session says, and
\* goes on saying whatever later reviews of the subject do or suffer.
CallerSeesRow ==
    \A i \in Id : told[i] \in Decision =>
        sessions[i].decision = told[i] /\ sessions[i].status \in {"DONE", "DEGRADED"}

\* A verdict is served again from the cache only if every member's call succeeded
\* in every stage of its review: no verdict of a council with members missing, in
\* cooldown or late is ever reused.
CachedIsFull ==
    \A i \in served : basis[i].everybody

\* A verdict other than REWORK rests on the valid reviews of a quorum, and an
\* APPROVE on the approval of enough of their weight, however many members failed.
QuorumDecides ==
    \A i \in Id :
        /\ sessions[i].decision \in {"APPROVE", "REJECT"} => basis[i].quorum
        /\ sessions[i].decision = "APPROVE" => basis[i].agreement

\* The verdicts, from worst to best, of reviews of which there are enough.
Rank(v) == CASE v = "REJECT" -> 0 [] v = "REWORK" -> 1 [] v = "APPROVE" -> 2

Judging(t) == pc[t] = "finalize" /\ IsQuorate(t, reviews[t])

NoWorse(d, s, than) == IF d \in Jury.lower THEN s <= than ELSE s >= than

\* A better review never makes the verdict worse: neither a better score in any
\* dimension, in that dimension's direction, nor an approval, nor a peer's higher
\* score.
Monotone ==
    \A t \in Thread : Judging(t) =>
        LET now == Rank(Verdict(Jury, reviews[t], peers[t]))
        IN  \A m \in DOMAIN reviews[t] :
              /\ \A d \in Dim(Jury), s \in Score(Jury) :
                    NoWorse(d, s, reviews[t][m].scores[d]) =>
                        Rank(Verdict(Jury, [reviews[t] EXCEPT ![m].scores[d] = s], peers[t])) >= now
              /\ Rank(Verdict(Jury, [reviews[t] EXCEPT ![m].approves = TRUE], peers[t])) >= now
              /\ \A e \in DOMAIN peers[t], s \in Score(Jury) :
                    s >= peers[t][e][m] =>
                        Rank(Verdict(Jury, reviews[t], [peers[t] EXCEPT ![e][m] = s])) >= now

\* In a dimension for which the host has evidence no member's own score changes the
\* verdict, and no member changes it by what it says of its own review in stage 2.
OwnWordIsNothing ==
    \A t \in Thread : Judging(t) =>
        LET now == Verdict(Jury, reviews[t], peers[t])
        IN  \A m \in DOMAIN reviews[t], s \in Score(Jury) :
              /\ \A d \in DOMAIN Jury.evidence :
                    Verdict(Jury, [reviews[t] EXCEPT ![m].scores[d] = s], peers[t]) = now
              /\ m \in DOMAIN peers[t] =>
                    Verdict(Jury, reviews[t], [peers[t] EXCEPT ![m][m] = s]) = now

\* A review that was begun ends, though no provider ever answers.
ReviewEnds ==
    \A t \in Thread : pc[t] \notin {"idle", "insert"} ~> pc[t] = "idle"

\* What is left of the sessions when threads and members are forgotten.
RowOf(i)   == IF i \in Id THEN sessions[i] ELSE [status |-> "none", decision |-> "none"]
StatusOf   == [i \in 1..MaxReviews |-> RowOf(i).status]
DecisionOf == [i \in 1..MaxReviews |-> RowOf(i).decision]
HeardOf    == [i \in 1..MaxReviews |-> IF i \in Id THEN told[i] ELSE "nothing"]
Answered   == { i \in Id : basis[i].everybody }
Live       == { sid[t] : t \in Thread } \ {0}

Ledger == INSTANCE Sessions WITH
    Session <- 1..MaxReviews, Verdicts <- Decision,
    status <- StatusOf, verdict <- DecisionOf, heard <- HeardOf,
    whole <- Answered, live <- Live, replayed <- served

\* Whatever threads, providers and deadlines do, and whatever raises or dies, a
\* session is decided at most once, its caller is told once, and no two callers
\* wait for one row: every behaviour is one of Sessions.
ImplementsSessions == Ledger!Spec
=============================================================================
