--------------------------- MODULE CouncilProofs ---------------------------
(***************************************************************************)
(* Proofs about Council, for any members, weights and policy, any number   *)
(* of threads that share the service, any replies, sessions and faults.    *)
(***************************************************************************)
EXTENDS Council, GatesProofs, SequenceTheorems

-----------------------------------------------------------------------------
(* Types.                                                                  *)

Row    == [status : {"RUNNING", "DONE", "DEGRADED", "FAILED"},
           decision : Decision \cup {"none"}, old : BOOLEAN]
Told   == Decision \cup {"nothing", "raised"}
Basis  == [everybody : BOOLEAN, quorum : BOOLEAN, agreement : BOOLEAN]
Label  == Stages \cup {"idle", "insert", "finalize", "emit", "mark"}

\* The reviews, or the evaluations, of some of the members.
Given(S) == UNION { [D -> S] : D \in SUBSET Member }
Opinion  == Given(Score(Jury))
Call     == [is : Outcome \cup {"none", "pending", "cooldown", "valid"},
             says : {Nothing} \cup Review(Jury) \cup Opinion]

Shapes ==
    /\ sessions \in Seq(Row) /\ told \in Seq(Told) /\ basis \in Seq(Basis)
    /\ Len(told) = Len(sessions) /\ Len(basis) = Len(sessions)
    /\ served \subseteq Id
    /\ failures \in [Member -> [attempts : 0..MaxAttempts, over : BOOLEAN]]
    /\ \A m \in Member : failures[m].over => failures[m].attempts > 0
    /\ pc \in [Thread -> Label]
    /\ sid \in [Thread -> Id \cup {0}]
    /\ late \in [Thread -> BOOLEAN] /\ full \in [Thread -> BOOLEAN]
    /\ call \in [Thread -> [Member -> Call]]
    /\ reviews \in [Thread -> Given(Review(Jury))]
    /\ peers \in [Thread -> Given(Opinion)]
    /\ faults \in 0..MaxFaults

\* What a thread remembers at each point of a review.
Local(t) ==
    /\ pc[t] \in {"idle", "insert"} <=> sid[t] = 0
    /\ pc[t] \in {"idle", "insert", "stage1", "wait1"} => reviews[t] = Nothing
    /\ pc[t] \in {"idle", "insert"} \cup Stages => peers[t] = Nothing
    /\ \A e \in DOMAIN peers[t] : peers[t][e] \in [DOMAIN reviews[t] -> Score(Jury)]
    /\ \A m \in Member : call[t][m].is = "valid" =>
          /\ pc[t] = "wait1" => call[t][m].says \in Review(Jury)
          /\ pc[t] = "wait2" => call[t][m].says \in [DOMAIN reviews[t] -> Score(Jury)]

\* No reviews at all are the reviews of no members.
LEMMA NothingGiven ==
    /\ DOMAIN Nothing = {}
    /\ \A S : Nothing \in Given(S)
<1>1. DOMAIN Nothing = {}
  BY DEF Nothing
<1>2. ASSUME NEW S PROVE Nothing \in [{} -> S]
  BY DEF Nothing
<1> QED BY <1>1, <1>2 DEF Given

\* A function from some of the members is what they gave,
LEMMA GivenIs ==
    ASSUME NEW S, NEW D, D \subseteq Member, NEW f \in [D -> S]
    PROVE  f \in Given(S) /\ DOMAIN f = D
BY DEF Given

\* and what was given is such a function.
LEMMA GivenHas ==
    ASSUME NEW S, NEW f \in Given(S)
    PROVE  DOMAIN f \subseteq Member /\ f \in [DOMAIN f -> S]
BY DEF Given

\* What the history records of a verdict, and the verdict, have their types.
LEMMA GroundsType == ASSUME NEW t \in Thread PROVE Grounds(t) \in Basis /\ NoGrounds \in Basis
BY DEF NoGrounds, Grounds, Basis

\* A review ends with one of the three verdicts.
LEMMA DecidedType == ASSUME NEW t \in Thread PROVE Decided(t) \in Decision
<1>1. \A r, p : Verdict(Jury, r, p) \in Decision
  BY DEF Verdict, Decision
<1> QED BY <1>1 DEF Decided, Decision

\* A row that is marked FAILED.
LEMMA RowMarked ==
    ASSUME sessions \in Seq(Row), NEW k \in Id
    PROVE  [sessions EXCEPT ![k].status = "FAILED"] =
           [sessions EXCEPT ![k] = [status |-> "FAILED", decision |-> sessions[k].decision,
                                    old |-> sessions[k].old]]
<1>1. sessions \in [Id -> Row]
  BY LenProperties DEF Id
<1>2. [sessions[k] EXCEPT !.status = "FAILED"]
      = [status |-> "FAILED", decision |-> sessions[k].decision, old |-> sessions[k].old]
  BY <1>1 DEF Row
<1> QED BY <1>2

\* Writing an entry of a sequence leaves the others alone.
LEMMA EntryWritten ==
    ASSUME NEW S, NEW s \in Seq(S), NEW k \in 1..Len(s), NEW e \in S,
           NEW z, z = [s EXCEPT ![k] = e]
    PROVE  /\ z \in Seq(S) /\ Len(z) = Len(s)
           /\ z[k] = e /\ \A i \in 1..Len(s) : i # k => z[i] = s[i]
BY ExceptSeq

\* What each action that writes rows or history does to them.
LEMMA SaveEffect ==
    ASSUME Shapes, NEW t \in Thread, SaveSession(t)
    PROVE  /\ sessions' \in Seq(Row) /\ told' \in Seq(Told) /\ basis' \in Seq(Basis)
           /\ Len(sessions') = Len(sessions) + 1
           /\ Len(told') = Len(sessions') /\ Len(basis') = Len(sessions')
           /\ Len(sessions) \in Nat
           /\ \A i \in Id : /\ sessions'[i] = sessions[i] /\ told'[i] = told[i]
                            /\ basis'[i] = basis[i]
           /\ sessions'[Len(sessions) + 1]
                  = [status |-> "RUNNING", decision |-> "none", old |-> FALSE]
           /\ told'[Len(sessions) + 1] = "nothing"
           /\ sid' = [sid EXCEPT ![t] = Len(sessions) + 1]
           /\ pc' = [pc EXCEPT ![t] = "stage1"]
<1> DEFINE row == [status |-> "RUNNING", decision |-> "none", old |-> FALSE]
<1>1. row \in Row /\ "nothing" \in Told /\ NoGrounds \in Basis
  BY DEF Row, Told, NoGrounds, Basis
<1>2. /\ sessions' = Append(sessions, row) /\ told' = Append(told, "nothing")
      /\ basis' = Append(basis, NoGrounds)
      /\ sid' = [sid EXCEPT ![t] = Len(sessions) + 1]
      /\ pc' = [pc EXCEPT ![t] = "stage1"]
  BY DEF SaveSession, Goto
<1>3. /\ sessions \in Seq(Row) /\ told \in Seq(Told) /\ basis \in Seq(Basis)
      /\ Len(told) = Len(sessions) /\ Len(basis) = Len(sessions)
  BY DEF Shapes
<1> HIDE DEF row
<1>4. \A S : \A s \in Seq(S), e \in S :
         /\ Append(s, e) \in Seq(S) /\ Len(s) \in Nat /\ Len(Append(s, e)) = Len(s) + 1
         /\ \A i \in 1..Len(s) : Append(s, e)[i] = s[i]
         /\ Append(s, e)[Len(s) + 1] = e
  OBVIOUS
<1>5. /\ sessions' \in Seq(Row) /\ Len(sessions') = Len(sessions) + 1 /\ Len(sessions) \in Nat
      /\ (\A i \in Id : sessions'[i] = sessions[i])
      /\ sessions'[Len(sessions) + 1] = row
  BY <1>1, <1>2, <1>3, <1>4 DEF Id
<1>6. /\ told' \in Seq(Told) /\ Len(told') = Len(sessions) + 1
      /\ (\A i \in Id : told'[i] = told[i])
      /\ told'[Len(sessions) + 1] = "nothing"
  BY <1>1, <1>2, <1>3, <1>4 DEF Id
<1>7. /\ basis' \in Seq(Basis) /\ Len(basis') = Len(sessions) + 1
      /\ \A i \in Id : basis'[i] = basis[i]
  BY <1>1, <1>2, <1>3, <1>4 DEF Id
<1> QED BY <1>2, <1>5, <1>6, <1>7 DEF row

\* What _finalize leaves: the row of its session with the verdict, every other as it is.
LEMMA FinalizeEffect ==
    ASSUME Shapes, NEW t \in Thread, Local(t), Finalize(t)
    PROVE  /\ sid[t] \in Id /\ pc[t] = "finalize" /\ pc' = [pc EXCEPT ![t] = "emit"]
           /\ sessions' \in Seq(Row) /\ Len(sessions') = Len(sessions)
           /\ basis' \in Seq(Basis) /\ Len(basis') = Len(sessions)
           /\ sessions'[sid[t]] = [status   |-> IF full[t] THEN "DONE" ELSE "DEGRADED",
                                   decision |-> Decided(t), old |-> sessions[sid[t]].old]
           /\ basis'[sid[t]] = Grounds(t)
           /\ \A i \in Id : i # sid[t] => sessions'[i] = sessions[i] /\ basis'[i] = basis[i]
           /\ UNCHANGED <<failures, sid, late, call, reviews, peers, full, told, served, faults>>
<1> DEFINE k == sid[t]
           a == IF full[t] THEN "DONE" ELSE "DEGRADED"
           v == Decided(t)
           row == [status |-> a, decision |-> v, old |-> sessions[k].old]
<1>1. pc[t] = "finalize" /\ pc' = [pc EXCEPT ![t] = "emit"]
      /\ sessions' = [sessions EXCEPT ![k].status = a, ![k].decision = v]
      /\ basis' = [basis EXCEPT ![k] = Grounds(t)]
      /\ UNCHANGED <<failures, sid, late, call, reviews, peers, full, told, served, faults>>
  BY DEF Finalize, FinalizeAs, Goto, locals
<1>2. k \in Id /\ sessions \in Seq(Row) /\ basis \in Seq(Basis) /\ Len(basis) = Len(sessions)
  BY <1>1 DEF Shapes, Local
<1>3. v \in Decision /\ Grounds(t) \in Basis /\ a \in {"DONE", "DEGRADED", "FAILED"}
  BY DecidedType, GroundsType
<1> HIDE DEF k, a, v
<1>4. sessions' = [sessions EXCEPT ![k] = row]
  <2>1. sessions \in [Id -> Row] /\ sessions[k] \in Row
    BY <1>2, LenProperties DEF Id
  <2> DEFINE q == [sessions[k] EXCEPT !.status = a]
  <2>2. q = [status |-> a, decision |-> sessions[k].decision, old |-> sessions[k].old]
    BY <2>1 DEF Row
  <2> HIDE DEF q
  <2>3. [q EXCEPT !.decision = v] = row
    BY <2>2
  <2>4. [sessions EXCEPT ![k].status = a, ![k].decision = v]
        = [sessions EXCEPT ![k] = [q EXCEPT !.decision = v]]
    BY <2>1 DEF q
  <2> QED BY <1>1, <2>3, <2>4
<1>5. row \in Row
  <2>1. sessions[k] \in Row
    BY <1>2, ElementOfSeq DEF Id
  <2> QED BY <1>3, <2>1 DEF Row
<1> HIDE DEF row
<1>6. /\ sessions' \in Seq(Row) /\ Len(sessions') = Len(sessions) /\ sessions'[k] = row
      /\ \A i \in Id : i # k => sessions'[i] = sessions[i]
  BY <1>2, <1>4, <1>5, EntryWritten DEF Id
<1>7. /\ basis' \in Seq(Basis) /\ Len(basis') = Len(sessions) /\ basis'[k] = Grounds(t)
      /\ \A i \in Id : i # k => basis'[i] = basis[i]
  BY <1>1, <1>2, <1>3, EntryWritten DEF Id
<1> QED BY <1>1, <1>2, <1>6, <1>7 DEF k, a, v, row

\* How a review ends: the caller is told, the locals are forgotten, and the row
\* is as it was or FAILED.
LEMMA EndEffect ==
    ASSUME Shapes, NEW t \in Thread, Local(t),
           Returns(t) \/ MarkSessionFailed(t) \/ MarkRaises(t)
    PROVE  /\ sid[t] \in Id /\ pc[t] \in {"emit", "mark"} /\ pc' = [pc EXCEPT ![t] = "idle"]
           /\ sessions' \in Seq(Row) /\ Len(sessions') = Len(sessions)
           /\ told' \in Seq(Told) /\ Len(told') = Len(sessions)
           /\ pc[t] = "emit" => told'[sid[t]] = Decided(t) /\ sessions' = sessions
           /\ pc[t] = "mark" => told'[sid[t]] = "raised"
           /\ \/ sessions' = sessions
              \/ sessions'[sid[t]] = [status |-> "FAILED", decision |-> sessions[sid[t]].decision,
                                      old |-> sessions[sid[t]].old]
           /\ \A i \in Id : i # sid[t] => sessions'[i] = sessions[i] /\ told'[i] = told[i]
           /\ Forget(t)
           /\ UNCHANGED <<failures, served, basis, faults>>
<1> DEFINE k == sid[t]
           word == IF pc[t] = "emit" THEN Decided(t) ELSE "raised"
           row  == [status |-> "FAILED", decision |-> sessions[k].decision,
                    old |-> sessions[k].old]
<1>1. /\ pc[t] \in {"emit", "mark"} /\ pc' = [pc EXCEPT ![t] = "idle"]
      /\ told' = [told EXCEPT ![k] = word]
      /\ \/ sessions' = sessions
         \/ pc[t] = "mark" /\ sessions' = [sessions EXCEPT ![k].status = "FAILED"]
      /\ Forget(t)
      /\ UNCHANGED <<failures, served, basis, faults>>
  BY DEF Returns, ReturnsAs, MarkSessionFailed, MarkRaises, Goto
<1>2. k \in Id /\ sessions \in Seq(Row) /\ told \in Seq(Told) /\ Len(told) = Len(sessions)
  BY <1>1 DEF Shapes, Local
<1>3. word \in Told
  BY DecidedType DEF Told
<1>4. row \in Row
  <2>1. sessions[k] \in Row
    BY <1>2, ElementOfSeq DEF Id
  <2> QED BY <2>1 DEF Row
<1> HIDE DEF k
<1>5. sessions' = sessions \/ (pc[t] = "mark" /\ sessions' = [sessions EXCEPT ![k] = row])
  <2>1. [sessions EXCEPT ![k].status = "FAILED"] = [sessions EXCEPT ![k] = row]
    BY <1>2, RowMarked
  <2> QED BY <1>1, <2>1
<1> HIDE DEF row, word
<1>6. /\ sessions' \in Seq(Row) /\ Len(sessions') = Len(sessions)
      /\ sessions' = sessions \/ (pc[t] = "mark" /\ sessions'[k] = row)
      /\ \A i \in Id : i # k => sessions'[i] = sessions[i]
  <2>1. CASE sessions' = sessions
    BY <1>2, <2>1
  <2>2. CASE pc[t] = "mark" /\ sessions' = [sessions EXCEPT ![k] = row]
    BY <1>2, <1>4, <2>2, EntryWritten DEF Id
  <2> QED BY <1>5, <2>1, <2>2
<1>7. /\ told' \in Seq(Told) /\ Len(told') = Len(sessions) /\ told'[k] = word
      /\ \A i \in Id : i # k => told'[i] = told[i]
  BY <1>1, <1>2, <1>3, EntryWritten DEF Id
<1> QED BY <1>1, <1>2, <1>6, <1>7 DEF k, row, word

\* Ageing leaves statuses and verdicts alone.
LEMMA AgesEffect ==
    ASSUME Shapes, NEW k \in Id, SessionAges(k)
    PROVE  /\ sessions' \in Seq(Row) /\ Len(sessions') = Len(sessions)
           /\ \A i \in Id : sessions'[i].status = sessions[i].status
                         /\ sessions'[i].decision = sessions[i].decision
           /\ UNCHANGED <<failures, pc, locals, history, faults>>
<1>1. sessions \in [Id -> Row] /\ Len(sessions) \in Nat
  BY LenProperties DEF Shapes, Id
<1>2. sessions' = [j \in Id |-> IF j <= k THEN [sessions[j] EXCEPT !.old = TRUE] ELSE sessions[j]]
  BY DEF SessionAges
<1>3. \A r \in Row : /\ [r EXCEPT !.old = TRUE] \in Row
                     /\ [r EXCEPT !.old = TRUE].status = r.status
                     /\ [r EXCEPT !.old = TRUE].decision = r.decision
  BY DEF Row
<1>4. \A i \in Id : /\ sessions'[i] \in Row
                    /\ sessions'[i].status = sessions[i].status
                    /\ sessions'[i].decision = sessions[i].decision
  BY <1>1, <1>2, <1>3
<1>5. sessions' \in [1..Len(sessions) -> Row]
  BY <1>2, <1>4 DEF Id
<1>6. sessions' \in Seq(Row) /\ Len(sessions') = Len(sessions)
  <2>1. sessions' \in Seq(Row)
    BY <1>1, <1>5, SeqDef
  <2>2. Len(sessions') \in Nat /\ DOMAIN sessions' = 1..Len(sessions')
    BY <2>1, LenProperties
  <2>3. DOMAIN sessions' = 1..Len(sessions)
    BY <1>5
  <2> QED BY <1>1, <2>1, <2>2, <2>3
<1> QED BY <1>4, <1>6 DEF SessionAges

\* The values the model's constants allow.
LEMMA Constants ==
    /\ MaxAttempts \in Nat \ {0} /\ MaxFaults \in Nat
    /\ Replies \subseteq Review(Jury) /\ PeerScores \subseteq Score(Jury)
BY CouncilAssumption

\* Faults stay within their bound.
LEMMA FaultType == ASSUME faults \in 0..MaxFaults, Fault PROVE faults' \in 0..MaxFaults
BY Constants DEF Fault

\* A thread none of whose locals changes is where it was.
LEMMA Untouched ==
    ASSUME NEW u \in Thread, Local(u), pc'[u] = pc[u], sid'[u] = sid[u], call'[u] = call[u],
           reviews'[u] = reviews[u], peers'[u] = peers[u]
    PROVE  Local(u)'
BY DEF Local

\* A thread that has returned, or lost its process, remembers nothing.
LEMMA Forgotten ==
    ASSUME NEW u \in Thread, pc'[u] = "idle", sid'[u] = 0, call'[u] = NoCall,
           reviews'[u] = Nothing, peers'[u] = Nothing
    PROVE  Local(u)'
BY NothingGiven DEF Local, NoCall, Silent

\* Before a stage no call is under way.
LEMMA NoCallType == NoCall \in [Member -> Call]
BY DEF NoCall, Silent, Call

CouncilTypes == Shapes /\ \A t \in Thread : Local(t)

\* The actions of a review that write a row.
LEMMA TypesRowStep ==
    ASSUME CouncilTypes, NEW t \in Thread,
           \/ SaveSession(t) \/ Finalize(t)
           \/ Returns(t) \/ MarkSessionFailed(t) \/ MarkRaises(t)
    PROVE  CouncilTypes'
<1> USE DEF locals, history
<1>0. Shapes /\ Local(t) /\ \A u \in Thread : Local(u)
  BY DEF CouncilTypes
<1>1. /\ sessions \in Seq(Row) /\ told \in Seq(Told) /\ basis \in Seq(Basis)
      /\ Len(told) = Len(sessions) /\ Len(basis) = Len(sessions)
      /\ served \subseteq Id
      /\ failures \in [Member -> [attempts : 0..MaxAttempts, over : BOOLEAN]]
      /\ \A m \in Member : failures[m].over => failures[m].attempts > 0
      /\ faults \in 0..MaxFaults
  BY <1>0 DEF Shapes
<1>2. /\ pc \in [Thread -> Label] /\ sid \in [Thread -> Id \cup {0}]
      /\ late \in [Thread -> BOOLEAN] /\ full \in [Thread -> BOOLEAN]
      /\ call \in [Thread -> [Member -> Call]]
      /\ reviews \in [Thread -> Given(Review(Jury))]
      /\ peers \in [Thread -> Given(Opinion)]
  BY <1>0 DEF Shapes
<1>3. CASE SaveSession(t)
  <2>1. /\ sessions' \in Seq(Row) /\ told' \in Seq(Told) /\ basis' \in Seq(Basis)
        /\ Len(sessions') = Len(sessions) + 1
        /\ Len(told') = Len(sessions') /\ Len(basis') = Len(sessions')
        /\ Len(sessions) \in Nat
        /\ sid' = [sid EXCEPT ![t] = Len(sessions) + 1]
        /\ pc' = [pc EXCEPT ![t] = "stage1"]
    BY <1>0, <1>3, SaveEffect
  <2>2. pc[t] = "insert" /\ UNCHANGED <<failures, late, call, reviews, peers, full, served, faults>>
    BY <1>3 DEF SaveSession
  <2>3. Id \subseteq Id' /\ Len(sessions) + 1 \in Id' /\ Len(sessions) + 1 # 0
    BY <2>1 DEF Id
  <2>4. pc' \in [Thread -> Label] /\ sid' \in [Thread -> Id' \cup {0}] /\ served' \subseteq Id'
    BY <1>1, <1>2, <2>1, <2>2, <2>3 DEF Label, Stages
  <2>5. Shapes'
    BY <1>1, <1>2, <2>1, <2>2, <2>4 DEF Shapes
  <2>6. Local(t)'
    <3>1. pc'[t] = "stage1" /\ sid'[t] = Len(sessions) + 1
          /\ reviews[t] = Nothing /\ peers[t] = Nothing
      BY <1>0, <1>2, <2>1, <2>2 DEF Local
    <3> QED BY <2>2, <2>3, <3>1, NothingGiven DEF Local
  <2>7. ASSUME NEW u \in Thread, u # t PROVE Local(u)'
    BY <1>0, <1>2, <2>1, <2>2, <2>7, Untouched
  <2> QED BY <2>5, <2>6, <2>7 DEF CouncilTypes
<1>4. CASE Finalize(t)
  <2>1. /\ sid[t] \in Id /\ pc[t] = "finalize" /\ pc' = [pc EXCEPT ![t] = "emit"]
        /\ sessions' \in Seq(Row) /\ Len(sessions') = Len(sessions)
        /\ basis' \in Seq(Basis) /\ Len(basis') = Len(sessions)
        /\ UNCHANGED <<failures, sid, late, call, reviews, peers, full, told, served, faults>>
    BY <1>0, <1>4, FinalizeEffect
  <2>2. Id' = Id /\ pc' \in [Thread -> Label]
    BY <1>2, <2>1 DEF Id, Label
  <2>3. Shapes'
    BY <1>1, <1>2, <2>1, <2>2 DEF Shapes
  <2>4. Local(t)'
    <3>1. pc'[t] = "emit"
      BY <1>2, <2>1
    <3> QED BY <1>0, <2>1, <3>1 DEF Local, Stages
  <2>5. ASSUME NEW u \in Thread, u # t PROVE Local(u)'
    BY <1>0, <1>2, <2>1, <2>5, Untouched
  <2> QED BY <2>3, <2>4, <2>5 DEF CouncilTypes
<1>5. CASE Returns(t) \/ MarkSessionFailed(t) \/ MarkRaises(t)
  <2>1. /\ pc' = [pc EXCEPT ![t] = "idle"]
        /\ sessions' \in Seq(Row) /\ Len(sessions') = Len(sessions)
        /\ told' \in Seq(Told) /\ Len(told') = Len(sessions)
        /\ Forget(t)
        /\ UNCHANGED <<failures, served, basis, faults>>
    BY <1>0, <1>5, EndEffect
  <2>2. Id' = Id
    BY <2>1 DEF Id
  <2>3. /\ pc' \in [Thread -> Label] /\ sid' \in [Thread -> Id \cup {0}]
        /\ late' \in [Thread -> BOOLEAN] /\ full' \in [Thread -> BOOLEAN]
        /\ call' \in [Thread -> [Member -> Call]]
        /\ reviews' \in [Thread -> Given(Review(Jury))]
        /\ peers' \in [Thread -> Given(Opinion)]
    BY <1>2, <2>1, NothingGiven, NoCallType DEF Forget, Label
  <2>4. Shapes'
    BY <1>1, <2>1, <2>2, <2>3 DEF Shapes
  <2>5. Local(t)'
    BY <1>2, <2>1, Forgotten DEF Forget
  <2>6. ASSUME NEW u \in Thread, u # t PROVE Local(u)'
    BY <1>0, <1>2, <2>1, <2>6, Untouched DEF Forget
  <2> QED BY <2>4, <2>5, <2>6 DEF CouncilTypes
<1> QED BY <1>3, <1>4, <1>5

\* What a stage does to the record of failures.
LEMMA RecordedType ==
    ASSUME NEW t \in Thread, NEW m \in Member,
           failures[m] \in [attempts : 0..MaxAttempts, over : BOOLEAN],
           failures[m].over => failures[m].attempts > 0
    PROVE  /\ Recorded(t, m) \in [attempts : 0..MaxAttempts, over : BOOLEAN]
           /\ Recorded(t, m).over => Recorded(t, m).attempts > 0
<1>1. MaxAttempts \in Nat \ {0}
  BY Constants
<1> DEFINE again == IF failures[m].over THEN 1
                    ELSE IF failures[m].attempts < MaxAttempts THEN failures[m].attempts + 1
                         ELSE MaxAttempts
<1>2. again \in 0..MaxAttempts
  BY <1>1
<1> HIDE DEF again
<1>3. \/ Recorded(t, m) = [attempts |-> 0, over |-> FALSE]
      \/ Recorded(t, m) = failures[m]
      \/ Recorded(t, m) = [attempts |-> again, over |-> FALSE]
  BY DEF Recorded, again
<1>4. CASE Recorded(t, m) = [attempts |-> 0, over |-> FALSE]
  <2>1. 0 \in 0..MaxAttempts
    BY <1>1
  <2> QED BY <1>4, <2>1
<1>5. CASE Recorded(t, m) = [attempts |-> again, over |-> FALSE]
  BY <1>2, <1>5
<1> QED BY <1>3, <1>4, <1>5

\* The end of a stage, which keeps the valid answers.
LEMMA TypesStageEnds ==
    ASSUME CouncilTypes, NEW t \in Thread, StageEnds(t)
    PROVE  CouncilTypes'
<1> USE DEF locals, history
<1>0. Shapes /\ Local(t) /\ \A u \in Thread : Local(u)
  BY DEF CouncilTypes
<1>1. /\ pc \in [Thread -> Label] /\ sid \in [Thread -> Id \cup {0}]
      /\ full \in [Thread -> BOOLEAN]
      /\ call \in [Thread -> [Member -> Call]]
      /\ reviews \in [Thread -> Given(Review(Jury))]
      /\ peers \in [Thread -> Given(Opinion)]
  BY <1>0 DEF Shapes
<1> DEFINE new == [m \in Valid(t) |-> call[t][m].says]
<1>2. Valid(t) \subseteq Member /\ DOMAIN new = Valid(t)
      /\ \A m \in Valid(t) : m \in Member /\ call[t][m].is = "valid" /\ new[m] = call[t][m].says
  BY DEF Valid
<1>3. /\ pc[t] \in {"wait1", "wait2"}
      /\ failures' = [m \in Member |-> Recorded(t, m)]
      /\ full' = [full EXCEPT ![t] = @ /\ Valid(t) = Member]
      /\ call' = [call EXCEPT ![t] = NoCall]
      /\ pc[t] = "wait1" => /\ reviews' = [reviews EXCEPT ![t] = new]
                            /\ peers' = peers
                            /\ \/ pc' = [pc EXCEPT ![t] = "stage2"]
                               \/ pc' = [pc EXCEPT ![t] = "finalize"]
      /\ pc[t] = "wait2" => /\ peers' = [peers EXCEPT ![t] = new]
                            /\ reviews' = reviews
                            /\ pc' = [pc EXCEPT ![t] = "finalize"]
      /\ UNCHANGED <<sessions, sid, late, history, faults>>
  BY DEF StageEnds, StaysFull, Goto
<1>4. /\ failures' \in [Member -> [attempts : 0..MaxAttempts, over : BOOLEAN]]
      /\ \A m \in Member : failures'[m].over => failures'[m].attempts > 0
  BY <1>0, <1>3, RecordedType DEF Shapes
<1>5. /\ pc' \in [Thread -> Label]
      /\ full' \in [Thread -> BOOLEAN]
      /\ call' \in [Thread -> [Member -> Call]]
      /\ sid' \in [Thread -> Id' \cup {0}] /\ Id' = Id
  BY <1>1, <1>3, NoCallType DEF Label, Stages, Id
<1>6. ASSUME pc[t] = "wait1" PROVE new \in [Valid(t) -> Review(Jury)] /\ new \in Given(Review(Jury))
  <2>1. \A m \in Valid(t) : new[m] \in Review(Jury)
    BY <1>0, <1>2, <1>6 DEF Local
  <2>2. new \in [Valid(t) -> Review(Jury)]
    BY <2>1
  <2> QED BY <1>2, <2>2, GivenIs
<1>7. ASSUME pc[t] = "wait2"
      PROVE  /\ \A m \in Valid(t) : new[m] \in [DOMAIN reviews[t] -> Score(Jury)]
             /\ new \in Given(Opinion)
  <2>1. \A m \in Valid(t) : new[m] \in [DOMAIN reviews[t] -> Score(Jury)]
    BY <1>0, <1>2, <1>7 DEF Local
  <2>2. DOMAIN reviews[t] \subseteq Member
    BY <1>1, GivenHas
  <2>3. \A m \in Valid(t) : new[m] \in Opinion
    BY <2>1, <2>2 DEF Opinion, Given
  <2>4. new \in [Valid(t) -> Opinion]
    BY <2>3
  <2> QED BY <1>2, <2>1, <2>4, GivenIs
<1> HIDE DEF new
<1>8. reviews' \in [Thread -> Given(Review(Jury))] /\ peers' \in [Thread -> Given(Opinion)]
  BY <1>1, <1>3, <1>6, <1>7
<1>9. Shapes'
  BY <1>0, <1>3, <1>4, <1>5, <1>8 DEF Shapes
<1>10. Local(t)'
  <2>1. call'[t] = NoCall /\ sid'[t] = sid[t] /\ sid[t] # 0
    BY <1>0, <1>1, <1>3 DEF Local
  <2>2. \A m \in Member : call'[t][m].is # "valid"
    BY <2>1 DEF NoCall, Silent
  <2>3. CASE pc[t] = "wait1"
    <3>1. peers'[t] = Nothing /\ pc'[t] \in {"stage2", "finalize"}
      BY <1>0, <1>1, <1>3, <2>3 DEF Local, Stages
    <3> QED BY <2>1, <2>2, <3>1, NothingGiven DEF Local
  <2>4. CASE pc[t] = "wait2"
    <3>1. pc'[t] = "finalize" /\ peers'[t] = new /\ reviews'[t] = reviews[t]
      BY <1>1, <1>3, <2>4
    <3>2. \A e \in DOMAIN peers'[t] : peers'[t][e] \in [DOMAIN reviews'[t] -> Score(Jury)]
      BY <1>2, <1>7, <2>4, <3>1
    <3> QED BY <2>1, <2>2, <3>1, <3>2 DEF Local, Stages
  <2> QED BY <1>3, <2>3, <2>4
<1>11. ASSUME NEW u \in Thread, u # t PROVE Local(u)'
  <2>1. pc'[u] = pc[u] /\ sid'[u] = sid[u] /\ call'[u] = call[u]
        /\ reviews'[u] = reviews[u] /\ peers'[u] = peers[u]
    BY <1>1, <1>3, <1>11
  <2> QED BY <1>0, <2>1, Untouched
<1> QED BY <1>9, <1>10, <1>11 DEF CouncilTypes

\* The answers of the members, at any time.
LEMMA TypesAnswers ==
    ASSUME CouncilTypes, NEW t \in Thread, NEW n \in Member, Answers(t, n)
    PROVE  CouncilTypes'
<1> USE DEF locals, history
<1>0. Shapes /\ Local(t) /\ \A u \in Thread : Local(u)
  BY DEF CouncilTypes
<1>1. call \in [Thread -> [Member -> Call]] /\ reviews \in [Thread -> Given(Review(Jury))]
  BY <1>0 DEF Shapes
<1>2. UNCHANGED <<sessions, failures, pc, sid, late, reviews, peers, full, history, faults>>
  BY DEF Answers
<1>3. DOMAIN reviews[t] \subseteq Member
  BY <1>1, GivenHas
<1>4. PICK c \in Call :
        /\ call' = [call EXCEPT ![t][n] = c]
        /\ c.is = "valid" => \/ pc[t] = "wait1" /\ c.says \in Review(Jury)
                             \/ pc[t] = "wait2" /\ c.says \in [DOMAIN reviews[t] -> Score(Jury)]
  <2>1. ASSUME NEW o \in Outcome, call' = [call EXCEPT ![t][n] = Silent(o)]
        PROVE  Silent(o) \in Call /\ Silent(o).is # "valid"
    BY DEF Silent, Call, Outcome
  <2>2. ASSUME NEW r \in Replies
        PROVE  [is |-> "valid", says |-> r] \in Call /\ r \in Review(Jury)
    BY Constants DEF Call
  <2>3. ASSUME NEW e \in [DOMAIN reviews[t] -> PeerScores]
        PROVE  [is |-> "valid", says |-> e] \in Call /\ e \in [DOMAIN reviews[t] -> Score(Jury)]
    <3>1. e \in [DOMAIN reviews[t] -> Score(Jury)]
      BY Constants
    <3>2. e \in Opinion
      BY <1>3, <3>1 DEF Opinion, Given
    <3> QED BY <3>1, <3>2 DEF Call
  <2>4. CASE \E o \in Outcome : call' = [call EXCEPT ![t][n] = Silent(o)]
    BY <2>1, <2>4
  <2>5. CASE /\ pc[t] = "wait1"
             /\ \E r \in Replies : call' = [call EXCEPT ![t][n] = [is |-> "valid", says |-> r]]
    BY <2>2, <2>5
  <2>6. CASE /\ pc[t] = "wait2"
             /\ \E e \in [DOMAIN reviews[t] -> PeerScores] :
                   call' = [call EXCEPT ![t][n] = [is |-> "valid", says |-> e]]
    BY <2>3, <2>6
  <2> QED BY <2>4, <2>5, <2>6 DEF Answers
<1>5. /\ call' \in [Thread -> [Member -> Call]]
      /\ call'[t][n] = c /\ \A m \in Member \ {n} : call'[t][m] = call[t][m]
      /\ \A u \in Thread \ {t} : call'[u] = call[u]
  BY <1>1, <1>4
<1>6. Shapes'
  BY <1>0, <1>2, <1>5 DEF Shapes, Id
<1>7. Local(t)'
  BY <1>0, <1>2, <1>4, <1>5 DEF Local
<1>8. ASSUME NEW u \in Thread, u # t PROVE Local(u)'
  BY <1>0, <1>2, <1>5, <1>8, Untouched
<1> QED BY <1>6, <1>7, <1>8 DEF CouncilTypes

\* Every step keeps the types.
LEMMA TypesStep ==
    ASSUME CouncilTypes, [Next]_vars
    PROVE  CouncilTypes'
<1> USE DEF locals, history
<1>0. Shapes /\ \A u \in Thread : Local(u)
  BY DEF CouncilTypes
<1>1. /\ failures \in [Member -> [attempts : 0..MaxAttempts, over : BOOLEAN]]
      /\ \A m \in Member : failures[m].over => failures[m].attempts > 0
      /\ served \subseteq Id /\ faults \in 0..MaxFaults
      /\ pc \in [Thread -> Label] /\ sid \in [Thread -> Id \cup {0}]
      /\ late \in [Thread -> BOOLEAN] /\ full \in [Thread -> BOOLEAN]
      /\ call \in [Thread -> [Member -> Call]]
  BY <1>0 DEF Shapes
<1>2. CASE UNCHANGED vars
  BY <1>0, <1>2, Untouched DEF vars, CouncilTypes, Shapes, Id
<1>3. ASSUME NEW t \in Thread, CacheHit(t) PROVE CouncilTypes'
  <2>1. UNCHANGED <<sessions, failures, pc, locals, told, basis, faults>>
        /\ served' = served \cup Cached
    BY <1>3 DEF CacheHit
  <2>2. served' \subseteq Id'
    BY <1>1, <2>1 DEF Cached, Id
  <2>3. Shapes'
    BY <1>0, <2>1, <2>2 DEF Shapes, Id
  <2> QED BY <1>0, <2>1, <2>3, Untouched DEF CouncilTypes
<1>4. ASSUME NEW t \in Thread, NEW l \in Label, pc' = [pc EXCEPT ![t] = l],
             \/ pc[t] = "idle" /\ l = "insert"
             \/ pc[t] \notin {"idle", "insert"} /\ l = "mark",
             late' \in [Thread -> BOOLEAN], faults' \in 0..MaxFaults,
             UNCHANGED <<sessions, failures, sid, call, reviews, peers, full, history>>
      PROVE  CouncilTypes'
  <2>1. pc' \in [Thread -> Label]
    BY <1>1, <1>4
  <2>2. Shapes'
    BY <1>0, <1>4, <2>1 DEF Shapes, Id
  <2>3. Local(t)'
    BY <1>0, <1>1, <1>4 DEF Local, Stages
  <2>4. ASSUME NEW u \in Thread, u # t PROVE Local(u)'
    BY <1>0, <1>1, <1>4, <2>4, Untouched
  <2> QED BY <2>2, <2>3, <2>4 DEF CouncilTypes
<1>5. ASSUME NEW t \in Thread, CacheMiss(t) PROVE CouncilTypes'
  BY <1>1, <1>4, <1>5 DEF CacheMiss, Goto, Label
<1>6. ASSUME NEW t \in Thread, Raises(t) PROVE CouncilTypes'
  <2>1. /\ pc' = [pc EXCEPT ![t] = "mark"] /\ pc[t] \notin {"idle", "insert"}
        /\ UNCHANGED <<sessions, failures, locals, history>>
    BY <1>6 DEF Raises, Goto, Stages
  <2>2. faults' \in 0..MaxFaults
    BY <1>1, <1>6, FaultType DEF Raises
  <2> QED BY <1>1, <1>4, <2>1, <2>2 DEF Label
<1>7. ASSUME NEW t \in Thread, StageBegins(t) PROVE CouncilTypes'
  <2> DEFINE asked == [m \in Member |-> Silent(IF InCooldown(m) THEN "cooldown" ELSE "pending")]
  <2>1. /\ pc[t] \in {"stage1", "stage2"}
        /\ call' = [call EXCEPT ![t] = asked]
        /\ failures' = [m \in Member |-> IF failures[m].over
                                         THEN [attempts |-> 0, over |-> FALSE] ELSE failures[m]]
        /\ pc[t] = "stage1" => pc' = [pc EXCEPT ![t] = "wait1"]
        /\ pc[t] = "stage2" => pc' = [pc EXCEPT ![t] = "wait2"]
        /\ UNCHANGED <<sessions, sid, late, reviews, peers, full, history, faults>>
    BY <1>7 DEF StageBegins, Goto
  <2>2. asked \in [Member -> Call] /\ \A m \in Member : asked[m].is # "valid"
    BY DEF Silent, Call
  <2> HIDE DEF asked
  <2>3. [attempts |-> 0, over |-> FALSE] \in [attempts : 0..MaxAttempts, over : BOOLEAN]
    BY Constants
  <2>4. /\ failures' \in [Member -> [attempts : 0..MaxAttempts, over : BOOLEAN]]
        /\ \A m \in Member : failures'[m].over => failures'[m].attempts > 0
    BY <1>1, <2>1, <2>3
  <2>5. /\ pc' \in [Thread -> Label] /\ call' \in [Thread -> [Member -> Call]]
    BY <1>1, <2>1, <2>2 DEF Label, Stages
  <2>6. Shapes'
    BY <1>0, <2>1, <2>4, <2>5 DEF Shapes, Id
  <2>7. Local(t)'
    <3>1. call'[t] = asked
      BY <1>1, <2>1
    <3>2. \/ pc[t] = "stage1" /\ pc'[t] = "wait1"
          \/ pc[t] = "stage2" /\ pc'[t] = "wait2"
      BY <1>1, <2>1
    <3> QED BY <1>0, <2>1, <2>2, <3>1, <3>2 DEF Local, Stages
  <2>8. ASSUME NEW u \in Thread, u # t PROVE Local(u)'
    BY <1>0, <1>1, <2>1, <2>8, Untouched
  <2> QED BY <2>6, <2>7, <2>8 DEF CouncilTypes
<1>8. ASSUME NEW t \in Thread, DeadlinePasses(t) PROVE CouncilTypes'
  <2>1. late' = [late EXCEPT ![t] = TRUE]
        /\ UNCHANGED <<sessions, failures, pc, sid, call, reviews, peers, full, history, faults>>
    BY <1>8 DEF DeadlinePasses
  <2>2. late' \in [Thread -> BOOLEAN]
    BY <1>1, <2>1
  <2>3. Shapes'
    BY <1>0, <2>1, <2>2 DEF Shapes, Id
  <2> QED BY <1>0, <2>1, <2>3, Untouched DEF CouncilTypes
<1>9. ASSUME Crash PROVE CouncilTypes'
  <2>1. /\ failures' = [m \in Member |-> [attempts |-> 0, over |-> FALSE]]
        /\ pc' = [t \in Thread |-> "idle"] /\ sid' = [t \in Thread |-> 0]
        /\ late' = [t \in Thread |-> FALSE] /\ call' = [t \in Thread |-> NoCall]
        /\ reviews' = [t \in Thread |-> Nothing] /\ peers' = [t \in Thread |-> Nothing]
        /\ full' = [t \in Thread |-> TRUE]
        /\ UNCHANGED <<sessions, history>>
    BY <1>9 DEF Crash
  <2>2. faults' \in 0..MaxFaults
    BY <1>1, <1>9, FaultType DEF Crash
  <2>3. /\ failures' \in [Member -> [attempts : 0..MaxAttempts, over : BOOLEAN]]
        /\ \A m \in Member : ~failures'[m].over
    <3>1. [attempts |-> 0, over |-> FALSE] \in [attempts : 0..MaxAttempts, over : BOOLEAN]
      BY Constants
    <3> QED BY <2>1, <3>1
  <2>4. /\ pc' \in [Thread -> Label] /\ sid' \in [Thread -> Id \cup {0}]
        /\ late' \in [Thread -> BOOLEAN] /\ full' \in [Thread -> BOOLEAN]
        /\ call' \in [Thread -> [Member -> Call]]
        /\ reviews' \in [Thread -> Given(Review(Jury))]
        /\ peers' \in [Thread -> Given(Opinion)]
    BY <2>1, NothingGiven, NoCallType DEF Label
  <2>5. Shapes'
    BY <1>0, <2>1, <2>2, <2>3, <2>4 DEF Shapes, Id
  <2> QED BY <2>1, <2>5, Forgotten DEF CouncilTypes
<1>10. ASSUME NEW m \in Member, WindowEnds(m) PROVE CouncilTypes'
  <2>1. /\ failures[m].attempts > 0
        /\ failures' = [failures EXCEPT ![m].over = TRUE]
        /\ UNCHANGED <<sessions, pc, locals, history, faults>>
    BY <1>10 DEF WindowEnds
  <2>2. /\ failures' \in [Member -> [attempts : 0..MaxAttempts, over : BOOLEAN]]
        /\ \A n \in Member : failures'[n].over => failures'[n].attempts > 0
    BY <1>1, <2>1
  <2>3. Shapes'
    BY <1>0, <2>1, <2>2 DEF Shapes, Id
  <2> QED BY <1>0, <2>1, <2>3, Untouched DEF CouncilTypes
<1>11. ASSUME NEW i \in Id, SessionAges(i) PROVE CouncilTypes'
  <2>1. /\ sessions' \in Seq(Row) /\ Len(sessions') = Len(sessions)
        /\ UNCHANGED <<failures, pc, locals, history, faults>>
    BY <1>0, <1>11, AgesEffect
  <2>2. Shapes'
    BY <1>0, <2>1 DEF Shapes, Id
  <2> QED BY <1>0, <2>1, <2>2, Untouched DEF CouncilTypes
<1> QED BY <1>2, <1>3, <1>5, <1>6, <1>7, <1>8, <1>9, <1>10, <1>11, TypesRowStep,
           TypesStageEnds, TypesAnswers DEF Next, ReviewStep

\* A new service on an empty table has its types.
LEMMA InitTypes == Init => CouncilTypes
<1> SUFFICES ASSUME Init PROVE CouncilTypes
  OBVIOUS
<1>1. /\ sessions = <<>> /\ told = <<>> /\ basis = <<>> /\ served = {} /\ faults = 0
      /\ failures = [m \in Member |-> [attempts |-> 0, over |-> FALSE]]
      /\ pc = [t \in Thread |-> "idle"] /\ sid = [t \in Thread |-> 0]
      /\ late = [t \in Thread |-> FALSE] /\ call = [t \in Thread |-> NoCall]
      /\ reviews = [t \in Thread |-> Nothing] /\ peers = [t \in Thread |-> Nothing]
      /\ full = [t \in Thread |-> TRUE]
  BY DEF Init
<1>2. /\ sessions \in Seq(Row) /\ told \in Seq(Told) /\ basis \in Seq(Basis)
      /\ Len(told) = Len(sessions) /\ Len(basis) = Len(sessions)
  BY <1>1
<1>3. /\ failures \in [Member -> [attempts : 0..MaxAttempts, over : BOOLEAN]]
      /\ \A m \in Member : ~failures[m].over
  <2>1. [attempts |-> 0, over |-> FALSE] \in [attempts : 0..MaxAttempts, over : BOOLEAN]
    BY Constants
  <2> QED BY <1>1, <2>1
<1>4. /\ pc \in [Thread -> Label] /\ sid \in [Thread -> Id \cup {0}]
      /\ late \in [Thread -> BOOLEAN] /\ full \in [Thread -> BOOLEAN]
      /\ call \in [Thread -> [Member -> Call]]
      /\ reviews \in [Thread -> Given(Review(Jury))]
      /\ peers \in [Thread -> Given(Opinion)]
  BY <1>1, NothingGiven, NoCallType DEF Label
<1>5. served \subseteq Id /\ faults \in 0..MaxFaults
  BY <1>1, Constants
<1>6. ASSUME NEW t \in Thread PROVE Local(t)
  BY <1>1, NothingGiven DEF Local, NoCall, Silent
<1> QED BY <1>2, <1>3, <1>4, <1>5, <1>6 DEF CouncilTypes, Shapes

\* Types and locals are as declared in every reachable state.
LEMMA TypesHold == Spec => []CouncilTypes
BY InitTypes, TypesStep, PTL DEF Spec

\* The types of the council's rows, cooldowns and threads, for any number of
\* concurrent reviews of the subject.
THEOREM CouncilTyped == Spec => []TypeOK
<1>1. ASSUME CouncilTypes PROVE TypeOK
  <2>1. Shapes /\ \A t \in Thread : Local(t)
    BY <1>1 DEF CouncilTypes
  <2>2. /\ sessions \in Seq(Row) /\ DOMAIN told = Id /\ DOMAIN basis = Id
    BY <2>1, LenProperties DEF Shapes, Id
  <2>3. ASSUME NEW t \in Thread
        PROVE  /\ pc[t] \in Stages \cup {"idle", "insert", "finalize", "emit", "mark"}
               /\ pc[t] \in {"idle", "insert"} <=> sid[t] = 0
               /\ sid[t] \in Id \cup {0}
               /\ late[t] \in BOOLEAN /\ full[t] \in BOOLEAN
               /\ \A m \in Member : call[t][m].is \in Outcome \cup
                                       {"none", "pending", "cooldown", "valid"}
               /\ DOMAIN reviews[t] \subseteq Member /\ DOMAIN peers[t] \subseteq Member
               /\ \A m \in DOMAIN reviews[t] : reviews[t][m] \in Review(Jury)
               /\ \A e \in DOMAIN peers[t] : peers[t][e] \in [DOMAIN reviews[t] -> Score(Jury)]
    <3>1. reviews[t] \in Given(Review(Jury)) /\ peers[t] \in Given(Opinion)
          /\ \A m \in Member : call[t][m] \in Call
      BY <2>1 DEF Shapes
    <3>2. DOMAIN reviews[t] \subseteq Member /\ reviews[t] \in [DOMAIN reviews[t] -> Review(Jury)]
          /\ DOMAIN peers[t] \subseteq Member
      BY <3>1, GivenHas
    <3>3. \A m \in Member : call[t][m].is \in Outcome \cup {"none", "pending", "cooldown", "valid"}
      BY <3>1 DEF Call
    <3> QED BY <2>1, <3>2, <3>3 DEF Shapes, Local, Label
  <2> QED BY <2>1, <2>2, <2>3 DEF TypeOK, Shapes, Row
<1> QED BY <1>1, TypesHold, PTL

-----------------------------------------------------------------------------
(* The rows and what was told of them.                                     *)

Begun == Stages \cup {"finalize"}

\* The thread that works on a row is the only one, and its caller has been
\* told nothing yet.
Owns(t) == sid[t] # 0 =>
    /\ told[sid[t]] = "nothing"
    /\ \A u \in Thread : sid[u] = sid[t] => u = t
    /\ pc[t] \in Begun => sessions[sid[t]].status = "RUNNING"
    /\ pc[t] = "emit" => /\ sessions[sid[t]].decision = Decided(t)
                         /\ sessions[sid[t]].status \in {"DONE", "DEGRADED"}

\* A review no call of which has failed has every member's answer.
Complete(t) == full[t] =>
    /\ pc[t] \in {"stage2", "wait2", "finalize"} => DOMAIN reviews[t] = Member
    /\ pc[t] = "finalize" /\ PeerEval => DOMAIN peers[t] = Member

\* Rows that may be served again are complete, and none that was is still open.
ServedRows ==
    /\ \A i \in Id : sessions[i].status = "DONE" => basis[i].everybody
    /\ \A i \in served : sessions[i].status # "RUNNING"

Honest == /\ \A t \in Thread : Owns(t) /\ Complete(t)
          /\ ServedRows /\ CallerSeesRow /\ CachedIsFull /\ QuorumDecides

\* A step that writes no row and tells nobody anything, but may move threads
\* along or end them.
LEMMA QuietStep ==
    ASSUME CouncilTypes, Honest, UNCHANGED <<sessions, told, basis>>,
           served' \subseteq served \cup Cached,
           \A t \in Thread : /\ sid'[t] \in {sid[t], 0}
                             /\ sid'[t] # 0 /\ pc'[t] \in Begun => pc[t] \in Begun
                             /\ pc'[t] = "emit" => /\ pc[t] = "emit"
                                                   /\ reviews'[t] = reviews[t]
                                                   /\ peers'[t] = peers[t]
                             /\ Complete(t)'
    PROVE  Honest'
<1>1. ASSUME NEW t \in Thread PROVE Owns(t)'
  <2>1. SUFFICES ASSUME sid'[t] # 0 PROVE Owns(t)'
    BY DEF Owns
  <2>2. sid'[t] = sid[t] /\ sid[t] # 0 /\ Owns(t)
    BY <2>1 DEF Honest
  <2>3. \A u \in Thread : sid'[u] = sid'[t] => u = t
    BY <2>1, <2>2 DEF Owns
  <2>4. pc'[t] \in Begun => sessions'[sid'[t]].status = "RUNNING"
    BY <2>1, <2>2 DEF Owns
  <2>5. pc'[t] = "emit" => /\ sessions'[sid'[t]].decision = Decided(t)'
                           /\ sessions'[sid'[t]].status \in {"DONE", "DEGRADED"}
    BY <2>2 DEF Owns, Decided, IsQuorate
  <2> QED BY <2>2, <2>3, <2>4, <2>5 DEF Owns
<1>2. \A i \in served' : i \in Id /\ basis[i].everybody /\ sessions[i].status # "RUNNING"
  <2>1. ASSUME NEW i \in Cached PROVE i \in Id /\ basis[i].everybody /\ sessions[i].status # "RUNNING"
    BY <2>1 DEF Cached, Cacheable, Honest, ServedRows
  <2>2. ASSUME NEW i \in served PROVE i \in Id /\ basis[i].everybody /\ sessions[i].status # "RUNNING"
    BY <2>2 DEF Honest, ServedRows, CachedIsFull, CouncilTypes, Shapes
  <2> QED BY <2>1, <2>2
<1>3. ServedRows' /\ CachedIsFull'
  BY <1>2 DEF ServedRows, CachedIsFull, Honest, Id
<1>4. CallerSeesRow' /\ QuorumDecides'
  BY DEF Honest, CallerSeesRow, QuorumDecides, Id
<1> QED BY <1>1, <1>3, <1>4 DEF Honest

\* A new session claims nothing.
LEMMA SaveHonest ==
    ASSUME CouncilTypes, Honest, NEW t \in Thread, SaveSession(t)
    PROVE  Honest'
<1> DEFINE n == Len(sessions) + 1
<1>1. /\ Len(sessions') = n /\ Len(sessions) \in Nat
      /\ \A i \in Id : /\ sessions'[i] = sessions[i] /\ told'[i] = told[i]
                       /\ basis'[i] = basis[i]
      /\ sessions'[n].status = "RUNNING" /\ sessions'[n].decision = "none"
      /\ told'[n] = "nothing"
      /\ sid' = [sid EXCEPT ![t] = n]
      /\ pc' = [pc EXCEPT ![t] = "stage1"]
  BY SaveEffect DEF CouncilTypes
<1>2. UNCHANGED <<late, call, reviews, peers, full, served>>
  BY DEF SaveSession
<1>3. Id' = Id \cup {n} /\ n \notin Id /\ n # 0
  BY <1>1 DEF Id
<1>4. pc \in [Thread -> Label] /\ sid \in [Thread -> Id \cup {0}] /\ served \subseteq Id
  BY DEF CouncilTypes, Shapes
<1> HIDE DEF n
<1>5. sid'[t] = n /\ pc'[t] = "stage1"
      /\ \A u \in Thread \ {t} : sid'[u] = sid[u] /\ pc'[u] = pc[u] /\ sid[u] # n
  BY <1>1, <1>3, <1>4
<1>6. Owns(t)'
  BY <1>1, <1>3, <1>5 DEF Owns
<1>7. ASSUME NEW u \in Thread, u # t PROVE Owns(u)'
  <2>1. SUFFICES ASSUME sid[u] # 0 PROVE Owns(u)'
    BY <1>5, <1>7 DEF Owns
  <2>2. sid[u] \in Id /\ sid'[u] = sid[u] /\ pc'[u] = pc[u] /\ Owns(u) /\ Decided(u)' = Decided(u)
    BY <1>2, <1>4, <1>5, <1>7, <2>1 DEF Honest, Decided, IsQuorate
  <2>3. sessions'[sid'[u]] = sessions[sid[u]] /\ told'[sid'[u]] = told[sid[u]]
    BY <1>1, <2>2
  <2>4. \A v \in Thread : sid'[v] = sid'[u] => v = u
    BY <1>5, <1>7, <2>1, <2>2 DEF Owns
  <2> QED BY <2>1, <2>2, <2>3, <2>4 DEF Owns
<1>8. ASSUME NEW u \in Thread PROVE Complete(u)'
  BY <1>2, <1>5 DEF Honest, Complete
<1>9. ServedRows' /\ CachedIsFull'
  BY <1>1, <1>2, <1>3, <1>4 DEF Honest, ServedRows, CachedIsFull
<1>10. CallerSeesRow' /\ QuorumDecides'
  BY <1>1, <1>3 DEF Honest, CallerSeesRow, QuorumDecides, Decision
<1> QED BY <1>6, <1>7, <1>8, <1>9, <1>10 DEF Honest

\* The row that is written says what was decided, and on what grounds.
LEMMA FinalizeHonest ==
    ASSUME CouncilTypes, Honest, NEW t \in Thread, Finalize(t)
    PROVE  Honest'
<1> DEFINE k == sid[t]
<1>1. /\ k \in Id /\ pc[t] = "finalize" /\ pc' = [pc EXCEPT ![t] = "emit"]
      /\ Len(sessions') = Len(sessions)
      /\ sessions'[k] = [status   |-> IF full[t] THEN "DONE" ELSE "DEGRADED",
                         decision |-> Decided(t), old |-> sessions[k].old]
      /\ basis'[k] = Grounds(t)
      /\ \A i \in Id : i # k => sessions'[i] = sessions[i] /\ basis'[i] = basis[i]
      /\ UNCHANGED <<failures, sid, late, call, reviews, peers, full, told, served, faults>>
  BY FinalizeEffect DEF CouncilTypes
<1>2. pc \in [Thread -> Label] /\ sid \in [Thread -> Id \cup {0}] /\ served \subseteq Id
      /\ Len(sessions) \in Nat
  BY LenProperties DEF CouncilTypes, Shapes
<1>3. Id' = Id /\ k # 0
  BY <1>1, <1>2 DEF Id
<1>4. told[k] = "nothing" /\ sessions[k].status = "RUNNING" /\ Complete(t)
      /\ \A u \in Thread : sid[u] = k => u = t
  BY <1>1, <1>3 DEF Honest, Owns, Begun
<1>5. Decided(t) = "APPROVE" => Grounds(t).quorum /\ Grounds(t).agreement
  BY DEF Decided, Verdict, Grounds, IsQuorate, Agrees
<1>6. Decided(t) = "REJECT" => Grounds(t).quorum
  BY DEF Decided, Grounds, IsQuorate
<1>7. full[t] => Grounds(t).everybody
  BY <1>1, <1>4 DEF Complete, Grounds
<1>8. ASSUME NEW u \in Thread PROVE Owns(u)' /\ Complete(u)'
  <2>1. CASE u = t
    <3>1. pc'[t] = "emit" /\ sid'[t] = k /\ Decided(t)' = Decided(t)
      BY <1>1, <1>2 DEF Decided, IsQuorate
    <3>2. Owns(t)'
      BY <1>1, <1>4, <3>1 DEF Owns, Begun, Stages
    <3>3. Complete(t)'
      BY <3>1 DEF Complete
    <3> QED BY <2>1, <3>2, <3>3
  <2>2. CASE u # t
    <3>1. pc'[u] = pc[u] /\ sid[u] # k /\ Decided(u)' = Decided(u) /\ Owns(u) /\ Complete(u)
      BY <1>1, <1>2, <1>4, <2>2 DEF Decided, IsQuorate, Honest
    <3>2. sid[u] # 0 => sessions'[sid[u]] = sessions[sid[u]]
      BY <1>1, <1>2, <3>1
    <3> QED BY <1>1, <3>1, <3>2 DEF Owns, Complete
  <2> QED BY <2>1, <2>2
<1> HIDE DEF k
<1>9. k \notin served
  BY <1>4 DEF Honest, ServedRows
<1>10. ServedRows' /\ CachedIsFull'
  <2>1. sessions'[k].status = "DONE" => basis'[k].everybody
    BY <1>1, <1>7
  <2>2. \A i \in Id : sessions'[i].status = "DONE" => basis'[i].everybody
    BY <1>1, <2>1 DEF Honest, ServedRows
  <2> QED BY <1>1, <1>2, <1>3, <1>9, <2>2 DEF Honest, ServedRows, CachedIsFull
<1>11. CallerSeesRow'
  BY <1>1, <1>3, <1>4 DEF Honest, CallerSeesRow, Decision
<1>12. QuorumDecides'
  <2>1. /\ sessions'[k].decision \in {"APPROVE", "REJECT"} => basis'[k].quorum
        /\ sessions'[k].decision = "APPROVE" => basis'[k].agreement
    BY <1>1, <1>5, <1>6
  <2> QED BY <1>1, <1>3, <2>1 DEF Honest, QuorumDecides
<1> QED BY <1>8, <1>10, <1>11, <1>12 DEF Honest

\* A review that ends, with a verdict or an exception, tells its caller what the row says.
LEMMA EndHonest ==
    ASSUME CouncilTypes, Honest, NEW t \in Thread,
           Returns(t) \/ MarkSessionFailed(t) \/ MarkRaises(t)
    PROVE  Honest'
<1> DEFINE k == sid[t]
<1>1. /\ k \in Id /\ pc[t] \in {"emit", "mark"} /\ pc' = [pc EXCEPT ![t] = "idle"]
      /\ Len(sessions') = Len(sessions)
      /\ pc[t] = "emit" => told'[k] = Decided(t) /\ sessions' = sessions
      /\ pc[t] = "mark" => told'[k] = "raised"
      /\ \/ sessions' = sessions
         \/ sessions'[k] = [status |-> "FAILED", decision |-> sessions[k].decision,
                            old |-> sessions[k].old]
      /\ \A i \in Id : i # k => sessions'[i] = sessions[i] /\ told'[i] = told[i]
      /\ Forget(t)
      /\ UNCHANGED <<failures, served, basis, faults>>
  BY EndEffect DEF CouncilTypes
<1>2. /\ pc \in [Thread -> Label] /\ sid \in [Thread -> Id \cup {0}] /\ served \subseteq Id
      /\ Len(sessions) \in Nat
      /\ full \in [Thread -> BOOLEAN] /\ reviews \in [Thread -> Given(Review(Jury))]
      /\ peers \in [Thread -> Given(Opinion)]
  BY LenProperties DEF CouncilTypes, Shapes
<1>3. Id' = Id /\ k # 0
  BY <1>1, <1>2 DEF Id
<1>4. pc'[t] = "idle" /\ sid'[t] = 0
      /\ \A u \in Thread \ {t} : /\ pc'[u] = pc[u] /\ sid'[u] = sid[u] /\ full'[u] = full[u]
                                 /\ reviews'[u] = reviews[u] /\ peers'[u] = peers[u]
  BY <1>1, <1>2 DEF Forget
<1>5. /\ pc[t] = "emit" => /\ sessions[k].decision = Decided(t)
                           /\ sessions[k].status \in {"DONE", "DEGRADED"}
      /\ \A u \in Thread : sid[u] = k => u = t
  BY <1>1, <1>3 DEF Honest, Owns
<1>6. ASSUME NEW u \in Thread PROVE Owns(u)' /\ Complete(u)'
  <2>1. CASE u = t
    BY <1>4, <2>1 DEF Owns, Complete
  <2>2. CASE u # t
    <3>1. /\ pc'[u] = pc[u] /\ sid'[u] = sid[u] /\ sid[u] # k /\ Owns(u) /\ Complete(u)
          /\ full'[u] = full[u] /\ reviews'[u] = reviews[u] /\ peers'[u] = peers[u]
      BY <1>4, <1>5, <2>2 DEF Honest
    <3>2. Decided(u)' = Decided(u)
      BY <3>1 DEF Decided, IsQuorate
    <3>3. sid[u] # 0 => sessions'[sid[u]] = sessions[sid[u]] /\ told'[sid[u]] = told[sid[u]]
      BY <1>1, <1>2, <3>1
    <3>4. sid[u] # 0 => \A v \in Thread : sid'[v] = sid[u] => v = u
      BY <1>4, <3>1 DEF Owns
    <3> QED BY <3>1, <3>2, <3>3, <3>4 DEF Owns, Complete
  <2> QED BY <2>1, <2>2
<1> HIDE DEF k
<1>7. \A i \in Id : /\ sessions'[i].decision = sessions[i].decision
                    /\ sessions'[i].status \in {sessions[i].status, "FAILED"}
  BY <1>1
<1>8. ServedRows' /\ CachedIsFull' /\ QuorumDecides'
  BY <1>1, <1>2, <1>3, <1>7 DEF Honest, ServedRows, CachedIsFull, QuorumDecides
<1>9. CallerSeesRow'
  BY <1>1, <1>3, <1>5 DEF Honest, CallerSeesRow, Decision
<1> QED BY <1>6, <1>8, <1>9 DEF Honest

\* A thread whose call, stage and answers do not change stays complete.
LEMMA StillComplete ==
    ASSUME NEW u \in Thread, Complete(u), pc'[u] = pc[u], full'[u] = full[u],
           reviews'[u] = reviews[u], peers'[u] = peers[u]
    PROVE  Complete(u)'
BY DEF Complete

\* The end of a stage: whoever is missing makes the review degraded, and with
\* nobody missing there is a quorum, so that stage 2 is not left out.
LEMMA StageEndsHonest ==
    ASSUME CouncilTypes, Honest, NEW t \in Thread, StageEnds(t)
    PROVE  Honest'
<1> DEFINE new == [m \in Valid(t) |-> call[t][m].says]
<1>1. /\ pc \in [Thread -> Label] /\ full \in [Thread -> BOOLEAN]
      /\ reviews \in [Thread -> Given(Review(Jury))] /\ peers \in [Thread -> Given(Opinion)]
  BY DEF CouncilTypes, Shapes
<1>2. /\ full' = [full EXCEPT ![t] = full[t] /\ Valid(t) = Member]
      /\ UNCHANGED <<sessions, sid, told, served, basis>>
      /\ \/ /\ pc[t] = "wait1"
            /\ reviews' = [reviews EXCEPT ![t] = new] /\ peers' = peers
            /\ pc' = [pc EXCEPT ![t] = IF PeerEval /\ IsQuorate(t, new)
                                       THEN "stage2" ELSE "finalize"]
         \/ /\ pc[t] = "wait2"
            /\ peers' = [peers EXCEPT ![t] = new] /\ reviews' = reviews
            /\ pc' = [pc EXCEPT ![t] = "finalize"]
  BY DEF StageEnds, StaysFull, Goto, history
<1>3. DOMAIN new = Valid(t)
  OBVIOUS
<1>4. Valid(t) = Member => IsQuorate(t, new)
  BY <1>3, CouncilAssumption DEF IsQuorate
<1> HIDE DEF new
<1>5. Complete(t)'
  <2>1. full'[t] => full[t] /\ Valid(t) = Member
    BY <1>1, <1>2
  <2>2. CASE pc[t] = "wait1"
    <3>1. reviews'[t] = new
          /\ pc'[t] = IF PeerEval /\ IsQuorate(t, new) THEN "stage2" ELSE "finalize"
      BY <1>1, <1>2, <2>2
    <3> QED BY <1>3, <1>4, <2>1, <3>1 DEF Complete
  <2>3. CASE pc[t] = "wait2"
    <3>1. reviews'[t] = reviews[t] /\ peers'[t] = new
      BY <1>1, <1>2, <2>3
    <3>2. Complete(t)
      BY DEF Honest
    <3> QED BY <1>3, <2>1, <2>3, <3>1, <3>2 DEF Complete
  <2> QED BY <1>2, <2>2, <2>3
<1>6. ASSUME NEW u \in Thread, u # t
      PROVE  pc'[u] = pc[u] /\ reviews'[u] = reviews[u] /\ peers'[u] = peers[u] /\ Complete(u)'
  <2>1. pc'[u] = pc[u] /\ full'[u] = full[u] /\ reviews'[u] = reviews[u] /\ peers'[u] = peers[u]
    BY <1>1, <1>2, <1>6
  <2>2. Complete(u)
    BY DEF Honest
  <2> QED BY <2>1, <2>2, StillComplete
<1>7. pc[t] \in Begun /\ pc'[t] # "emit"
  BY <1>1, <1>2 DEF Begun, Stages
<1> QED BY <1>2, <1>5, <1>6, <1>7, QuietStep

\* Time that passes for the cache touches neither verdicts nor how reviews ended.
LEMMA AgesHonest ==
    ASSUME CouncilTypes, Honest, NEW k \in Id, SessionAges(k)
    PROVE  Honest'
<1>1. /\ Len(sessions') = Len(sessions)
      /\ \A i \in Id : sessions'[i].status = sessions[i].status
                    /\ sessions'[i].decision = sessions[i].decision
      /\ UNCHANGED <<pc, sid, reviews, peers, full, told, served, basis>>
  BY AgesEffect DEF CouncilTypes, locals, history
<1>2. Id' = Id /\ sid \in [Thread -> Id \cup {0}] /\ served \subseteq Id
  BY <1>1 DEF Id, CouncilTypes, Shapes
<1>3. ASSUME NEW t \in Thread PROVE Owns(t)' /\ Complete(t)'
  <2>1. Owns(t) /\ Complete(t) /\ Decided(t)' = Decided(t)
    BY <1>1 DEF Honest, Decided, IsQuorate
  <2> QED BY <1>1, <1>2, <2>1 DEF Owns, Complete
<1>4. ServedRows' /\ CallerSeesRow' /\ CachedIsFull' /\ QuorumDecides'
  BY <1>1, <1>2 DEF Honest, ServedRows, CallerSeesRow, CachedIsFull, QuorumDecides
<1> QED BY <1>3, <1>4 DEF Honest

\* No step of any thread, and no crash, makes the rows dishonest.
LEMMA HonestStep ==
    ASSUME CouncilTypes, Honest, [Next]_vars
    PROVE  Honest'
<1> USE DEF locals, history
<1>1. /\ pc \in [Thread -> Label] /\ call \in [Thread -> [Member -> Call]]
  BY DEF CouncilTypes, Shapes
<1>2. \A t \in Thread : Complete(t)
  BY DEF Honest
<1>3. ASSUME UNCHANGED <<sessions, told, basis, sid, reviews, peers, full>>,
             served' \subseteq served \cup Cached,
             \A t \in Thread : \/ pc'[t] = pc[t]
                               \/ pc'[t] \in {"insert", "mark"}
                               \/ pc[t] = "stage1" /\ pc'[t] = "wait1"
                               \/ pc[t] = "stage2" /\ pc'[t] = "wait2"
      PROVE  Honest'
  <2>1. ASSUME NEW t \in Thread PROVE Complete(t)'
    BY <1>2, <1>3 DEF Complete
  <2>2. ASSUME NEW t \in Thread
        PROVE  /\ pc'[t] \in Begun => pc[t] \in Begun
               /\ pc'[t] = "emit" => pc[t] = "emit"
    BY <1>3 DEF Begun, Stages
  <2> QED BY <1>3, <2>1, <2>2, QuietStep
<1>4. CASE UNCHANGED vars
  BY <1>3, <1>4 DEF vars
<1>5. ASSUME NEW t \in Thread, CacheHit(t) PROVE Honest'
  BY <1>3, <1>5 DEF CacheHit
<1>6. ASSUME NEW t \in Thread, CacheMiss(t) PROVE Honest'
  BY <1>1, <1>3, <1>6 DEF CacheMiss, Goto
<1>7. ASSUME NEW t \in Thread, StageBegins(t) PROVE Honest'
  BY <1>1, <1>3, <1>7 DEF StageBegins, Goto
<1>8. ASSUME NEW t \in Thread, NEW m \in Member, Answers(t, m) PROVE Honest'
  BY <1>3, <1>8 DEF Answers
<1>9. ASSUME NEW t \in Thread, DeadlinePasses(t) PROVE Honest'
  BY <1>3, <1>9 DEF DeadlinePasses
<1>10. ASSUME NEW t \in Thread, Raises(t) PROVE Honest'
  BY <1>1, <1>3, <1>10 DEF Raises, Goto
<1>11. ASSUME Crash PROVE Honest'
  <2>1. /\ pc' = [t \in Thread |-> "idle"] /\ sid' = [t \in Thread |-> 0]
        /\ UNCHANGED <<sessions, told, basis, served>>
    BY <1>11 DEF Crash
  <2>2. \A t \in Thread : pc'[t] = "idle" /\ sid'[t] = 0 /\ Complete(t)'
    BY <2>1 DEF Complete
  <2> QED BY <2>1, <2>2, QuietStep
<1>12. ASSUME NEW m \in Member, WindowEnds(m) PROVE Honest'
  BY <1>3, <1>12 DEF WindowEnds
<1> QED BY <1>4, <1>5, <1>6, <1>7, <1>8, <1>9, <1>10, <1>11, <1>12, SaveHonest,
           FinalizeHonest, EndHonest, StageEndsHonest, AgesHonest DEF Next, ReviewStep

\* Before the first review there is no row to be dishonest about.
LEMMA InitHonest == Init => Honest
<1> SUFFICES ASSUME Init PROVE Honest
  OBVIOUS
<1>1. /\ sessions = <<>> /\ served = {} /\ pc = [t \in Thread |-> "idle"]
      /\ sid = [t \in Thread |-> 0]
  BY DEF Init
<1>2. Id = {}
  BY <1>1 DEF Id
<1> QED BY <1>1, <1>2 DEF Honest, Owns, Complete, ServedRows, CallerSeesRow, CachedIsFull,
                          QuorumDecides

\* The invariant of the rows holds throughout.
LEMMA HonestHolds == Spec => []Honest
BY InitHonest, HonestStep, TypesHold, PTL DEF Spec

\* What a caller was told of a review is what its row says for ever after, for
\* any number of threads that review the subject at once.
THEOREM CallersSeeRows == Spec => []CallerSeesRow
<1>1. Honest => CallerSeesRow
  BY DEF Honest
<1> QED BY <1>1, HonestHolds, PTL

\* No verdict of an incomplete council is ever served from the cache.
THEOREM CacheIsFull == Spec => []CachedIsFull
<1>1. Honest => CachedIsFull
  BY DEF Honest
<1> QED BY <1>1, HonestHolds, PTL

\* A verdict other than REWORK rests on a quorum, an approval on enough of its weight.
THEOREM QuorumsDecide == Spec => []QuorumDecides
<1>1. Honest => QuorumDecides
  BY DEF Honest
<1> QED BY <1>1, HonestHolds, PTL

-----------------------------------------------------------------------------
(* What a member says of itself.                                           *)

\* Where the host has evidence, and about its own review, a member is not listened
\* to: whatever it says there, in any reachable state, the verdict is the same.
THEOREM OwnWordsAreNothing == Spec => []OwnWordIsNothing
<1>1. ASSUME CouncilTypes PROVE OwnWordIsNothing
  <2> SUFFICES ASSUME NEW t \in Thread, NEW m \in DOMAIN reviews[t], NEW s \in Score(Jury)
               PROVE  /\ \A d \in DOMAIN Jury.evidence :
                            Verdict(Jury, [reviews[t] EXCEPT ![m].scores[d] = s], peers[t])
                            = Verdict(Jury, reviews[t], peers[t])
                      /\ m \in DOMAIN peers[t] =>
                            Verdict(Jury, reviews[t], [peers[t] EXCEPT ![m][m] = s])
                            = Verdict(Jury, reviews[t], peers[t])
    BY DEF OwnWordIsNothing
  <2> DEFINE r == reviews[t]
             p == peers[t]
  <2>1. r \in [DOMAIN r -> Review(Jury)] /\ p \in [DOMAIN p -> Opinion]
    BY <1>1, GivenHas DEF CouncilTypes, Shapes
  <2>2. \A e \in DOMAIN p : p[e] \in [DOMAIN r -> Score(Jury)]
    BY <1>1 DEF CouncilTypes, Local
  <2> HIDE DEF r, p
  <2>3. ASSUME NEW d \in DOMAIN Jury.evidence, m \in DOMAIN r
        PROVE  Verdict(Jury, [r EXCEPT ![m].scores[d] = s], p) = Verdict(Jury, r, p)
    <3> DEFINE r2 == [r EXCEPT ![m].scores[d] = s]
    <3>1. DOMAIN r2 = DOMAIN r /\ \A n \in DOMAIN r \ {m} : r2[n] = r[n]
      BY <2>1
    <3>2. r2[m].approves = r[m].approves /\ r2[m].scores = [r[m].scores EXCEPT ![d] = s]
      BY <2>1, <2>3 DEF Review
    <3>3. r[m].scores \in [Dim(Jury) -> Score(Jury)]
      BY <2>1, <2>3 DEF Review
    <3> HIDE DEF r2
    <3>4. \A c \in Dim(Jury) : Judged(Jury, r2[m], c) = Judged(Jury, r[m], c)
      BY <3>2, <3>3 DEF Judged
    <3>5. \A n \in DOMAIN r : /\ r2[n].approves = r[n].approves
                              /\ \A c \in Dim(Jury) : Judged(Jury, r2[n], c) = Judged(Jury, r[n], c)
      BY <3>1, <3>2, <3>4
    <3>6. Verdict(Jury, r2, p) = Verdict(Jury, r, p)
      BY <3>1, <3>5, SameVerdict, CouncilAssumption
    <3> QED BY <3>6 DEF r2
  <2>4. ASSUME m \in DOMAIN p, m \in DOMAIN r
        PROVE  Verdict(Jury, r, [p EXCEPT ![m][m] = s]) = Verdict(Jury, r, p)
    <3> DEFINE p2 == [p EXCEPT ![m][m] = s]
    <3>1. DOMAIN p2 = DOMAIN p /\ \A e \in DOMAIN p \ {m} : p2[e] = p[e]
      BY <2>1
    <3>2. \A n \in DOMAIN r \ {m} : p2[m][n] = p[m][n]
      BY <2>1, <2>2, <2>4
    <3> HIDE DEF p2
    <3>3. \A n \in DOMAIN r : \A e \in DOMAIN p \ {n} : p2[e][n] = p[e][n]
      BY <3>1, <3>2
    <3>4. Verdict(Jury, r, p2) = Verdict(Jury, r, p)
      BY <3>1, <3>3, SameVerdict, CouncilAssumption
    <3> QED BY <3>4 DEF p2
  <2> QED BY <2>3, <2>4 DEF r, p
<1> QED BY <1>1, TypesHold, PTL

-----------------------------------------------------------------------------
(* A better review.                                                        *)

\* In any reachable state a better score, one more approval or a peer's higher
\* score leaves the verdict as it is or makes it better.
THEOREM BetterIsNoWorse == Spec => []Monotone
<1>1. ASSUME CouncilTypes PROVE Monotone
  <2> SUFFICES ASSUME NEW t \in Thread, Judging(t), NEW m \in DOMAIN reviews[t]
               PROVE  LET now == Rank(Verdict(Jury, reviews[t], peers[t]))
                      IN  /\ \A d \in Dim(Jury), s \in Score(Jury) :
                                NoWorse(d, s, reviews[t][m].scores[d]) =>
                                  Rank(Verdict(Jury, [reviews[t] EXCEPT ![m].scores[d] = s], peers[t])) >= now
                          /\ Rank(Verdict(Jury, [reviews[t] EXCEPT ![m].approves = TRUE], peers[t])) >= now
                          /\ \A e \in DOMAIN peers[t], s \in Score(Jury) :
                                s >= peers[t][e][m] =>
                                  Rank(Verdict(Jury, reviews[t], [peers[t] EXCEPT ![e][m] = s])) >= now
    BY DEF Monotone
  <2> DEFINE r == reviews[t]
             p == peers[t]
             A == DOMAIN r
             E == DOMAIN p
  <2>1. ValidJury(Jury) /\ Jury.min \in Int /\ Jury.max \in Int /\ Score(Jury) \subseteq Int
    BY CouncilAssumption DEF ValidJury, Score
  <2>2. Reviewed(Jury, A, E, r, p)
    <3>1. A \subseteq Member /\ r \in [A -> Review(Jury)] /\ E \subseteq Member
      BY <1>1, GivenHas DEF CouncilTypes, Shapes
    <3>2. p \in [E -> Opinion]
      BY <1>1, GivenHas DEF CouncilTypes, Shapes
    <3>3. \A e \in E : p[e] \in [A -> Score(Jury)]
      BY <1>1 DEF CouncilTypes, Local
    <3>4. p \in [E -> [A -> Score(Jury)]]
      BY <3>2, <3>3
    <3> QED BY <3>1, <3>4 DEF Reviewed, Member
  <2>3. m \in A
    OBVIOUS
  <2> HIDE DEF A, E, r, p
  <2>4. /\ r \in [A -> Review(Jury)] /\ p \in [E -> [A -> Score(Jury)]]
        /\ r[m] \in Review(Jury) /\ r[m].scores \in [Dim(Jury) -> Score(Jury)]
    BY <2>2, <2>3 DEF Reviewed, Review
  <2>5. ASSUME NEW r2, NEW p2, Improved(Jury, A, E, r, p, r2, p2)
        PROVE  Rank(Verdict(Jury, r2, p2)) >= Rank(Verdict(Jury, r, p))
    <3>1. /\ Verdict(Jury, r, p) = "APPROVE" => Verdict(Jury, r2, p2) = "APPROVE"
          /\ Verdict(Jury, r2, p2) = "REJECT" => Verdict(Jury, r, p) = "REJECT"
      BY <2>1, <2>3, <2>5, VerdictGrows
    <3>2. /\ Verdict(Jury, r, p) \in {"APPROVE", "REWORK", "REJECT"}
          /\ Verdict(Jury, r2, p2) \in {"APPROVE", "REWORK", "REJECT"}
      BY Verdicts
    <3>3. Rank("REJECT") = 0 /\ Rank("REWORK") = 1 /\ Rank("APPROVE") = 2
      BY Zenon DEF Rank
    <3> QED BY <3>1, <3>2, <3>3
  <2>6. \A n \in A, d \in Dim(Jury) : Quality(Jury, d, Judged(Jury, r[n], d)) \in Int
    BY <2>1, <2>4, Judgement
  <2>7. \A n \in A : AsGood(Jury, r[n], r[n])
    BY <2>6 DEF AsGood
  <2>8. \A e \in E, n \in A : p[e][n] \in Int
    BY <2>1, <2>4
  <2>9. ASSUME NEW q \in Review(Jury), AsGood(Jury, r[m], q), r[m].approves => q.approves
        PROVE  Improved(Jury, A, E, r, p, [r EXCEPT ![m] = q], p)
    <3> DEFINE r2 == [r EXCEPT ![m] = q]
    <3>1. r2 \in [A -> Review(Jury)] /\ r2[m] = q /\ \A n \in A \ {m} : r2[n] = r[n]
      BY <2>3, <2>4
    <3> HIDE DEF r2
    <3>2. Reviewed(Jury, A, E, r2, p)
      BY <2>2, <3>1 DEF Reviewed
    <3>3. \A n \in A : AsGood(Jury, r[n], r2[n]) /\ (r[n].approves => r2[n].approves)
      BY <2>7, <2>9, <3>1
    <3>4. \A n \in A : \A e \in E \ {n} : p[e][n] <= p[e][n]
      BY <2>8
    <3>5. Improved(Jury, A, E, r, p, r2, p)
      BY <2>2, <3>2, <3>3, <3>4 DEF Improved
    <3> QED BY <3>5 DEF r2
  <2>10. ASSUME NEW d \in Dim(Jury), NEW s \in Score(Jury), NoWorse(d, s, r[m].scores[d])
         PROVE  Rank(Verdict(Jury, [r EXCEPT ![m].scores[d] = s], p)) >= Rank(Verdict(Jury, r, p))
    <3> DEFINE q == [r[m] EXCEPT !.scores[d] = s]
    <3>1. /\ q \in Review(Jury) /\ q.approves = r[m].approves
          /\ q.scores[d] = s /\ \A c \in Dim(Jury) \ {d} : q.scores[c] = r[m].scores[c]
      BY <2>4 DEF Review
    <3>2. [r EXCEPT ![m].scores[d] = s] = [r EXCEPT ![m] = q]
      BY <2>3, <2>4
    <3> HIDE DEF q
    <3>3. \A c \in Dim(Jury) : /\ r[m].scores[c] \in Int /\ s \in Int
                               /\ Quality(Jury, c, Judged(Jury, r[m], c)) \in Int
      BY <2>1, <2>3, <2>4, <2>6
    <3>4. ASSUME NEW c \in Dim(Jury)
          PROVE  Quality(Jury, c, Judged(Jury, r[m], c)) <= Quality(Jury, c, Judged(Jury, q, c))
      <4>1. CASE c \in DOMAIN Jury.evidence \/ c # d
        <5>1. Judged(Jury, q, c) = Judged(Jury, r[m], c)
          BY <3>1, <4>1 DEF Judged
        <5> QED BY <3>3, <5>1
      <4>2. CASE c \notin DOMAIN Jury.evidence /\ c = d
        <5>1. Judged(Jury, q, c) = s /\ Judged(Jury, r[m], c) = r[m].scores[d]
          BY <3>1, <4>2 DEF Judged
        <5>2. Quality(Jury, d, r[m].scores[d]) <= Quality(Jury, d, s)
          BY <2>1, <2>10, <3>3 DEF Quality, NoWorse
        <5> QED BY <4>2, <5>1, <5>2
      <4> QED BY <4>1, <4>2
    <3>5. Improved(Jury, A, E, r, p, [r EXCEPT ![m] = q], p)
      BY <2>9, <3>1, <3>4 DEF AsGood
    <3> QED BY <2>5, <3>2, <3>5
  <2>11. Rank(Verdict(Jury, [r EXCEPT ![m].approves = TRUE], p)) >= Rank(Verdict(Jury, r, p))
    <3> DEFINE q == [r[m] EXCEPT !.approves = TRUE]
    <3>1. q \in Review(Jury) /\ q.approves /\ q.scores = r[m].scores
      BY <2>4 DEF Review
    <3>2. [r EXCEPT ![m].approves = TRUE] = [r EXCEPT ![m] = q]
      BY <2>3, <2>4
    <3> HIDE DEF q
    <3>3. \A c \in Dim(Jury) : Judged(Jury, q, c) = Judged(Jury, r[m], c)
      BY <3>1 DEF Judged
    <3>4. AsGood(Jury, r[m], q)
      BY <2>3, <2>7, <3>3 DEF AsGood
    <3>5. Improved(Jury, A, E, r, p, [r EXCEPT ![m] = q], p)
      BY <2>9, <3>1, <3>4
    <3> QED BY <2>5, <3>2, <3>5
  <2>12. ASSUME NEW e \in E, NEW s \in Score(Jury), s >= p[e][m]
         PROVE  Rank(Verdict(Jury, r, [p EXCEPT ![e][m] = s])) >= Rank(Verdict(Jury, r, p))
    <3> DEFINE p2 == [p EXCEPT ![e][m] = s]
    <3>1. /\ p2 \in [E -> [A -> Score(Jury)]] /\ p2[e][m] = s
          /\ \A g \in E, n \in A : g # e \/ n # m => p2[g][n] = p[g][n]
      BY <2>3, <2>4
    <3> HIDE DEF p2
    <3>2. Reviewed(Jury, A, E, r, p2)
      BY <2>2, <3>1 DEF Reviewed
    <3>3. \A g \in E, n \in A : p[g][n] <= p2[g][n]
      <4> TAKE g \in E, n \in A
      <4>1. s \in Int /\ p[g][n] \in Int
        BY <2>1, <2>8
      <4> QED BY <2>12, <3>1, <4>1
    <3>4. Improved(Jury, A, E, r, p, r, p2)
      BY <2>2, <2>7, <3>2, <3>3 DEF Improved
    <3>5. Rank(Verdict(Jury, r, p2)) >= Rank(Verdict(Jury, r, p))
      BY <2>5, <3>4
    <3> QED BY <3>5 DEF p2
  <2> QED BY <2>10, <2>11, <2>12 DEF r, p, A, E
<1> QED BY <1>1, TypesHold, PTL

-----------------------------------------------------------------------------
(* Sessions: what is left when threads and members are forgotten.          *)

\* A review some call of which has failed has somebody's answer missing, a stage is
\* entered with all the answers it needs of the one before, and stage 2 only when
\* it is asked for.
Missing(t) ==
    /\ pc[t] \in {"idle", "insert", "stage1", "wait1"} => full[t]
    /\ pc[t] \in {"stage2", "wait2"} =>
          /\ PeerEval
          /\ ~full[t] => DOMAIN reviews[t] # Member
    /\ pc[t] = "finalize" /\ ~full[t] =>
          DOMAIN reviews[t] # Member \/ (PeerEval /\ DOMAIN peers[t] # Member)

\* Rows stay within the bound, and one that is open has no grounds yet.
OpenRows ==
    /\ Len(sessions) <= MaxReviews
    /\ \A i \in Id : sessions[i].status = "RUNNING" => ~basis[i].everybody

Ledgered == OpenRows /\ \A t \in Thread : Missing(t)

\* A thread whose place and answers do not change has as many missing.
LEMMA StillMissing ==
    ASSUME NEW u \in Thread, Missing(u), pc'[u] = pc[u], full'[u] = full[u],
           reviews'[u] = reviews[u], peers'[u] = peers[u]
    PROVE  Missing(u)'
BY DEF Missing

\* The end of a stage: whoever did not answer is missing in what it leaves.
LEMMA StageEndsMissing ==
    ASSUME CouncilTypes, Ledgered, NEW t \in Thread, StageEnds(t)
    PROVE  Ledgered'
<1> DEFINE new == [m \in Valid(t) |-> call[t][m].says]
<1>1. /\ pc \in [Thread -> Label] /\ full \in [Thread -> BOOLEAN]
      /\ reviews \in [Thread -> Given(Review(Jury))] /\ peers \in [Thread -> Given(Opinion)]
  BY DEF CouncilTypes, Shapes
<1>2. /\ full' = [full EXCEPT ![t] = full[t] /\ Valid(t) = Member]
      /\ UNCHANGED <<sessions, basis>>
      /\ \/ /\ pc[t] = "wait1"
            /\ reviews' = [reviews EXCEPT ![t] = new] /\ peers' = peers
            /\ pc' = [pc EXCEPT ![t] = IF PeerEval /\ IsQuorate(t, new)
                                       THEN "stage2" ELSE "finalize"]
         \/ /\ pc[t] = "wait2"
            /\ peers' = [peers EXCEPT ![t] = new] /\ reviews' = reviews
            /\ pc' = [pc EXCEPT ![t] = "finalize"]
  BY DEF StageEnds, StaysFull, Goto, history
<1>3. DOMAIN new = Valid(t) /\ Missing(t)
  BY DEF Ledgered
<1> HIDE DEF new
<1>4. ~full'[t] => ~full[t] \/ Valid(t) # Member
  BY <1>1, <1>2
<1>5. Missing(t)'
  <2>1. CASE pc[t] = "wait1"
    <3>1. reviews'[t] = new /\ full[t]
          /\ \/ pc'[t] = "stage2" /\ PeerEval
             \/ pc'[t] = "finalize"
      BY <1>1, <1>2, <1>3, <2>1 DEF Missing
    <3> QED BY <1>3, <1>4, <3>1 DEF Missing
  <2>2. CASE pc[t] = "wait2"
    <3>1. reviews'[t] = reviews[t] /\ peers'[t] = new /\ pc'[t] = "finalize"
      BY <1>1, <1>2, <2>2
    <3> QED BY <1>3, <1>4, <2>2, <3>1 DEF Missing
  <2> QED BY <1>2, <2>1, <2>2
<1>6. ASSUME NEW u \in Thread, u # t PROVE Missing(u)'
  <2>1. pc'[u] = pc[u] /\ full'[u] = full[u] /\ reviews'[u] = reviews[u] /\ peers'[u] = peers[u]
    BY <1>1, <1>2, <1>6
  <2>2. Missing(u)
    BY DEF Ledgered
  <2> QED BY <2>1, <2>2, StillMissing
<1> QED BY <1>2, <1>5, <1>6 DEF Ledgered, OpenRows, Id

\* Every step keeps count of who is missing.
LEMMA LedgeredStep ==
    ASSUME CouncilTypes, Honest, Ledgered, [Next]_vars
    PROVE  Ledgered'
<1> USE DEF locals, history
<1>0. /\ pc \in [Thread -> Label] /\ call \in [Thread -> [Member -> Call]]
      /\ full \in [Thread -> BOOLEAN] /\ reviews \in [Thread -> Given(Review(Jury))]
      /\ peers \in [Thread -> Given(Opinion)]
      /\ \A t \in Thread : Missing(t)
      /\ OpenRows
  BY DEF CouncilTypes, Shapes, Ledgered
<1>1. ASSUME UNCHANGED <<sessions, basis, reviews, peers, full>>,
             \A t \in Thread : \/ pc'[t] = pc[t] \/ pc'[t] = "mark"
                               \/ pc[t] = "idle" /\ pc'[t] = "insert"
                               \/ pc[t] = "stage1" /\ pc'[t] = "wait1"
                               \/ pc[t] = "stage2" /\ pc'[t] = "wait2"
      PROVE  Ledgered'
  <2>1. ASSUME NEW t \in Thread PROVE Missing(t)'
    BY <1>0, <1>1 DEF Missing
  <2> QED BY <1>0, <1>1, <2>1 DEF Ledgered, OpenRows, Id
<1>2. CASE UNCHANGED vars
  BY <1>1, <1>2 DEF vars
<1>3. ASSUME NEW t \in Thread,
             \/ CacheHit(t) \/ CacheMiss(t) \/ StageBegins(t) \/ DeadlinePasses(t)
             \/ Raises(t) \/ \E m \in Member : Answers(t, m)
      PROVE  Ledgered'
  <2>1. /\ UNCHANGED <<sessions, basis, reviews, peers, full>>
        /\ \/ pc' = pc
           \/ pc' = [pc EXCEPT ![t] = "mark"]
           \/ pc[t] = "idle" /\ pc' = [pc EXCEPT ![t] = "insert"]
           \/ pc[t] = "stage1" /\ pc' = [pc EXCEPT ![t] = "wait1"]
           \/ pc[t] = "stage2" /\ pc' = [pc EXCEPT ![t] = "wait2"]
    BY <1>3 DEF CacheHit, CacheMiss, StageBegins, DeadlinePasses, Raises, Answers, Goto
  <2>2. \A u \in Thread : \/ pc'[u] = pc[u] \/ pc'[u] = "mark"
                          \/ pc[u] = "idle" /\ pc'[u] = "insert"
                          \/ pc[u] = "stage1" /\ pc'[u] = "wait1"
                          \/ pc[u] = "stage2" /\ pc'[u] = "wait2"
    BY <1>0, <2>1
  <2> QED BY <1>1, <2>1, <2>2
<1>4. ASSUME NEW t \in Thread, SaveSession(t) PROVE Ledgered'
  <2> DEFINE n == Len(sessions) + 1
  <2>1. /\ Len(sessions') = n /\ Len(sessions) \in Nat
        /\ \A i \in Id : sessions'[i] = sessions[i] /\ basis'[i] = basis[i]
        /\ pc' = [pc EXCEPT ![t] = "stage1"]
    BY <1>4, SaveEffect DEF CouncilTypes
  <2>2. /\ pc[t] = "insert" /\ Len(sessions) < MaxReviews
        /\ basis' = Append(basis, NoGrounds)
        /\ UNCHANGED <<full, reviews, peers>>
    BY <1>4 DEF SaveSession
  <2>3. basis'[n] = NoGrounds
    <3>1. basis \in Seq(Basis) /\ Len(basis) = Len(sessions)
      BY DEF CouncilTypes, Shapes
    <3> QED BY <2>2, <3>1
  <2>4. Id' = Id \cup {n} /\ n <= MaxReviews
    BY <2>1, <2>2, CouncilAssumption DEF Id
  <2> HIDE DEF n
  <2>5. OpenRows'
    BY <1>0, <2>1, <2>3, <2>4 DEF OpenRows, NoGrounds
  <2>6. ASSUME NEW u \in Thread PROVE Missing(u)'
    <3>1. CASE u = t
      <4>1. pc'[t] = "stage1" /\ full'[t] = full[t] /\ full[t]
        BY <1>0, <2>1, <2>2 DEF Missing
      <4> QED BY <3>1, <4>1 DEF Missing
    <3>2. CASE u # t
      BY <1>0, <2>1, <2>2, <3>2, StillMissing
    <3> QED BY <3>1, <3>2
  <2> QED BY <2>5, <2>6 DEF Ledgered
<1>5. ASSUME NEW t \in Thread, Finalize(t) PROVE Ledgered'
  <2> DEFINE k == sid[t]
  <2>1. /\ k \in Id /\ pc' = [pc EXCEPT ![t] = "emit"]
        /\ Len(sessions') = Len(sessions)
        /\ sessions'[k].status # "RUNNING"
        /\ \A i \in Id : i # k => sessions'[i] = sessions[i] /\ basis'[i] = basis[i]
        /\ UNCHANGED <<reviews, peers, full>>
    <3>1. /\ k \in Id /\ pc' = [pc EXCEPT ![t] = "emit"]
          /\ Len(sessions') = Len(sessions)
          /\ sessions'[k] = [status   |-> IF full[t] THEN "DONE" ELSE "DEGRADED",
                             decision |-> Decided(t), old |-> sessions[k].old]
          /\ \A i \in Id : i # k => sessions'[i] = sessions[i] /\ basis'[i] = basis[i]
          /\ UNCHANGED <<reviews, peers, full>>
      BY <1>5, FinalizeEffect DEF CouncilTypes
    <3> HIDE DEF k
    <3> QED BY <3>1
  <2> HIDE DEF k
  <2>2. OpenRows'
    BY <1>0, <2>1 DEF OpenRows, Id
  <2>3. ASSUME NEW u \in Thread PROVE Missing(u)'
    <3>1. CASE u = t
      <4>1. pc'[t] = "emit"
        BY <1>0, <2>1
      <4> QED BY <3>1, <4>1 DEF Missing
    <3>2. CASE u # t
      BY <1>0, <2>1, <3>2, StillMissing
    <3> QED BY <3>1, <3>2
  <2> QED BY <2>2, <2>3 DEF Ledgered
<1>6. ASSUME NEW t \in Thread, Returns(t) \/ MarkSessionFailed(t) \/ MarkRaises(t)
      PROVE  Ledgered'
  <2> DEFINE k == sid[t]
  <2>1. /\ k \in Id /\ pc' = [pc EXCEPT ![t] = "idle"]
        /\ Len(sessions') = Len(sessions)
        /\ sessions' = sessions \/ sessions'[k].status = "FAILED"
        /\ \A i \in Id : i # k => sessions'[i] = sessions[i]
        /\ Forget(t) /\ UNCHANGED basis
    <3>1. /\ k \in Id /\ pc' = [pc EXCEPT ![t] = "idle"]
          /\ Len(sessions') = Len(sessions)
          /\ \/ sessions' = sessions
             \/ sessions'[k] = [status |-> "FAILED", decision |-> sessions[k].decision,
                                old |-> sessions[k].old]
          /\ \A i \in Id : i # k => sessions'[i] = sessions[i]
          /\ Forget(t) /\ UNCHANGED basis
      BY <1>6, EndEffect DEF CouncilTypes
    <3> HIDE DEF k
    <3> QED BY <3>1
  <2> HIDE DEF k
  <2>2. OpenRows'
    BY <1>0, <2>1 DEF OpenRows, Id
  <2>3. ASSUME NEW u \in Thread PROVE Missing(u)'
    <3>1. CASE u = t
      <4>1. pc'[t] = "idle" /\ full'[t]
        BY <1>0, <2>1 DEF Forget
      <4> QED BY <3>1, <4>1 DEF Missing
    <3>2. CASE u # t
      <4>1. pc'[u] = pc[u] /\ full'[u] = full[u] /\ reviews'[u] = reviews[u] /\ peers'[u] = peers[u]
        BY <1>0, <2>1, <3>2 DEF Forget
      <4> QED BY <1>0, <4>1, StillMissing
    <3> QED BY <3>1, <3>2
  <2> QED BY <2>2, <2>3 DEF Ledgered
<1>7. ASSUME Crash PROVE Ledgered'
  <2>1. /\ pc' = [t \in Thread |-> "idle"] /\ full' = [t \in Thread |-> TRUE]
        /\ UNCHANGED <<sessions, basis>>
    BY <1>7 DEF Crash
  <2>2. ASSUME NEW t \in Thread PROVE Missing(t)'
    BY <2>1 DEF Missing
  <2> QED BY <1>0, <2>1, <2>2 DEF Ledgered, OpenRows, Id
<1>8. ASSUME NEW m \in Member, WindowEnds(m) PROVE Ledgered'
  BY <1>1, <1>8 DEF WindowEnds
<1>9. ASSUME NEW k \in Id, SessionAges(k) PROVE Ledgered'
  <2>1. /\ Len(sessions') = Len(sessions)
        /\ \A i \in Id : sessions'[i].status = sessions[i].status
        /\ UNCHANGED <<pc, reviews, peers, full, basis>>
    BY <1>9, AgesEffect DEF CouncilTypes
  <2>2. OpenRows'
    BY <1>0, <2>1 DEF OpenRows, Id
  <2> QED BY <1>0, <2>1, <2>2, StillMissing DEF Ledgered
<1> QED BY <1>2, <1>3, <1>4, <1>5, <1>6, <1>7, <1>8, <1>9, StageEndsMissing DEF Next, ReviewStep

\* Before the first review there are no rows and nobody is missing.
LEMMA InitLedgered == Init => Ledgered
<1> SUFFICES ASSUME Init PROVE Ledgered
  OBVIOUS
<1>1. /\ sessions = <<>> /\ pc = [t \in Thread |-> "idle"] /\ full = [t \in Thread |-> TRUE]
  BY DEF Init
<1>2. Id = {} /\ Len(sessions) <= MaxReviews
  BY <1>1, CouncilAssumption DEF Id
<1> QED BY <1>1, <1>2 DEF Ledgered, OpenRows, Missing

\* Where one row is written, one session changes.
LEMMA OneRowChanges ==
    ASSUME OpenRows, NEW k \in Id, Len(sessions) \in Nat, Len(sessions') = Len(sessions),
           \A i \in Id : i # k => sessions'[i] = sessions[i]
    PROVE  /\ k \in 1..MaxReviews
           /\ StatusOf[k] = sessions[k].status /\ DecisionOf[k] = sessions[k].decision
           /\ StatusOf' = [StatusOf EXCEPT ![k] = sessions'[k].status]
           /\ DecisionOf' = [DecisionOf EXCEPT ![k] = sessions'[k].decision]
<1>1. MaxReviews \in Nat /\ Len(sessions) <= MaxReviews /\ Id' = Id /\ k \in 1..MaxReviews
  BY CouncilAssumption DEF OpenRows, Id
<1>2. \A i \in 1..MaxReviews : i # k => RowOf(i)' = RowOf(i)
  BY <1>1 DEF RowOf
<1>3. RowOf(k)' = sessions'[k] /\ RowOf(k) = sessions[k]
  BY <1>1 DEF RowOf
<1> QED BY <1>1, <1>2, <1>3 DEF StatusOf, DecisionOf

\* and likewise where one caller is told something.
LEMMA OneIsTold ==
    ASSUME OpenRows, NEW k \in Id, Len(sessions) \in Nat, Len(sessions') = Len(sessions),
           \A i \in Id : i # k => told'[i] = told[i]
    PROVE  /\ HeardOf[k] = told[k]
           /\ HeardOf' = [HeardOf EXCEPT ![k] = told'[k]]
<1>1. MaxReviews \in Nat /\ Len(sessions) <= MaxReviews /\ Id' = Id /\ k \in 1..MaxReviews
  BY CouncilAssumption DEF OpenRows, Id
<1> QED BY <1>1 DEF HeardOf

\* Where nothing is written, or rows only grow older, no session changes.
LEMMA NoRowChanges ==
    ASSUME Len(sessions') = Len(sessions),
           \A i \in Id : sessions'[i].status = sessions[i].status
                      /\ sessions'[i].decision = sessions[i].decision
    PROVE  StatusOf' = StatusOf /\ DecisionOf' = DecisionOf
<1>1. Id' = Id
  BY DEF Id
<1>2. \A i \in 1..MaxReviews : RowOf(i)'.status = RowOf(i).status
                            /\ RowOf(i)'.decision = RowOf(i).decision
  BY <1>1 DEF RowOf
<1> QED BY <1>2 DEF StatusOf, DecisionOf

\* _save_session opens a session.
LEMMA SaveOpens ==
    ASSUME CouncilTypes, Ledgered, NEW t \in Thread, SaveSession(t)
    PROVE  \E i \in 1..MaxReviews : Ledger!Open(i)
<1>0. PICK n : n = Len(sessions) + 1
  OBVIOUS
<1>1. /\ Len(sessions') = n /\ Len(sessions) \in Nat
      /\ \A i \in Id : /\ sessions'[i] = sessions[i] /\ told'[i] = told[i]
                       /\ basis'[i] = basis[i]
      /\ sessions'[n].status = "RUNNING" /\ sessions'[n].decision = "none"
      /\ told'[n] = "nothing"
      /\ sid' = [sid EXCEPT ![t] = n]
  BY <1>0, SaveEffect DEF CouncilTypes
<1>2. /\ Len(sessions) < MaxReviews /\ served' = served
      /\ basis' = Append(basis, NoGrounds)
      /\ sid[t] = 0 /\ sid \in [Thread -> Id \cup {0}]
  BY DEF SaveSession, CouncilTypes, Shapes, Local
<1>3. basis'[n] = NoGrounds
  <2>1. basis \in Seq(Basis) /\ Len(basis) = Len(sessions)
    BY DEF CouncilTypes, Shapes
  <2> QED BY <1>0, <1>2, <2>1
<1>4. /\ n \in 1..MaxReviews /\ MaxReviews \in Nat /\ n # 0
      /\ n \notin Id /\ Id' = Id \cup {n} /\ Id \subseteq 1..MaxReviews
  BY <1>0, <1>1, <1>2, CouncilAssumption DEF Id
<1>5. /\ \A i \in 1..MaxReviews : i # n => RowOf(i)' = RowOf(i)
      /\ RowOf(n).status = "none" /\ RowOf(n).decision = "none"
      /\ RowOf(n)'.status = "RUNNING" /\ RowOf(n)'.decision = "none"
  <2>1. ASSUME NEW i \in 1..MaxReviews, i # n PROVE RowOf(i)' = RowOf(i)
    <3>1. i \in Id' <=> i \in Id
      BY <1>4, <2>1
    <3> QED BY <1>1, <3>1 DEF RowOf
  <2>2. RowOf(n)' = sessions'[n]
    <3>1. n \in Id'
      BY <1>4
    <3> QED BY <3>1 DEF RowOf
  <2>3. RowOf(n) = [status |-> "none", decision |-> "none"]
    BY <1>4 DEF RowOf
  <2> QED BY <1>1, <2>1, <2>2, <2>3
<1>6. /\ StatusOf[n] = "none" /\ StatusOf' = [StatusOf EXCEPT ![n] = "RUNNING"]
      /\ DecisionOf' = DecisionOf
  <2>1. /\ StatusOf = [i \in 1..MaxReviews |-> RowOf(i).status]
        /\ StatusOf' = [i \in 1..MaxReviews |-> RowOf(i)'.status]
        /\ DecisionOf = [i \in 1..MaxReviews |-> RowOf(i).decision]
        /\ DecisionOf' = [i \in 1..MaxReviews |-> RowOf(i)'.decision]
    BY DEF StatusOf, DecisionOf
  <2>2. \A i \in 1..MaxReviews :
           /\ RowOf(i)'.status = IF i = n THEN "RUNNING" ELSE RowOf(i).status
           /\ RowOf(i)'.decision = RowOf(i).decision
    BY <1>5
  <2> QED BY <1>4, <1>5, <2>1, <2>2
<1>7. HeardOf' = HeardOf
  BY <1>1, <1>4 DEF HeardOf
<1>8. Answered' = Answered
  <2>1. ~basis'[n].everybody
    BY <1>3 DEF NoGrounds
  <2>2. \A i \in Id' : i \in Id \/ i = n
    BY <1>4
  <2>3. Id \subseteq Id'
    BY <1>4
  <2> QED BY <1>1, <2>1, <2>2, <2>3 DEF Answered
<1>9. Live' = Live \cup {n}
  BY <1>1, <1>2, <1>4 DEF Live
<1> QED BY <1>2, <1>4, <1>6, <1>7, <1>8, <1>9 DEF Ledger!Open

\* _finalize decides the session of its thread.
LEMMA FinalizeDecides ==
    ASSUME CouncilTypes, Honest, Ledgered, NEW t \in Thread, Finalize(t)
    PROVE  \E i \in 1..MaxReviews, v \in Decision, everybody \in BOOLEAN :
              Ledger!Decide(i, v, everybody)
<1> DEFINE k == sid[t]
<1>1. /\ k \in Id /\ pc[t] = "finalize"
      /\ Len(sessions') = Len(sessions)
      /\ sessions'[k].status = (IF full[t] THEN "DONE" ELSE "DEGRADED")
      /\ sessions'[k].decision = Decided(t)
      /\ basis'[k] = Grounds(t)
      /\ \A i \in Id : i # k => sessions'[i] = sessions[i] /\ basis'[i] = basis[i]
      /\ UNCHANGED <<sid, told, served>>
  <2>1. /\ k \in Id /\ pc[t] = "finalize"
        /\ Len(sessions') = Len(sessions)
        /\ sessions'[k] = [status   |-> IF full[t] THEN "DONE" ELSE "DEGRADED",
                           decision |-> Decided(t), old |-> sessions[k].old]
        /\ basis'[k] = Grounds(t)
        /\ \A i \in Id : i # k => sessions'[i] = sessions[i] /\ basis'[i] = basis[i]
        /\ UNCHANGED <<sid, told, served>>
    BY FinalizeEffect DEF CouncilTypes
  <2> HIDE DEF k
  <2> QED BY <2>1
<1>2. OpenRows /\ Len(sessions) \in Nat /\ full[t] \in BOOLEAN /\ k # 0 /\ Id' = Id
  BY <1>1, LenProperties DEF Ledgered, CouncilTypes, Shapes, Id
<1>3. sessions[k].status = "RUNNING" /\ ~basis[k].everybody
  BY <1>1, <1>2 DEF Honest, Owns, Begun, OpenRows
<1>4. full[t] <=> Grounds(t).everybody
  <2>1. full[t] => Grounds(t).everybody
    BY <1>1 DEF Honest, Complete, Grounds
  <2>2. ~full[t] => ~Grounds(t).everybody
    BY <1>1 DEF Ledgered, Missing, Grounds
  <2> QED BY <2>1, <2>2
<1>5. k \in Live
  BY <1>2 DEF Live
<1> HIDE DEF k
<1>6. /\ k \in 1..MaxReviews /\ StatusOf[k] = "RUNNING"
      /\ StatusOf' = [StatusOf EXCEPT ![k] = IF full[t] THEN "DONE" ELSE "DEGRADED"]
      /\ DecisionOf' = [DecisionOf EXCEPT ![k] = Decided(t)]
  <2>1. \A i \in Id : i # k => sessions'[i] = sessions[i]
    BY <1>1
  <2>2. /\ k \in 1..MaxReviews /\ StatusOf[k] = sessions[k].status
        /\ StatusOf' = [StatusOf EXCEPT ![k] = sessions'[k].status]
        /\ DecisionOf' = [DecisionOf EXCEPT ![k] = sessions'[k].decision]
    BY <1>1, <1>2, <2>1, OneRowChanges
  <2> QED BY <1>1, <1>3, <2>2
<1>7. Answered' = IF full[t] THEN Answered \cup {k} ELSE Answered
  BY <1>1, <1>2, <1>3, <1>4 DEF Answered
<1>8. Live' = Live /\ HeardOf' = HeardOf
  BY <1>1, <1>2 DEF Live, HeardOf
<1>9. Ledger!Decide(k, Decided(t), full[t])
  BY <1>1, <1>5, <1>6, <1>7, <1>8 DEF Ledger!Decide
<1> QED BY <1>2, <1>6, <1>9, DecidedType

\* A review that ends reports its verdict or fails.
LEMMA EndTells ==
    ASSUME CouncilTypes, Honest, Ledgered, NEW t \in Thread,
           Returns(t) \/ MarkSessionFailed(t) \/ MarkRaises(t)
    PROVE  \E i \in 1..MaxReviews : Ledger!Report(i) \/ Ledger!Fail(i)
<1> DEFINE k == sid[t]
<1>1. /\ k \in Id /\ pc[t] \in {"emit", "mark"}
      /\ Len(sessions') = Len(sessions)
      /\ pc[t] = "emit" => told'[k] = Decided(t) /\ sessions' = sessions
      /\ pc[t] = "mark" => told'[k] = "raised"
      /\ \/ sessions' = sessions
         \/ sessions'[k] = [status |-> "FAILED", decision |-> sessions[k].decision,
                            old |-> sessions[k].old]
      /\ \A i \in Id : i # k => sessions'[i] = sessions[i] /\ told'[i] = told[i]
      /\ sid' = [sid EXCEPT ![t] = 0]
      /\ UNCHANGED <<served, basis>>
  BY EndEffect DEF CouncilTypes, Forget
<1>2. /\ OpenRows /\ Len(sessions) \in Nat /\ k # 0 /\ Id' = Id
      /\ sid \in [Thread -> Id \cup {0}]
  BY <1>1, LenProperties DEF Ledgered, CouncilTypes, Shapes, Id
<1>3. /\ told[k] = "nothing"
      /\ \A u \in Thread : sid[u] = k => u = t
      /\ pc[t] = "emit" => /\ sessions[k].decision = Decided(t)
                           /\ sessions[k].status \in {"DONE", "DEGRADED"}
  BY <1>2 DEF Honest, Owns
<1>4. k \in Live /\ Live' = Live \ {k}
  BY <1>1, <1>2, <1>3 DEF Live
<1> HIDE DEF k
<1>5. /\ k \in 1..MaxReviews
      /\ StatusOf[k] = sessions[k].status /\ DecisionOf[k] = sessions[k].decision
      /\ StatusOf' = [StatusOf EXCEPT ![k] = sessions'[k].status]
      /\ DecisionOf' = [DecisionOf EXCEPT ![k] = sessions'[k].decision]
  <2>1. \A i \in Id : i # k => sessions'[i] = sessions[i]
    BY <1>1
  <2> QED BY <1>1, <1>2, <2>1, OneRowChanges
<1>6. HeardOf[k] = "nothing" /\ HeardOf' = [HeardOf EXCEPT ![k] = told'[k]]
  <2>1. \A i \in Id : i # k => told'[i] = told[i]
    BY <1>1
  <2> QED BY <1>1, <1>2, <1>3, <2>1, OneIsTold
<1>7. DecisionOf' = DecisionOf /\ Answered' = Answered
  <2>1. sessions'[k].decision = DecisionOf[k]
    BY <1>1, <1>5
  <2> QED BY <1>1, <1>2, <1>5, <2>1 DEF DecisionOf, Answered
<1>8. StatusOf' \in {StatusOf, [StatusOf EXCEPT ![k] = "FAILED"]}
  <2>1. CASE sessions' = sessions
    BY <1>5, <2>1 DEF StatusOf
  <2>2. CASE sessions'[k] = [status |-> "FAILED", decision |-> sessions[k].decision,
                             old |-> sessions[k].old]
    BY <1>5, <2>2
  <2> QED BY <1>1, <2>1, <2>2
<1>9. CASE pc[t] = "mark"
  <2>1. Ledger!Fail(k)
    BY <1>1, <1>4, <1>6, <1>7, <1>8, <1>9 DEF Ledger!Fail, Ledger!Tell
  <2> QED BY <1>5, <2>1
<1>10. CASE pc[t] = "emit"
  <2>1. StatusOf' = StatusOf
    BY <1>1, <1>5, <1>10 DEF StatusOf
  <2>2. told'[k] = DecisionOf[k] /\ StatusOf[k] \in {"DONE", "DEGRADED"}
    BY <1>1, <1>3, <1>5, <1>10
  <2>3. Ledger!Report(k)
    BY <1>1, <1>4, <1>6, <1>7, <2>1, <2>2 DEF Ledger!Report, Ledger!Tell
  <2> QED BY <1>5, <2>3
<1> QED BY <1>1, <1>9, <1>10

\* A cache hit replays a session.
LEMMA HitReplays ==
    ASSUME CouncilTypes, Ledgered, NEW t \in Thread, CacheHit(t)
    PROVE  \E i \in 1..MaxReviews : Ledger!Replay(i)
<1>1. /\ Cached # {} /\ served' = served \cup Cached
      /\ UNCHANGED <<sessions, sid, told, basis>>
  BY DEF CacheHit, locals
<1>2. PICK i : i \in Cached
  BY <1>1
<1>3. i \in Id /\ sessions[i].status = "DONE"
  BY <1>2 DEF Cached, Cacheable
<1>4. Len(sessions) \in Nat
  BY LenProperties DEF CouncilTypes, Shapes
<1>5. ASSUME NEW j \in Cached PROVE j = i
  <2>1. j \in Id /\ Cacheable(j) /\ Cacheable(i) /\ j <= i /\ i <= j
    BY <1>2, <1>3 DEF Cached
  <2> QED BY <1>3, <1>4, <2>1 DEF Id
<1>6. served' = served \cup {i}
  BY <1>1, <1>2, <1>5
<1>7. i \in 1..MaxReviews
  BY <1>3, <1>4, CouncilAssumption DEF Ledgered, OpenRows, Id
<1>8. StatusOf[i] = "DONE"
  BY <1>3, <1>7 DEF StatusOf, RowOf
<1>9. UNCHANGED <<StatusOf, DecisionOf, HeardOf, Answered, Live>>
  BY <1>1 DEF StatusOf, DecisionOf, RowOf, HeardOf, Answered, Live, Id
<1>10. Ledger!Replay(i)
  BY <1>6, <1>8, <1>9 DEF Ledger!Replay
<1> QED BY <1>7, <1>10

\* Every step of the council is a step of Sessions or none.
LEMMA LedgerStep ==
    ASSUME CouncilTypes, Honest, Ledgered, [Next]_vars
    PROVE  [Ledger!Next]_(Ledger!sessionVars)
<1>1. ASSUME UNCHANGED <<sessions, told, basis, sid, served>>
      PROVE  UNCHANGED <<StatusOf, DecisionOf, Answered, Live, HeardOf, served>>
  BY <1>1 DEF StatusOf, DecisionOf, RowOf, HeardOf, Answered, Live, Id
<1>2. ASSUME UNCHANGED <<StatusOf, DecisionOf, Answered, Live, HeardOf, served>>
      PROVE  UNCHANGED Ledger!sessionVars
  BY <1>2 DEF Ledger!sessionVars
<1>3. CASE UNCHANGED vars
  BY <1>1, <1>2, <1>3 DEF vars, locals, history
<1>4. ASSUME NEW t \in Thread,
             \/ CacheMiss(t) \/ StageBegins(t) \/ DeadlinePasses(t) \/ StageEnds(t) \/ Raises(t)
             \/ \E m \in Member : Answers(t, m)
      PROVE  UNCHANGED Ledger!sessionVars
  <2>1. UNCHANGED <<sessions, told, basis, sid, served>>
    BY <1>4 DEF CacheMiss, StageBegins, DeadlinePasses, StageEnds, Raises, Answers,
                locals, history
  <2> QED BY <1>1, <1>2, <2>1
<1>5. ASSUME NEW m \in Member, WindowEnds(m) PROVE UNCHANGED Ledger!sessionVars
  BY <1>1, <1>2, <1>5 DEF WindowEnds, locals, history
<1>6. ASSUME NEW k \in Id, SessionAges(k) PROVE UNCHANGED Ledger!sessionVars
  <2>1. /\ Len(sessions') = Len(sessions)
        /\ \A i \in Id : sessions'[i].status = sessions[i].status
                      /\ sessions'[i].decision = sessions[i].decision
        /\ UNCHANGED <<sid, told, served, basis>>
    BY <1>6, AgesEffect DEF CouncilTypes, locals, history
  <2>2. StatusOf' = StatusOf /\ DecisionOf' = DecisionOf
    BY <2>1, NoRowChanges
  <2>3. HeardOf' = HeardOf /\ Answered' = Answered /\ Live' = Live
    BY <2>1 DEF HeardOf, Answered, Live, Id
  <2> QED BY <1>2, <2>1, <2>2, <2>3
<1>7. ASSUME Crash PROVE Ledger!Die
  <2>1. sid' = [t \in Thread |-> 0] /\ UNCHANGED <<sessions, told, basis, served>>
    BY <1>7 DEF Crash, history
  <2>2. Live' = {}
    BY <2>1 DEF Live
  <2>3. UNCHANGED <<StatusOf, DecisionOf, HeardOf, Answered>>
    BY <2>1 DEF StatusOf, DecisionOf, RowOf, HeardOf, Answered, Id
  <2> QED BY <2>1, <2>2, <2>3 DEF Ledger!Die
<1>8. ASSUME Next
      PROVE  \/ UNCHANGED Ledger!sessionVars \/ Ledger!Die
             \/ \E i \in 1..MaxReviews :
                   \/ Ledger!Open(i) \/ Ledger!Report(i) \/ Ledger!Fail(i) \/ Ledger!Replay(i)
                   \/ \E v \in Decision, everybody \in BOOLEAN : Ledger!Decide(i, v, everybody)
  <2>1. ASSUME NEW t \in Thread, ReviewStep(t) \/ Raises(t) \/ MarkRaises(t)
                                 \/ \E m \in Member : Answers(t, m)
        PROVE  \/ UNCHANGED Ledger!sessionVars
               \/ \E i \in 1..MaxReviews :
                     \/ Ledger!Open(i) \/ Ledger!Report(i) \/ Ledger!Fail(i) \/ Ledger!Replay(i)
                     \/ \E v \in Decision, everybody \in BOOLEAN : Ledger!Decide(i, v, everybody)
    BY <1>4, <2>1, SaveOpens, FinalizeDecides, EndTells, HitReplays DEF ReviewStep
  <2> QED BY <1>5, <1>6, <1>7, <1>8, <2>1 DEF Next
<1> QED BY <1>3, <1>8 DEF Ledger!Next

\* However many threads review the subject, and whatever answers, raises, is late or
\* dies, the council is a register of sessions that are decided at most once, whose
\* callers are told once, each by the one thread that has its row.
THEOREM Implements == Spec => ImplementsSessions
<1>1. Init => Ledger!Init
  <2> SUFFICES ASSUME Init PROVE Ledger!Init
    OBVIOUS
  <2>1. /\ sessions = <<>> /\ served = {} /\ sid = [t \in Thread |-> 0]
    BY DEF Init
  <2>2. Id = {}
    BY <2>1 DEF Id
  <2>3. Live = {} /\ Answered = {}
    BY <2>1, <2>2 DEF Live, Answered
  <2> QED BY <2>1, <2>2, <2>3 DEF Ledger!Init, StatusOf, DecisionOf, HeardOf, RowOf
<1>2. Spec => []Ledgered
  BY InitLedgered, LedgeredStep, TypesHold, HonestHolds, PTL DEF Spec
<1> QED BY <1>1, <1>2, TypesHold, HonestHolds, LedgerStep, PTL
        DEF Spec, ImplementsSessions, Ledger!Spec

=============================================================================
