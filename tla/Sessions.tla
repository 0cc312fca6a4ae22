------------------------------ MODULE Sessions ------------------------------
(***************************************************************************)
(* What CouncilService.review() promises about its sessions, with nothing  *)
(* said of members, stages, deadlines, cooldowns or threads: a session is  *)
(* opened, decided at most once, and its caller is told once, either the   *)
(* verdict that its row goes on showing or that the review failed; only a  *)
(* verdict that everybody had a part in is given to anyone else.           *)
(***************************************************************************)
CONSTANTS Session, Verdicts

VARIABLES
    status,    \* of each session's row, "none" while there is no row
    verdict,   \* of each session, "none" until it is decided
    whole,     \* the sessions decided with every member's answer
    live,      \* the sessions that a caller waits for
    heard,     \* what each session's caller was told
    replayed   \* the sessions whose verdict was given to other callers

sessionVars == <<status, verdict, whole, live, heard, replayed>>

Init ==
    /\ status = [i \in Session |-> "none"]
    /\ verdict = [i \in Session |-> "none"]
    /\ whole = {} /\ live = {} /\ replayed = {}
    /\ heard = [i \in Session |-> "nothing"]

Open(i) ==
    /\ status[i] = "none"
    /\ status' = [status EXCEPT ![i] = "RUNNING"]
    /\ live' = live \cup {i}
    /\ UNCHANGED <<verdict, whole, heard, replayed>>

\* The row says whether anybody was missing.
Decide(i, v, everybody) ==
    /\ i \in live /\ status[i] = "RUNNING"
    /\ status' = [status EXCEPT ![i] = IF everybody THEN "DONE" ELSE "DEGRADED"]
    /\ verdict' = [verdict EXCEPT ![i] = v]
    /\ whole' = IF everybody THEN whole \cup {i} ELSE whole
    /\ UNCHANGED <<live, heard, replayed>>

\* The caller is told something, once, and is gone.
Tell(i, what) ==
    /\ i \in live /\ heard[i] = "nothing"
    /\ heard' = [heard EXCEPT ![i] = what]
    /\ live' = live \ {i}
    /\ UNCHANGED <<verdict, whole, replayed>>

Report(i) ==
    /\ status[i] \in {"DONE", "DEGRADED"}
    /\ Tell(i, verdict[i])
    /\ UNCHANGED status

\* The caller gets an exception; marking the row may fail as well.
Fail(i) ==
    /\ Tell(i, "raised")
    /\ status' \in {status, [status EXCEPT ![i] = "FAILED"]}

Replay(i) ==
    /\ status[i] = "DONE"
    /\ replayed' = replayed \cup {i}
    /\ UNCHANGED <<status, verdict, whole, live, heard>>

\* All callers are gone.
Die ==
    /\ live' = {}
    /\ UNCHANGED <<status, verdict, whole, heard, replayed>>

Next ==
    \/ \E i \in Session :
          \/ Open(i) \/ Report(i) \/ Fail(i) \/ Replay(i)
          \/ \E v \in Verdicts, everybody \in BOOLEAN : Decide(i, v, everybody)
    \/ Die

Spec == Init /\ [][Next]_sessionVars
=============================================================================
