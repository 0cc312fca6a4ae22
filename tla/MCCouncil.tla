----------------------------- MODULE MCCouncil -----------------------------
(***************************************************************************)
(* Instance of Council for TLC: two members, of weights 2 and 1, under a   *)
(* policy with a dimension of either direction and one the host answers.   *)
(* Scores are half points, so that 4.0, 4.5 and 2.5 are integers.          *)
(***************************************************************************)
EXTENDS Council, TLC

CONSTANTS m1, m2, correctness, risk, ci_status

MCJury == [
    weight    |-> (m1 :> 2) @@ (m2 :> 1),
    dimWeight |-> [d \in {correctness, risk, ci_status} |-> 1],
    lower     |-> {risk},
    approveAt |-> (correctness :> 8) @@ (risk :> 4) @@ (ci_status :> 9),
    evidence  |-> ci_status :> 10,
    min |-> 2, max |-> 10,
    overall |-> 8, agreement |-> 70, reject |-> 5]

\* The best review there is, and one that finds the change wrong and risky.
MCReplies ==
    { [scores |-> (correctness :> 10) @@ (risk :> 2) @@ (ci_status :> 8), approves |-> TRUE],
      [scores |-> (correctness :> 2) @@ (risk :> 10) @@ (ci_status :> 10), approves |-> FALSE] }
=============================================================================
