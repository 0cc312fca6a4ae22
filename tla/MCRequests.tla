----------------------------- MODULE MCRequests -----------------------------
(***************************************************************************)
(* Instance of Requests for TLC: a base configuration and a base request,  *)
(* and one variant of each for every field that may differ.                *)
(***************************************************************************)
EXTENDS Requests, TLC

CONSTANTS m1, m2, strict, mild

Of(provider, weight) ==
    [provider |-> provider, base_url |-> None, model |-> None, role |-> None, weight |-> weight]

Base == [members    |-> (m1 :> Of(mild, 3)) @@ (m2 :> Of(strict, 1)),
         thresholds |-> [overall |-> 8, safety |-> 9, tests |-> 7, agreement |-> 70, reject |-> 5],
         peerEval   |-> "high_risk_only", quorum |-> 2, ttl |-> 1, maxContent |-> 1]

MCConfigs == {
    Base,
    [Base EXCEPT !.members[m2].weight = 3],
    [Base EXCEPT !.members[m1].provider = strict],
    [Base EXCEPT !.members[m1].base_url = strict],
    [Base EXCEPT !.members[m1].model = strict],
    [Base EXCEPT !.members[m1].role = strict],
    [Base EXCEPT !.members = m1 :> Of(mild, 1), !.quorum = 1],
    [Base EXCEPT !.thresholds.agreement = 80],
    [Base EXCEPT !.thresholds.safety = 10],
    [Base EXCEPT !.peerEval = "always"],
    [Base EXCEPT !.quorum = 1],
    [Base EXCEPT !.ttl = 0],
    \* Not accepted by the constructor, and without a council.
    [Base EXCEPT !.quorum = 3],
    [Base EXCEPT !.members[m1].weight = 0],
    [Base EXCEPT !.thresholds.reject = 9],
    [Base EXCEPT !.members = <<>>] }

Plain == [namespace |-> "default", subject |-> "diff", size |-> 1, evidence |-> <<>>,
          rubric |-> {"correctness", "safety"}, min |-> 2, max |-> 10, risk |-> "medium",
          gate |-> None, policy |-> None]

Merge == [Plain EXCEPT !.gate = "merge",
                       !.evidence = [ci_status |-> 10, branch_protection |-> 10]]

Custom == [Gate("delegation", [value |-> 7, risk |-> 4], {"risk"}, {"risk"})
              EXCEPT !.weight["risk"] = 2, !.agreement = 60]

MCAsked == {
    Plain,
    [Plain EXCEPT !.risk = "high"],
    [Plain EXCEPT !.rubric = {"correctness"}],
    [Plain EXCEPT !.evidence = [safety |-> 4]],
    Merge,
    [Merge EXCEPT !.evidence["ci_status"] = 4],
    [Plain EXCEPT !.gate = "delegation"],
    [Plain EXCEPT !.policy = Custom, !.evidence = [risk |-> 2]],
    [Plain EXCEPT !.policy = [Custom EXCEPT !.agreement = 80], !.evidence = [risk |-> 2]],
    \* Refused by the schema or by the service.
    [Merge EXCEPT !.evidence = [ci_status |-> 10]],
    [Plain EXCEPT !.max = 8],
    [Plain EXCEPT !.evidence = [tests |-> 10]],
    [Plain EXCEPT !.evidence = [safety |-> 12]],
    [Plain EXCEPT !.gate = "unheard_of"],
    [Plain EXCEPT !.gate = "merge", !.policy = Custom],
    [Plain EXCEPT !.policy = [Custom EXCEPT !.reject = 9]],
    [Plain EXCEPT !.size = 2] }

\* Whatever makes a member strict, it wants rework then; else it approves with the
\* best scores.
Strict(member) == strict \in {member.provider, member.base_url, member.model, member.role}

MCAnswer(id, member, r) ==
    LET p == EffectivePolicy(r)
        low == IF p = None THEN {} ELSE p.lower
    IN  [scores |-> [d \in Dims(r) |-> IF d \in low THEN r.min
                                       ELSE IF Strict(member) THEN r.max - 2 ELSE r.max],
         approves |-> ~Strict(member)]

MCPeerScore(id, member, r) == IF Strict(member) THEN r.min ELSE r.max
=============================================================================
