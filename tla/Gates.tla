------------------------------- MODULE Gates -------------------------------
(***************************************************************************)
(* How the council turns reviews into a verdict (council/service.py,       *)
(* _aggregate) under a gate policy (council/schemas.py, GatePolicy).       *)
(* Without a policy the code does the same with every weight 1, no `lower` *)
(* dimension, and approve_at for safety and tests only.                    *)
(*                                                                         *)
(* Everything _aggregate looks at besides the reviews is one record, the   *)
(* jury j, with the fields                                                 *)
(*    weight      CouncilMember.weight of each configured member           *)
(*    dimWeight   DimensionPolicy.weight of each dimension of the policy   *)
(*    lower       the dimensions whose direction is "lower"                *)
(*    approveAt   DimensionPolicy.approve_at, where it is given            *)
(*    evidence    CouncilRequest.evidence_scores: host-derived scores      *)
(*    min, max    the scale of the request                                 *)
(*    overall     min_overall                                              *)
(*    agreement   min_agreement, in percent                                *)
(*    reject      reject_max_overall                                       *)
(*                                                                         *)
(* Scores are integers (half points, say); means are fractions             *)
(* <<numerator, denominator>>, where the code has floats.                  *)
(***************************************************************************)
EXTENDS Integers, FiniteSets, Functions

Dim(j)   == DOMAIN j.dimWeight
Score(j) == j.min..j.max

\* What the validators of policies, members, thresholds and requests let pass.
ValidJury(j) ==
    /\ IsFiniteSet(DOMAIN j.weight) /\ j.weight \in [DOMAIN j.weight -> Nat \ {0}]
    /\ IsFiniteSet(Dim(j)) /\ Dim(j) # {} /\ j.dimWeight \in [Dim(j) -> Nat \ {0}]
    /\ j.min \in Int /\ j.max \in Int /\ j.min < j.max
    /\ j.overall \in Score(j) /\ j.reject \in Score(j) /\ j.reject <= j.overall
    /\ j.agreement \in 0..100
    /\ j.lower \subseteq Dim(j)
    /\ DOMAIN j.approveAt \subseteq Dim(j) /\ \A d \in DOMAIN j.approveAt : j.approveAt[d] \in Score(j)
    /\ DOMAIN j.evidence \subseteq Dim(j) /\ \A d \in DOMAIN j.evidence : j.evidence[d] \in Score(j)

\* A valid ModelReview: every dimension scored, and does it recommend approval?
Review(j) == [scores : [Dim(j) -> Score(j)], approves : BOOLEAN]

-----------------------------------------------------------------------------
Plus(x, y)    == <<x[1] * y[2] + y[1] * x[2], x[2] * y[2]>>
AtLeast(x, n) == x[1] >= n * x[2]
AtMost(x, n)  == x[1] <= n * x[2]

WeightOf(j, members) == SumFunctionOnSet(j.weight, members)

\* _weighted_mean of a function from members to fractions.
Mean(j, value) ==
    LET sum == FoldFunction(Plus, <<0, 1>>, [m \in DOMAIN value |->
                                                 <<j.weight[m] * value[m][1], value[m][2]>>])
    IN  <<sum[1], sum[2] * WeightOf(j, DOMAIN value)>>

\* Bug: a low score is bad in a "lower" dimension, too.
QualityUndirected(j, d, s) == s

\* _quality_score: higher is better, once a "lower" dimension is turned round.
Quality(j, d, s) == IF d \in j.lower THEN j.min + j.max - s ELSE s

\* Bug: the member's own score counts where the host has evidence.
JudgedBySelf(j, r, d) == r.scores[d]

\* evidence_scores.get(name, review.self_scores[name])
Judged(j, r, d) == IF d \in DOMAIN j.evidence THEN j.evidence[d] ELSE r.scores[d]

\* _self_overall: the mean over the policy's dimensions.
SelfOverall(j, r) == << SumFunction([d \in Dim(j) |-> j.dimWeight[d] * Quality(j, d, Judged(j, r, d))]),
                     SumFunction(j.dimWeight) >>

\* Bug: a member's score of its own review counts among its peers'.
EffectiveOverallWithOwn(j, m, reviews, peers) ==
    LET self  == SelfOverall(j, reviews[m])
        other == DOMAIN peers
        both  == Plus(self, Mean(j, [e \in other |-> <<peers[e][m], 1>>]))
    IN  IF other = {} THEN self ELSE <<both[1], 2 * both[2]>>

\* Half of what a member says of itself and half of what its peers say of it.
\* peers[e][m] is the overall score evaluator e gives to the review of m.
EffectiveOverall(j, m, reviews, peers) ==
    LET self  == SelfOverall(j, reviews[m])
        other == DOMAIN peers \ {m}
        both  == Plus(self, Mean(j, [e \in other |-> <<peers[e][m], 1>>]))
    IN  IF other = {} THEN self ELSE <<both[1], 2 * both[2]>>

AvgOverall(j, reviews, peers) ==
    Mean(j, [m \in DOMAIN reviews |-> EffectiveOverall(j, m, reviews, peers)])

Agrees(j, reviews) ==
    100 * WeightOf(j, { m \in DOMAIN reviews : reviews[m].approves })
        >= j.agreement * WeightOf(j, DOMAIN reviews)

\* dimension_averages, against approve_at in the dimension's direction.
Passes(j, d, reviews) ==
    LET avg == Mean(j, [m \in DOMAIN reviews |-> <<Judged(j, reviews[m], d), 1>>])
    IN  IF d \in j.lower THEN AtMost(avg, j.approveAt[d]) ELSE AtLeast(avg, j.approveAt[d])

Verdict(j, reviews, peers) ==
    LET avg == AvgOverall(j, reviews, peers)
    IN  CASE /\ AtLeast(avg, j.overall)
             /\ Agrees(j, reviews)
             /\ \A d \in DOMAIN j.approveAt : Passes(j, d, reviews) -> "APPROVE"
          [] OTHER -> IF AtMost(avg, j.reject) THEN "REJECT" ELSE "REWORK"

=============================================================================
