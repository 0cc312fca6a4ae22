------------------------------ MODULE Requests ------------------------------
(***************************************************************************)
(* What the council accepts and what it replays: the validators of         *)
(* council/schemas.py, the checks of CouncilService.__init__ and           *)
(* _validate_request, and the verdict cache under its fingerprint.  The    *)
(* table council_sessions outlives the service: a host starts it again     *)
(* with other members or thresholds, and the old verdicts are still there. *)
(*                                                                         *)
(* A review is one step here (module Council has its stages, calls and     *)
(* crashes) and so is a lookup.  A member's answers are a function of the  *)
(* member as it is configured, which is what llm_fn is given, and of the   *)
(* request: what differs between two services differs because their        *)
(* configurations do.  The api_key is left out.                            *)
(*                                                                         *)
(* Scores are half points, agreement is in percent; hashes are the values  *)
(* they are taken of.  Names are not spelt out: _validate_identifier, the  *)
(* limits on lengths and what is no finite number are left out.            *)
(***************************************************************************)
EXTENDS Gates

CONSTANTS
    Configs,              \* what hosts construct a service with
    Requests,             \* what hosts ask
    Answer(_, _, _),      \* Answer(id, member, request): a member's valid review
    PeerScore(_, _, _),   \* PeerScore(id, member, request): its score of each other's
    None,                 \* Python's None
    MaxSessions           \* BOUND on the reviews that are not replayed

VARIABLES
    config,     \* the configuration of the present service
    cache,      \* the newest DONE session of each cache key: its decision, and
                \* (history) the members that came to it
    reply,      \* history: the last reply, and to what
    sessions    \* how many of the MaxSessions sessions there have been

vars == <<config, cache, reply, sessions>>

NoReply == [verdict |-> None]

-----------------------------------------------------------------------------
(* schemas.py.                                                             *)

\* _gate, with the defaults of GatePolicy and DimensionPolicy.
Gate(name, approveAt, lower, required) ==
    [name |-> name, weight |-> [d \in DOMAIN approveAt |-> 1], lower |-> lower,
     approveAt |-> approveAt, required |-> required,
     overall |-> 8, agreement |-> 70, reject |-> 5]

GATE_POLICIES == [
    code_edit    |-> Gate("code_edit", [correctness |-> 8, safety |-> 9, style |-> 6,
                          tests |-> 7, minimal_change |-> 8], {}, {}),
    pr_review    |-> Gate("pr_review", [correctness |-> 8, safety |-> 9, tests |-> 7,
                          documentation |-> 6, scope |-> 8], {}, {}),
    merge        |-> Gate("merge", [correctness |-> 8, safety |-> 9, tests |-> 7,
                          ci_status |-> 9, branch_protection |-> 9],
                          {}, {"ci_status", "branch_protection"}),
    delegation   |-> Gate("delegation", [feasibility |-> 8, clarity |-> 8, risk |-> 4,
                          dependencies |-> 7, value |-> 7], {"risk"}, {}),
    security     |-> Gate("security", [vulnerability_severity |-> 4, exploitability |-> 4,
                          fix_correctness |-> 9, blast_radius |-> 4, compliance |-> 8],
                          {"vulnerability_severity", "exploitability", "blast_radius"}, {}),
    code_quality |-> Gate("code_quality", [complexity |-> 5, duplication |-> 5,
                          test_coverage |-> 7, documentation |-> 6, maintainability |-> 8],
                          {"complexity", "duplication"}, {}),
    dependency   |-> Gate("dependency", [vulnerability |-> 4, license_compliance |-> 8,
                          version_freshness |-> 6, supply_chain |-> 8, breaking_changes |-> 5],
                          {"vulnerability", "breaking_changes"}, {}),
    architecture |-> Gate("architecture", [cohesion |-> 8, coupling |-> 5, scalability |-> 7,
                          observability |-> 7, evolution |-> 8], {"coupling"}, {})]

\* DimensionPolicy and GatePolicy._valid_policy.
ValidPolicy(p) ==
    /\ DOMAIN p.weight # {}
    /\ \A d \in DOMAIN p.weight : p.weight[d] > 0
    /\ p.required \subseteq DOMAIN p.weight
    /\ p.agreement \in 0..100
    /\ p.reject <= p.overall

\* CouncilRequest._valid_request and its field validators.
ValidRequest(r) ==
    /\ r.risk \in {"low", "medium", "high"}
    /\ r.min < r.max
    /\ r.rubric # {}
    /\ IF r.policy # None THEN ValidPolicy(r.policy) /\ r.gate \in {None, r.policy.name}
                          ELSE r.gate \in {None} \cup DOMAIN GATE_POLICIES

\* _valid_request fills in the name of a policy it was given.
GateOf(r) == IF r.policy # None THEN r.policy.name ELSE r.gate

EffectivePolicy(r) ==
    IF r.policy # None THEN r.policy
    ELSE IF r.gate # None THEN GATE_POLICIES[r.gate] ELSE None

Dims(r) == IF EffectivePolicy(r) # None THEN DOMAIN EffectivePolicy(r).weight ELSE r.rubric

\* CouncilMember, CouncilThresholds and CouncilService.__init__.
ValidConfig(c) ==
    /\ \A m \in DOMAIN c.members : c.members[m].weight > 0
    /\ c.thresholds.agreement \in 0..100
    /\ c.thresholds.reject <= c.thresholds.overall
    /\ c.peerEval \in {"never", "high_risk_only", "always"}
    /\ c.quorum >= 1
    /\ DOMAIN c.members # {} => c.quorum <= Cardinality(DOMAIN c.members)
    /\ c.ttl >= 0 /\ c.maxContent >= 1

-----------------------------------------------------------------------------
(* _validate_request.                                                      *)

\* The policy a request is judged by: without one the thresholds make it up.
Judge(c, r) ==
    IF EffectivePolicy(r) # None THEN EffectivePolicy(r)
    ELSE [name |-> None, weight |-> [d \in r.rubric |-> 1], lower |-> {}, required |-> {},
          approveAt |-> [d \in r.rubric \cap {"safety", "tests"} |->
                            IF d = "safety" THEN c.thresholds.safety ELSE c.thresholds.tests],
          overall |-> c.thresholds.overall, agreement |-> c.thresholds.agreement,
          reject |-> c.thresholds.reject]

\* Bug: a gate's required evidence is only a wish.
EvidencedOrNot(r, p) ==
    /\ DOMAIN r.evidence \subseteq Dims(r)
    /\ \A d \in DOMAIN r.evidence : r.evidence[d] \in r.min..r.max

Evidenced(r, p) ==
    /\ DOMAIN r.evidence \subseteq Dims(r)
    /\ \A d \in DOMAIN r.evidence : r.evidence[d] \in r.min..r.max
    /\ p.required \subseteq DOMAIN r.evidence

\* Bug: only the overall thresholds are compared with the scale.
OverallFits(r, p) == {p.overall, p.reject} \subseteq r.min..r.max

FitsScale(r, p) == {p.overall, p.reject} \cup Range(p.approveAt) \subseteq r.min..r.max

Accepts(c, r) ==
    /\ DOMAIN c.members # {}
    /\ r.size <= c.maxContent
    /\ Evidenced(r, Judge(c, r))
    /\ FitsScale(r, Judge(c, r))

-----------------------------------------------------------------------------
(* The verdict.                                                            *)

\* What _aggregate is given besides the reviews.
Jury(c, r) ==
    LET p == Judge(c, r)
    IN  [weight |-> [m \in DOMAIN c.members |-> c.members[m].weight],
         dimWeight |-> p.weight, lower |-> p.lower, approveAt |-> p.approveAt,
         evidence |-> r.evidence, min |-> r.min, max |-> r.max,
         overall |-> p.overall, agreement |-> p.agreement, reject |-> p.reject]

HasPeerRound(c, r) ==
    \/ c.peerEval = "always"
    \/ c.peerEval = "high_risk_only" /\ r.risk = "high"

\* The decision when `answered` review and `judging` score their peers.
Decision(c, r, answered, judging) ==
    IF Cardinality(answered) < c.quorum THEN "REWORK"
    ELSE Verdict(Jury(c, r),
           [m \in answered |-> Answer(m, c.members[m], r)],
           [e \in judging |-> [m \in answered |-> PeerScore(e, c.members[e], r)]])

\* Who is asked to judge the reviews: every member, also one without a review.
Asked(c, r, answered) ==
    IF HasPeerRound(c, r) /\ Cardinality(answered) >= c.quorum THEN DOMAIN c.members ELSE {}

-----------------------------------------------------------------------------
(* The cache key.                                                          *)

SubjectHash(r) == <<r.namespace, r.subject, r.evidence>>

RubricHash(r) == <<Dims(r), r.min, r.max, r.risk, GateOf(r), EffectivePolicy(r)>>

\* Bug: the members are known by their ids.
FingerprintOfIds(c, r) ==
    <<RubricHash(r), DOMAIN c.members, c.thresholds, c.peerEval, c.quorum>>

\* _cache_fingerprint, which leaves out the model and the role of a member.
Hashed(m) == [provider |-> m.provider, weight |-> m.weight, base_url |-> m.base_url]

Fingerprint(c, r) ==
    <<RubricHash(r), [m \in DOMAIN c.members |-> Hashed(c.members[m])],
      c.thresholds, c.peerEval, c.quorum>>

CacheKey(c, r) == <<SubjectHash(r), Fingerprint(c, r)>>

-----------------------------------------------------------------------------
(* What the constants are.  The shapes are the annotated types that the    *)
(* validators above rely on.                                               *)

PolicyShape(p) ==
    /\ IsFiniteSet(DOMAIN p.weight) /\ p.weight \in [DOMAIN p.weight -> Int]
    /\ p.lower \subseteq DOMAIN p.weight
    /\ DOMAIN p.approveAt \subseteq DOMAIN p.weight
    /\ \A d \in DOMAIN p.approveAt : p.approveAt[d] \in Int
    /\ {p.overall, p.agreement, p.reject} \subseteq Int

RequestShape(r) ==
    /\ DOMAIN r = {"namespace", "subject", "size", "evidence", "rubric", "min", "max",
                   "risk", "gate", "policy"}
    /\ \A d \in DOMAIN r.evidence : r.evidence[d] \in Int
    /\ IsFiniteSet(r.rubric) /\ {r.size, r.min, r.max} \subseteq Int
    /\ r.policy # None => PolicyShape(r.policy)

ConfigShape(c) ==
    /\ DOMAIN c = {"members", "thresholds", "peerEval", "quorum", "ttl", "maxContent"}
    /\ IsFiniteSet(DOMAIN c.members) /\ \A m \in DOMAIN c.members : c.members[m].weight \in Int
    /\ LET t == c.thresholds IN {t.overall, t.safety, t.tests, t.agreement, t.reject} \subseteq Int
    /\ {c.quorum, c.ttl, c.maxContent} \subseteq Int

ASSUME RequestsAssumption ==
    /\ \A c \in Configs : ConfigShape(c)
    /\ \A r \in Requests : RequestShape(r)
    /\ None # "APPROVE"

\* What a member is told of a request, in _review_prompt and in _stage2, is all
\* hashed: it answers requests with the same hashes alike.
ASSUME PromptAssumption ==
    \A r, q \in { x \in Requests : ValidRequest(x) } :
        SubjectHash(r) = SubjectHash(q) /\ RubricHash(r) = RubricHash(q) =>
        \A c \in Configs : \A m \in DOMAIN c.members :
            /\ Answer(m, c.members[m], r) = Answer(m, c.members[m], q)
            /\ PeerScore(m, c.members[m], r) = PeerScore(m, c.members[m], q)

-----------------------------------------------------------------------------
(* The service.                                                            *)

Init ==
    /\ config \in { c \in Configs : ValidConfig(c) }
    /\ cache = <<>>
    /\ reply = NoReply
    /\ sessions = 0

\* The host starts a service with another configuration on the same database.
Construct(c) ==
    /\ ValidConfig(c) /\ c # config
    /\ config' = c
    /\ reply' = NoReply
    /\ UNCHANGED <<cache, sessions>>

\* No CouncilRequest can be made of it, or review() raises before it looks.
Refuse(r) ==
    /\ ~(ValidRequest(r) /\ Accepts(config, r))
    /\ reply' = NoReply
    /\ UNCHANGED <<config, cache, sessions>>

Cached(r) == config.ttl > 0 /\ CacheKey(config, r) \in DOMAIN cache

\* A hit is replayed unless it is older than the ttl; time is not modelled.
Replay(r) ==
    /\ ValidRequest(r) /\ Accepts(config, r)
    /\ Cached(r)
    /\ LET hit == cache[CacheKey(config, r)]
       IN  reply' = [verdict |-> hit.verdict, by |-> hit.by, request |-> r, cached |-> TRUE]
    /\ UNCHANGED <<config, cache, sessions>>

\* A miss, or a hit that is too old: some members answer, and some judge the
\* reviews.  The session is DONE, and cached, when every call succeeds.
ReviewAfresh(r) ==
    /\ ValidRequest(r) /\ Accepts(config, r)
    /\ sessions < MaxSessions /\ sessions' = sessions + 1
    /\ \E answered \in SUBSET DOMAIN config.members :
       \E judging \in SUBSET Asked(config, r, answered) :
         LET verdict == Decision(config, r, answered, judging)
             done    == /\ answered = DOMAIN config.members
                        /\ judging = Asked(config, r, answered)
             key     == CacheKey(config, r)
             entry   == [verdict |-> verdict, by |-> config.members]
         IN  /\ reply' = [verdict |-> verdict, by |-> config.members, request |-> r,
                          cached |-> FALSE]
             /\ cache' = [k \in DOMAIN cache \cup {k \in {key} : done} |->
                             IF done /\ k = key THEN entry ELSE cache[k]]
    /\ UNCHANGED config

Next ==
    \/ \E c \in Configs : Construct(c)
    \/ \E r \in Requests : Refuse(r) \/ Replay(r) \/ ReviewAfresh(r)

Spec == Init /\ [][Next]_vars

-----------------------------------------------------------------------------
(* Properties.                                                             *)

\* The decision of the whole council.
WholeCouncil(c, r) == Decision(c, r, DOMAIN c.members, Asked(c, r, DOMAIN c.members))

\* What a replayed verdict may be out of date with is a member's model or role, and
\* nothing else: with the members as they were it is what the present service would
\* come to if they all answered, and they are its members, with the same providers,
\* base URLs and weights.  So no change of members, thresholds, quorum, peer mode,
\* gate policy, scale, risk or evidence is hidden by the cache.
ReplayIsFresh ==
    reply # NoReply /\ reply.cached =>
        /\ reply.verdict = WholeCouncil([config EXCEPT !.members = reply.by], reply.request)
        /\ DOMAIN reply.by = DOMAIN config.members
        /\ \A m \in DOMAIN reply.by : \A field \in {"provider", "base_url", "weight"} :
              reply.by[m][field] = config.members[m][field]

\* service.py: "Cache identity covers the subject, policy, risk, thresholds, member
\* configuration, and a policy version": what is replayed is what the present service
\* would come to.
MembersCovered ==
    reply # NoReply /\ reply.cached => reply.verdict = WholeCouncil(config, reply.request)

Meets(p, d, score) == IF d \in p.lower THEN score <= p.approveAt[d] ELSE score >= p.approveAt[d]

\* Evidence is not outvoted: nothing is approved, afresh or from the cache, without
\* the evidence its gate requires, nor when the host's score misses approve_at.
EvidenceDecides ==
    reply.verdict = "APPROVE" =>
        LET p == Judge(config, reply.request)
            given == DOMAIN reply.request.evidence
        IN  /\ p.required \subseteq given
            /\ \A d \in given \cap DOMAIN p.approveAt : Meets(p, d, reply.request.evidence[d])

\* The request with the best evidence, and the best review of it.
Best(r, p, d)  == IF d \in p.lower THEN r.min ELSE r.max
AtBest(r, p)   == [r EXCEPT !.evidence = [d \in DOMAIN r.evidence |-> Best(r, p, d)]]
BestOf(r, p)   == [scores |-> [d \in Dims(r) |-> Best(r, p, d)], approves |-> TRUE]

\* What is accepted is not hopeless: if the host has nothing against it, every
\* member approves with the best scores and the peers agree, it is approved.
NoneIsHopeless ==
    \A r \in Requests : ValidRequest(r) /\ Accepts(config, r) =>
        LET p   == Judge(config, r)
            all == DOMAIN config.members
        IN  Verdict(Jury(config, AtBest(r, p)), [m \in all |-> BestOf(r, p)],
                    [e \in all |-> [m \in all |-> r.max]]) = "APPROVE"

=============================================================================
