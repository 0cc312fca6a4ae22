--------------------------- MODULE RequestsProofs ---------------------------
(***************************************************************************)
(* Proofs about Requests, for any configurations and requests with the     *)
(* shapes of the code's types, and any members' answers.                   *)
(***************************************************************************)
EXTENDS Requests, GatesProofs

\* A request that is reviewed, and the configuration of the service that does.
Accepted(c, r) ==
    /\ c \in Configs /\ ValidConfig(c)
    /\ r \in Requests /\ ValidRequest(r) /\ Accepts(c, r)

\* What is cached was decided by a whole council, of whatever service.
CacheSound ==
    \A k \in DOMAIN cache : \E c \in Configs, r \in Requests :
        /\ Accepted(c, r) /\ k = CacheKey(c, r)
        /\ cache[k] = [verdict |-> WholeCouncil(c, r), by |-> c.members]

\* What is replied is the decision of some members of a service about a request, with
\* the key that the present service gives the present request; what is replayed is
\* that of all of them.
ReplySound ==
    reply # NoReply =>
        /\ Accepted(config, reply.request)
        /\ \E c \in Configs, q \in Requests :
              /\ Accepted(c, q) /\ CacheKey(c, q) = CacheKey(config, reply.request)
              /\ \E answered \in SUBSET DOMAIN c.members :
                    \E judging \in SUBSET Asked(c, q, answered) :
                       reply.verdict = Decision(c, q, answered, judging)
              /\ reply.cached => reply.verdict = WholeCouncil(c, q) /\ reply.by = c.members

Replays == config \in Configs /\ ValidConfig(config) /\ CacheSound /\ ReplySound

-----------------------------------------------------------------------------
(* The cache key says all that the decision depends on, but for the models *)
(* and the roles of the members.                                           *)

\* Equal keys are of requests that are judged alike and have the same evidence.
LEMMA SameJudge ==
    ASSUME NEW c, NEW q, NEW d, NEW r, CacheKey(c, q) = CacheKey(d, r)
    PROVE  /\ q.evidence = r.evidence /\ q.min = r.min /\ q.max = r.max /\ q.risk = r.risk
           /\ SubjectHash(q) = SubjectHash(r) /\ RubricHash(q) = RubricHash(r)
           /\ c.thresholds = d.thresholds /\ c.peerEval = d.peerEval /\ c.quorum = d.quorum
           /\ Judge(c, q) = Judge(d, r)
<1>1. SubjectHash(q) = SubjectHash(r) /\ Fingerprint(c, q) = Fingerprint(d, r)
  BY DEF CacheKey
<1>2. /\ RubricHash(q) = RubricHash(r)
      /\ c.thresholds = d.thresholds /\ c.peerEval = d.peerEval /\ c.quorum = d.quorum
  BY <1>1 DEF Fingerprint
<1>3. q.evidence = r.evidence
  BY <1>1 DEF SubjectHash
<1>4. /\ Dims(q) = Dims(r) /\ q.min = r.min /\ q.max = r.max /\ q.risk = r.risk
      /\ EffectivePolicy(q) = EffectivePolicy(r)
  BY <1>2 DEF RubricHash
<1>5. CASE EffectivePolicy(r) # None
  BY <1>1, <1>2, <1>3, <1>4, <1>5 DEF Judge
<1>6. CASE EffectivePolicy(r) = None
  <2>1. q.rubric = r.rubric
    BY <1>4, <1>6 DEF Dims
  <2>2. Judge(c, q) = Judge(d, r)
    BY <1>2, <1>4, <1>6, <2>1 DEF Judge
  <2> QED BY <1>1, <1>2, <1>3, <1>4, <2>2
<1> QED BY <1>5, <1>6

\* They are of services with the same members, but for models and roles.
LEMMA SameMembers ==
    ASSUME NEW c, NEW q, NEW d, NEW r, CacheKey(c, q) = CacheKey(d, r)
    PROVE  /\ DOMAIN c.members = DOMAIN d.members
           /\ \A m \in DOMAIN c.members : \A field \in {"provider", "base_url", "weight"} :
                 c.members[m][field] = d.members[m][field]
<1>1. Fingerprint(c, q) = Fingerprint(d, r)
  BY DEF CacheKey
<1>2. [m \in DOMAIN c.members |-> Hashed(c.members[m])]
      = [m \in DOMAIN d.members |-> Hashed(d.members[m])]
  BY <1>1 DEF Fingerprint
<1>3. DOMAIN c.members = DOMAIN d.members
  BY <1>2
<1>4. ASSUME NEW m \in DOMAIN c.members
      PROVE  \A field \in {"provider", "base_url", "weight"} :
                c.members[m][field] = d.members[m][field]
  <2>1. Hashed(c.members[m]) = Hashed(d.members[m])
    BY <1>2, <1>3
  <2>2. /\ c.members[m].provider = d.members[m].provider
        /\ c.members[m].weight = d.members[m].weight
        /\ c.members[m].base_url = d.members[m].base_url
    BY <2>1 DEF Hashed
  <2> QED BY <2>2
<1> QED BY <1>3, <1>4

\* Services with the same key decide alike by whole councils, if the one has the
\* other's members.
LEMMA SameDecision ==
    ASSUME NEW c, NEW q, NEW d, NEW r, Accepted(c, q), Accepted(d, r), CacheKey(c, q) = CacheKey(d, r)
    PROVE  WholeCouncil(c, q) = WholeCouncil([d EXCEPT !.members = c.members], r)
<1> DEFINE e == [d EXCEPT !.members = c.members]
           A == DOMAIN c.members
<1>1. ConfigShape(d)
  BY RequestsAssumption DEF Accepted
<1>2. /\ e.members = c.members /\ e.thresholds = d.thresholds
      /\ e.peerEval = d.peerEval /\ e.quorum = d.quorum
  BY <1>1 DEF ConfigShape
<1> HIDE DEF e
<1>3. /\ q.evidence = r.evidence /\ q.min = r.min /\ q.max = r.max /\ q.risk = r.risk
      /\ SubjectHash(q) = SubjectHash(r) /\ RubricHash(q) = RubricHash(r)
      /\ e.thresholds = c.thresholds /\ e.peerEval = c.peerEval /\ e.quorum = c.quorum
      /\ Judge(c, q) = Judge(d, r)
  BY <1>2, SameJudge
<1>4. Judge(e, r) = Judge(d, r)
  BY <1>2 DEF Judge
<1>5. Jury(c, q) = Jury(e, r)
  BY <1>2, <1>3, <1>4 DEF Jury
<1>6. \A m \in A : /\ Answer(m, c.members[m], q) = Answer(m, c.members[m], r)
                   /\ PeerScore(m, c.members[m], q) = PeerScore(m, c.members[m], r)
  BY <1>3, PromptAssumption DEF Accepted
<1>7. \A S : Asked(c, q, S) = Asked(e, r, S)
  BY <1>2, <1>3 DEF Asked, HasPeerRound
<1>8. ASSUME NEW S \in SUBSET A, NEW T \in SUBSET A
      PROVE  Decision(c, q, S, T) = Decision(e, r, S, T)
  <2> DEFINE given(x)  == [m \in S |-> Answer(m, c.members[m], x)]
             judged(x) == [f \in T |-> [m \in S |-> PeerScore(f, c.members[f], x)]]
  <2>1. given(q) = given(r)
    BY <1>6
  <2>2. judged(q) = judged(r)
    BY <1>6
  <2>3. Decision(c, q, S, T) = IF Cardinality(S) < c.quorum THEN "REWORK"
                               ELSE Verdict(Jury(c, q), given(q), judged(q))
    BY DEF Decision
  <2>4. Decision(e, r, S, T) = IF Cardinality(S) < c.quorum THEN "REWORK"
                               ELSE Verdict(Jury(c, q), given(r), judged(r))
    BY <1>2, <1>3, <1>5 DEF Decision
  <2> HIDE DEF given, judged
  <2> QED BY <2>1, <2>2, <2>3, <2>4
<1>9. Asked(c, q, A) \in SUBSET A
  BY DEF Asked
<1>10. WholeCouncil(c, q) = Decision(c, q, A, Asked(c, q, A)) /\ WholeCouncil(e, r) = Decision(e, r, A, Asked(c, q, A))
  BY <1>2, <1>7 DEF WholeCouncil
<1>11. WholeCouncil(c, q) = WholeCouncil(e, r)
  BY <1>8, <1>9, <1>10
<1> QED BY <1>11 DEF e

-----------------------------------------------------------------------------
(* The invariant.                                                          *)

\* A review replies what some members decide; what it caches all of them do.
LEMMA ReviewStep ==
    ASSUME Replays, NEW r \in Requests, ReviewAfresh(r)
    PROVE  Replays'
<1> DEFINE key == CacheKey(config, r)
<1>1. /\ ValidRequest(r) /\ Accepts(config, r) /\ config' = config
      /\ config \in Configs /\ ValidConfig(config) /\ CacheSound
  BY DEF ReviewAfresh, Replays
<1>2. Accepted(config, r)
  BY <1>1 DEF Accepted
<1>3. PICK answered \in SUBSET DOMAIN config.members : \E judging \in SUBSET Asked(config, r, answered) :
         LET verdict == Decision(config, r, answered, judging)
             done    == answered = DOMAIN config.members /\ judging = Asked(config, r, answered)
             entry   == [verdict |-> verdict, by |-> config.members]
         IN  /\ reply' = [verdict |-> verdict, by |-> config.members, request |-> r,
                          cached |-> FALSE]
             /\ cache' = [k \in DOMAIN cache \cup {k \in {key} : done} |->
                             IF done /\ k = key THEN entry ELSE cache[k]]
  BY DEF ReviewAfresh
<1>4. PICK judging \in SUBSET Asked(config, r, answered) :
         LET verdict == Decision(config, r, answered, judging)
             done    == answered = DOMAIN config.members /\ judging = Asked(config, r, answered)
             entry   == [verdict |-> verdict, by |-> config.members]
         IN  /\ reply' = [verdict |-> verdict, by |-> config.members, request |-> r,
                          cached |-> FALSE]
             /\ cache' = [k \in DOMAIN cache \cup {k \in {key} : done} |->
                             IF done /\ k = key THEN entry ELSE cache[k]]
  BY <1>3
<1> DEFINE verdict == Decision(config, r, answered, judging)
           done  == answered = DOMAIN config.members /\ judging = Asked(config, r, answered)
           entry == [verdict |-> verdict, by |-> config.members]
<1>5. reply' = [verdict |-> verdict, by |-> config.members, request |-> r, cached |-> FALSE]
  BY <1>4
<1>6. cache' = [k \in DOMAIN cache \cup {k \in {key} : done} |->
                   IF done /\ k = key THEN entry ELSE cache[k]]
  BY <1>4
<1>7. done => verdict = WholeCouncil(config, r)
  BY DEF WholeCouncil
<1>8. ReplySound'
  <2>1. reply'.verdict = verdict /\ reply'.request = r /\ reply'.cached = FALSE
    BY <1>5
  <2> HIDE DEF verdict, done, entry
  <2>2. Accepted(config, reply'.request) /\ CacheKey(config, r) = CacheKey(config, reply'.request)
    BY <1>2, <2>1
  <2>3. \E a \in SUBSET DOMAIN config.members : \E g \in SUBSET Asked(config, r, a) :
           reply'.verdict = Decision(config, r, a, g)
    BY <2>1 DEF verdict
  <2> QED BY <1>1, <2>1, <2>2, <2>3 DEF ReplySound
<1>9. CacheSound'
  <2> HIDE DEF verdict, done, key, entry
  <2> SUFFICES ASSUME NEW k \in DOMAIN cache'
               PROVE  \E c \in Configs, q \in Requests :
                         /\ Accepted(c, q) /\ k = CacheKey(c, q)
                         /\ cache'[k] = [verdict |-> WholeCouncil(c, q), by |-> c.members]
    BY DEF CacheSound
  <2>1. CASE done /\ k = key
    <3>1. cache'[k] = entry
      BY <1>6, <2>1
    <3>2. /\ cache'[k] = [verdict |-> WholeCouncil(config, r), by |-> config.members]
          /\ k = CacheKey(config, r)
      BY <1>7, <2>1, <3>1 DEF key, entry
    <3> QED BY <1>1, <1>2, <3>2
  <2>2. CASE ~(done /\ k = key)
    <3>1. k \in DOMAIN cache /\ cache'[k] = cache[k]
      BY <1>6, <2>2
    <3> QED BY <1>1, <3>1 DEF CacheSound
  <2> QED BY <2>1, <2>2
<1> QED BY <1>1, <1>8, <1>9 DEF Replays

\* A replay replies what a whole council has decided under the same key.
LEMMA ReplayStep ==
    ASSUME Replays, NEW r \in Requests, Replay(r)
    PROVE  Replays'
<1> DEFINE key == CacheKey(config, r)
           hit == cache[key]
<1>1. /\ ValidRequest(r) /\ Accepts(config, r) /\ config' = config /\ cache' = cache
      /\ key \in DOMAIN cache
      /\ reply' = [verdict |-> hit.verdict, by |-> hit.by, request |-> r, cached |-> TRUE]
      /\ config \in Configs /\ ValidConfig(config) /\ CacheSound
  BY DEF Replay, Replays, Cached
<1>2. Accepted(config, r)
  BY <1>1 DEF Accepted
<1>3. PICK c \in Configs, q \in Requests :
         /\ Accepted(c, q) /\ key = CacheKey(c, q)
         /\ hit = [verdict |-> WholeCouncil(c, q), by |-> c.members]
  BY <1>1 DEF CacheSound
<1>4. reply'.verdict = WholeCouncil(c, q) /\ reply'.by = c.members /\ reply'.request = r
  BY <1>1, <1>3
<1>5. \E a \in SUBSET DOMAIN c.members : \E g \in SUBSET Asked(c, q, a) :
         reply'.verdict = Decision(c, q, a, g)
  BY <1>4 DEF WholeCouncil
<1> HIDE DEF hit
<1>6. ReplySound'
  BY <1>1, <1>2, <1>3, <1>4, <1>5 DEF ReplySound
<1>7. CacheSound'
  BY <1>1 DEF CacheSound
<1> QED BY <1>1, <1>6, <1>7 DEF Replays

\* Nothing but decisions is cached or replied.
LEMMA ReplaysHold == Spec => []Replays
<1>1. Init => Replays
  <2> SUFFICES ASSUME Init PROVE Replays
    OBVIOUS
  <2>1. config \in Configs /\ ValidConfig(config) /\ reply = NoReply /\ cache = <<>>
    BY DEF Init
  <2>2. DOMAIN cache = {}
    BY <2>1
  <2> QED BY <2>1, <2>2 DEF Replays, CacheSound, ReplySound
<1>2. ASSUME Replays, [Next]_vars PROVE Replays'
  <2>1. ASSUME NEW c \in Configs, Construct(c) PROVE Replays'
    BY <1>2, <2>1 DEF Construct, Replays, CacheSound, ReplySound
  <2>2. ASSUME NEW r \in Requests, Refuse(r) PROVE Replays'
    BY <1>2, <2>2 DEF Refuse, Replays, CacheSound, ReplySound
  <2>3. ASSUME NEW r \in Requests, Replay(r) PROVE Replays'
    BY <1>2, <2>3, ReplayStep
  <2>4. ASSUME NEW r \in Requests, ReviewAfresh(r) PROVE Replays'
    BY <1>2, <2>4, ReviewStep
  <2>5. CASE UNCHANGED vars
    BY <1>2, <2>5 DEF vars, Replays, CacheSound, ReplySound
  <2> QED BY <1>2, <2>1, <2>2, <2>3, <2>4, <2>5 DEF Next
<1> QED BY <1>1, <1>2, PTL DEF Spec

\* A replayed verdict is out of date with the models and roles of the members at most:
\* with the members as they were it is what the present service would come to if they
\* all answered, however that one was set up when the verdict was given.
THEOREM ReplaysAreFresh == Spec => []ReplayIsFresh
<1>1. ASSUME Replays PROVE ReplayIsFresh
  <2> SUFFICES ASSUME reply # NoReply, reply.cached
               PROVE  /\ reply.verdict = WholeCouncil([config EXCEPT !.members = reply.by], reply.request)
                      /\ DOMAIN reply.by = DOMAIN config.members
                      /\ \A m \in DOMAIN reply.by : \A field \in {"provider", "base_url", "weight"} :
                            reply.by[m][field] = config.members[m][field]
    BY DEF ReplayIsFresh
  <2>1. Accepted(config, reply.request)
    BY <1>1 DEF Replays, ReplySound
  <2>2. PICK c \in Configs, q \in Requests :
           /\ Accepted(c, q) /\ CacheKey(c, q) = CacheKey(config, reply.request)
           /\ reply.verdict = WholeCouncil(c, q) /\ reply.by = c.members
    BY <1>1 DEF Replays, ReplySound
  <2>3. reply.verdict = WholeCouncil([config EXCEPT !.members = reply.by], reply.request)
    BY <2>1, <2>2, SameDecision
  <2> QED BY <2>2, <2>3, SameMembers
<1> QED BY <1>1, ReplaysHold, PTL

-----------------------------------------------------------------------------
(* What passes the validators makes a valid jury.                          *)

\* A gate of at most five dimensions.
Five(f) == \E a, b, c, d, e : DOMAIN f = {a, b, c, d, e}

\* It is a policy with the right shape, and valid, with the defaults _gate gives it.
LEMMA GateIsPolicy ==
    ASSUME NEW name, NEW f, Five(f), \A d \in DOMAIN f : f[d] \in Int,
           NEW low \in SUBSET DOMAIN f, NEW req \in SUBSET DOMAIN f
    PROVE  PolicyShape(Gate(name, f, low, req)) /\ ValidPolicy(Gate(name, f, low, req))
<1> DEFINE g == Gate(name, f, low, req)
<1>1. PICK a, b, c, d, e : DOMAIN f = {a, b, c, d, e}
  BY DEF Five
<1>2. IsFiniteSet(DOMAIN f)
  <2>1. {a, b, c, d, e} = {a} \cup ({b} \cup ({c} \cup ({d} \cup {e})))
    OBVIOUS
  <2>2. IsFiniteSet({a}) /\ IsFiniteSet({b}) /\ IsFiniteSet({c}) /\ IsFiniteSet({d}) /\ IsFiniteSet({e})
    BY FS_Singleton
  <2>3. IsFiniteSet({a} \cup ({b} \cup ({c} \cup ({d} \cup {e}))))
    BY <2>2, FS_Union
  <2> QED BY <1>1, <2>1, <2>3
<1>3. DOMAIN f # {}
  BY <1>1
<1>4. /\ g.weight = [d2 \in DOMAIN f |-> 1] /\ g.lower = low /\ g.approveAt = f /\ g.required = req
      /\ g.overall = 8 /\ g.agreement = 70 /\ g.reject = 5
  BY DEF Gate
<1> HIDE DEF g
<1>5. /\ DOMAIN g.weight = DOMAIN f /\ \A d2 \in DOMAIN f : g.weight[d2] = 1
      /\ g.weight \in [DOMAIN f -> Int]
  BY <1>4
<1>6. PolicyShape(g)
  BY <1>2, <1>4, <1>5 DEF PolicyShape
<1>7. ValidPolicy(g)
  BY <1>3, <1>4, <1>5 DEF ValidPolicy
<1> QED BY <1>6, <1>7 DEF g

\* All gates of the code are.
LEMMA GatesArePolicies ==
    ASSUME NEW g \in DOMAIN GATE_POLICIES
    PROVE  PolicyShape(GATE_POLICIES[g]) /\ ValidPolicy(GATE_POLICIES[g])
<1>1. CASE g = "code_edit"
  <2> DEFINE f == [correctness |-> 8, safety |-> 9, style |-> 6, tests |-> 7, minimal_change |-> 8]
  <2>1. DOMAIN f = {"correctness", "safety", "style", "tests", "minimal_change"}
    OBVIOUS
  <2>2. Five(f)
    BY <2>1 DEF Five
  <2>3. GATE_POLICIES[g] = Gate("code_edit", f, {}, {})
    BY <1>1 DEF GATE_POLICIES
  <2>4. \A d \in DOMAIN f : f[d] \in Int
    OBVIOUS
  <2> HIDE DEF f
  <2> QED BY <2>2, <2>3, <2>4, GateIsPolicy
<1>2. CASE g = "pr_review"
  <2> DEFINE f == [correctness |-> 8, safety |-> 9, tests |-> 7, documentation |-> 6, scope |-> 8]
  <2>1. DOMAIN f = {"correctness", "safety", "tests", "documentation", "scope"}
    OBVIOUS
  <2>2. Five(f)
    BY <2>1 DEF Five
  <2>3. GATE_POLICIES[g] = Gate("pr_review", f, {}, {})
    BY <1>2 DEF GATE_POLICIES
  <2>4. \A d \in DOMAIN f : f[d] \in Int
    OBVIOUS
  <2> HIDE DEF f
  <2> QED BY <2>2, <2>3, <2>4, GateIsPolicy
<1>3. CASE g = "merge"
  <2> DEFINE f == [correctness |-> 8, safety |-> 9, tests |-> 7, ci_status |-> 9, branch_protection |-> 9]
             e == {"ci_status", "branch_protection"}
  <2>1. DOMAIN f = {"correctness", "safety", "tests", "ci_status", "branch_protection"}
    OBVIOUS
  <2>2. Five(f) /\ e \in SUBSET DOMAIN f
    BY <2>1 DEF Five
  <2>3. GATE_POLICIES[g] = Gate("merge", f, {}, e)
    BY <1>3 DEF GATE_POLICIES
  <2>4. \A d \in DOMAIN f : f[d] \in Int
    OBVIOUS
  <2> HIDE DEF f, e
  <2> QED BY <2>2, <2>3, <2>4, GateIsPolicy
<1>4. CASE g = "delegation"
  <2> DEFINE f == [feasibility |-> 8, clarity |-> 8, risk |-> 4, dependencies |-> 7, value |-> 7]
             e == {"risk"}
  <2>1. DOMAIN f = {"feasibility", "clarity", "risk", "dependencies", "value"}
    OBVIOUS
  <2>2. Five(f) /\ e \in SUBSET DOMAIN f
    BY <2>1 DEF Five
  <2>3. GATE_POLICIES[g] = Gate("delegation", f, e, {})
    BY <1>4 DEF GATE_POLICIES
  <2>4. \A d \in DOMAIN f : f[d] \in Int
    OBVIOUS
  <2> HIDE DEF f, e
  <2> QED BY <2>2, <2>3, <2>4, GateIsPolicy
<1>5. CASE g = "security"
  <2> DEFINE f == [vulnerability_severity |-> 4, exploitability |-> 4, fix_correctness |-> 9,
                   blast_radius |-> 4, compliance |-> 8]
             e == {"vulnerability_severity", "exploitability", "blast_radius"}
  <2>1. DOMAIN f = {"vulnerability_severity", "exploitability", "fix_correctness",
                    "blast_radius", "compliance"}
    OBVIOUS
  <2>2. Five(f) /\ e \in SUBSET DOMAIN f
    BY <2>1 DEF Five
  <2>3. GATE_POLICIES[g] = Gate("security", f, e, {})
    BY <1>5 DEF GATE_POLICIES
  <2>4. \A d \in DOMAIN f : f[d] \in Int
    OBVIOUS
  <2> HIDE DEF f, e
  <2> QED BY <2>2, <2>3, <2>4, GateIsPolicy
<1>6. CASE g = "code_quality"
  <2> DEFINE f == [complexity |-> 5, duplication |-> 5, test_coverage |-> 7,
                   documentation |-> 6, maintainability |-> 8]
             e == {"complexity", "duplication"}
  <2>1. DOMAIN f = {"complexity", "duplication", "test_coverage", "documentation", "maintainability"}
    OBVIOUS
  <2>2. Five(f) /\ e \in SUBSET DOMAIN f
    BY <2>1 DEF Five
  <2>3. GATE_POLICIES[g] = Gate("code_quality", f, e, {})
    BY <1>6 DEF GATE_POLICIES
  <2>4. \A d \in DOMAIN f : f[d] \in Int
    OBVIOUS
  <2> HIDE DEF f, e
  <2> QED BY <2>2, <2>3, <2>4, GateIsPolicy
<1>7. CASE g = "dependency"
  <2> DEFINE f == [vulnerability |-> 4, license_compliance |-> 8, version_freshness |-> 6,
                   supply_chain |-> 8, breaking_changes |-> 5]
             e == {"vulnerability", "breaking_changes"}
  <2>1. DOMAIN f = {"vulnerability", "license_compliance", "version_freshness", "supply_chain",
                    "breaking_changes"}
    OBVIOUS
  <2>2. Five(f) /\ e \in SUBSET DOMAIN f
    BY <2>1 DEF Five
  <2>3. GATE_POLICIES[g] = Gate("dependency", f, e, {})
    BY <1>7 DEF GATE_POLICIES
  <2>4. \A d \in DOMAIN f : f[d] \in Int
    OBVIOUS
  <2> HIDE DEF f, e
  <2> QED BY <2>2, <2>3, <2>4, GateIsPolicy
<1>8. CASE g = "architecture"
  <2> DEFINE f == [cohesion |-> 8, coupling |-> 5, scalability |-> 7, observability |-> 7, evolution |-> 8]
             e == {"coupling"}
  <2>1. DOMAIN f = {"cohesion", "coupling", "scalability", "observability", "evolution"}
    OBVIOUS
  <2>2. Five(f) /\ e \in SUBSET DOMAIN f
    BY <2>1 DEF Five
  <2>3. GATE_POLICIES[g] = Gate("architecture", f, e, {})
    BY <1>8 DEF GATE_POLICIES
  <2>4. \A d \in DOMAIN f : f[d] \in Int
    OBVIOUS
  <2> HIDE DEF f, e
  <2> QED BY <2>2, <2>3, <2>4, GateIsPolicy
<1>9. DOMAIN GATE_POLICIES = {"code_edit", "pr_review", "merge", "delegation", "security",
                              "code_quality", "dependency", "architecture"}
  BY DEF GATE_POLICIES
<1> QED BY <1>1, <1>2, <1>3, <1>4, <1>5, <1>6, <1>7, <1>8, <1>9

\* What a request is judged by is a valid policy, over the dimensions of the request.
LEMMA JudgeIsPolicy ==
    ASSUME NEW c, NEW r, Accepted(c, r)
    PROVE  LET p == Judge(c, r) IN PolicyShape(p) /\ ValidPolicy(p) /\ DOMAIN p.weight = Dims(r)
<1>1. ConfigShape(c) /\ RequestShape(r) /\ ValidConfig(c) /\ ValidRequest(r)
  BY RequestsAssumption DEF Accepted
<1>2. CASE EffectivePolicy(r) # None
  <2>1. PolicyShape(EffectivePolicy(r)) /\ ValidPolicy(EffectivePolicy(r))
    <3>1. CASE r.policy # None
      BY <1>1, <3>1 DEF EffectivePolicy, RequestShape, ValidRequest
    <3>2. CASE r.policy = None
      <4>1. r.gate \in DOMAIN GATE_POLICIES /\ EffectivePolicy(r) = GATE_POLICIES[r.gate]
        BY <1>1, <1>2, <3>2 DEF EffectivePolicy, ValidRequest
      <4> QED BY <4>1, GatesArePolicies
    <3> QED BY <3>1, <3>2
  <2> QED BY <1>2, <2>1 DEF Judge, Dims
<1>3. CASE EffectivePolicy(r) = None
  <2> DEFINE p == Judge(c, r)
             t == c.thresholds
             named == r.rubric \cap {"safety", "tests"}
  <2>1. p = [name |-> None, weight |-> [d \in r.rubric |-> 1], lower |-> {}, required |-> {},
             approveAt |-> [d \in named |-> IF d = "safety" THEN t.safety ELSE t.tests],
             overall |-> t.overall, agreement |-> t.agreement, reject |-> t.reject]
    BY <1>3 DEF Judge
  <2>2. /\ p.weight = [d \in r.rubric |-> 1] /\ p.lower = {} /\ p.required = {}
        /\ p.approveAt = [d \in named |-> IF d = "safety" THEN t.safety ELSE t.tests]
        /\ p.overall = t.overall /\ p.agreement = t.agreement /\ p.reject = t.reject
    BY <2>1
  <2> HIDE DEF p
  <2>3. /\ DOMAIN p.weight = r.rubric /\ \A d \in r.rubric : p.weight[d] = 1
        /\ DOMAIN p.approveAt = named
        /\ \A d \in named : p.approveAt[d] \in {t.safety, t.tests}
    BY <2>2
  <2>4. IsFiniteSet(r.rubric) /\ r.rubric # {}
    BY <1>1 DEF RequestShape, ValidRequest
  <2>5. /\ t.overall \in Int /\ t.safety \in Int /\ t.tests \in Int /\ t.agreement \in Int
        /\ t.reject \in Int
    BY <1>1 DEF ConfigShape
  <2>6. t.agreement \in 0..100 /\ t.reject <= t.overall
    BY <1>1 DEF ValidConfig
  <2> HIDE DEF t
  <2>7. PolicyShape(p)
    <3>1. \A d \in DOMAIN p.approveAt : p.approveAt[d] \in Int
      BY <2>3, <2>5
    <3>2. {p.overall, p.agreement, p.reject} \subseteq Int
      BY <2>2, <2>5
    <3>3. DOMAIN p.approveAt \subseteq DOMAIN p.weight /\ p.lower \subseteq DOMAIN p.weight
      BY <2>2, <2>3
    <3>4. IsFiniteSet(DOMAIN p.weight) /\ p.weight \in [DOMAIN p.weight -> Int]
      BY <2>2, <2>4
    <3> QED BY <3>1, <3>2, <3>3, <3>4 DEF PolicyShape
  <2>8. ValidPolicy(p)
    BY <2>2, <2>3, <2>4, <2>6 DEF ValidPolicy
  <2>9. DOMAIN p.weight = Dims(r)
    BY <1>3, <2>3 DEF Dims
  <2> QED BY <2>7, <2>8, <2>9 DEF p
<1> QED BY <1>2, <1>3

\* And the jury is one that the arithmetic of the verdict is proved for.
LEMMA JuryIsValid ==
    ASSUME NEW c, NEW r, Accepted(c, r)
    PROVE  ValidJury(Jury(c, r))
<1> DEFINE p == Judge(c, r)
           j == Jury(c, r)
<1>1. ConfigShape(c) /\ RequestShape(r) /\ ValidConfig(c) /\ ValidRequest(r) /\ Accepts(c, r)
  BY RequestsAssumption DEF Accepted
<1>2. PolicyShape(p) /\ ValidPolicy(p) /\ DOMAIN p.weight = Dims(r)
  BY JudgeIsPolicy
<1>3. Evidenced(r, p) /\ FitsScale(r, p)
  BY <1>1 DEF Accepts
<1>4. /\ j.weight = [m \in DOMAIN c.members |-> c.members[m].weight]
      /\ j.dimWeight = p.weight /\ j.lower = p.lower /\ j.approveAt = p.approveAt
      /\ j.evidence = r.evidence /\ j.min = r.min /\ j.max = r.max
      /\ j.overall = p.overall /\ j.agreement = p.agreement /\ j.reject = p.reject
  BY DEF Jury
<1> HIDE DEF j, p
<1>5. r.min \in Int /\ r.max \in Int /\ r.min < r.max
  BY <1>1 DEF RequestShape, ValidRequest
<1>6. Score(j) = r.min..r.max /\ Dim(j) = DOMAIN p.weight
  BY <1>4 DEF Score, Dim
<1>7. IsFiniteSet(DOMAIN j.weight) /\ j.weight \in [DOMAIN j.weight -> Nat \ {0}]
  <2>1. IsFiniteSet(DOMAIN c.members) /\ \A m \in DOMAIN c.members : c.members[m].weight \in Int
    BY <1>1 DEF ConfigShape
  <2>2. \A m \in DOMAIN c.members : c.members[m].weight > 0
    BY <1>1 DEF ValidConfig
  <2>3. \A m \in DOMAIN c.members : c.members[m].weight \in Nat \ {0}
    BY <2>1, <2>2
  <2> QED BY <1>4, <2>1, <2>3
<1>8. IsFiniteSet(Dim(j)) /\ Dim(j) # {} /\ \A d \in Dim(j) : p.weight[d] \in Nat \ {0}
  <2>1. IsFiniteSet(DOMAIN p.weight) /\ \A d \in DOMAIN p.weight : p.weight[d] \in Int
    BY <1>2 DEF PolicyShape
  <2>2. DOMAIN p.weight # {} /\ \A d \in DOMAIN p.weight : p.weight[d] > 0
    BY <1>2 DEF ValidPolicy
  <2>3. \A d \in DOMAIN p.weight : p.weight[d] \in Nat \ {0}
    BY <2>1, <2>2
  <2> QED BY <1>6, <2>1, <2>2, <2>3
<1>9. j.dimWeight \in [Dim(j) -> Nat \ {0}]
  <2>1. p.weight \in [DOMAIN p.weight -> Int]
    BY <1>2 DEF PolicyShape
  <2> QED BY <1>4, <1>6, <1>8, <2>1
<1>10. j.overall \in Score(j) /\ j.reject \in Score(j) /\ j.reject <= j.overall /\ j.agreement \in 0..100
  BY <1>2, <1>3, <1>4, <1>6 DEF FitsScale, ValidPolicy
<1>11. j.lower \subseteq Dim(j) /\ DOMAIN j.approveAt \subseteq Dim(j)
  BY <1>2, <1>4, <1>6 DEF PolicyShape
<1>12. \A d \in DOMAIN j.approveAt : j.approveAt[d] \in Score(j)
  BY <1>3, <1>4, <1>6 DEF FitsScale, Range
<1>13. DOMAIN j.evidence \subseteq Dim(j) /\ \A d \in DOMAIN j.evidence : j.evidence[d] \in Score(j)
  BY <1>2, <1>3, <1>4, <1>6 DEF Evidenced
<1> QED BY <1>4, <1>5, <1>7, <1>8, <1>9, <1>10, <1>11, <1>12, <1>13 DEF ValidJury, j

-----------------------------------------------------------------------------
(* What evidence decides.                                                  *)

\* No decision to approve goes against the evidence.
LEMMA ApprovalsMeetEvidence ==
    ASSUME NEW c, NEW r, Accepted(c, r), NEW answered \in SUBSET DOMAIN c.members, NEW judging,
           Decision(c, r, answered, judging) = "APPROVE"
    PROVE  /\ Judge(c, r).required \subseteq DOMAIN r.evidence
           /\ \A d \in DOMAIN r.evidence \cap DOMAIN Judge(c, r).approveAt :
                 Meets(Judge(c, r), d, r.evidence[d])
<1> DEFINE p == Judge(c, r)
           j == Jury(c, r)
           given  == [m \in answered |-> Answer(m, c.members[m], r)]
           judged == [e \in judging |-> [m \in answered |-> PeerScore(e, c.members[e], r)]]
<1>1. ValidConfig(c) /\ ConfigShape(c) /\ Accepts(c, r)
  BY RequestsAssumption DEF Accepted
<1>2. p.required \subseteq DOMAIN r.evidence
  BY <1>1 DEF Accepts, Evidenced
<1>3. ~(Cardinality(answered) < c.quorum) /\ Verdict(j, given, judged) = "APPROVE"
  BY DEF Decision
<1>4. DOMAIN given = answered
  OBVIOUS
<1> HIDE DEF given, judged
<1>5. answered # {}
  <2>1. c.quorum \in Int /\ c.quorum >= 1
    BY <1>1 DEF ConfigShape, ValidConfig
  <2>2. Cardinality({}) = 0
    BY FS_EmptySet
  <2> QED BY <1>3, <2>1, <2>2
<1>6. j.approveAt = p.approveAt /\ j.evidence = r.evidence /\ j.lower = p.lower
      /\ DOMAIN j.weight = DOMAIN c.members
  BY DEF Jury
<1>7. ValidJury(j)
  BY JuryIsValid
<1> HIDE DEF j, p
<1>8. \A d \in DOMAIN j.approveAt : Passes(j, d, given)
  BY <1>3, Verdicts DEF Approved
<1>9. answered \in SUBSET DOMAIN j.weight
  BY <1>6
<1>10. ASSUME NEW d \in DOMAIN r.evidence \cap DOMAIN p.approveAt PROVE Meets(p, d, r.evidence[d])
  <2>1. d \in DOMAIN j.approveAt /\ d \in DOMAIN j.evidence /\ Passes(j, d, given)
    BY <1>6, <1>8
  <2>2. IF d \in j.lower THEN j.evidence[d] <= j.approveAt[d]
                         ELSE j.evidence[d] >= j.approveAt[d]
    BY <1>4, <1>5, <1>7, <1>9, <2>1, EvidenceBinds
  <2> QED BY <1>6, <2>2 DEF Meets
<1> QED BY <1>2, <1>10 DEF p

\* Nothing is approved, afresh or from the cache, without the evidence its gate
\* requires, nor when the host's score misses approve_at.
THEOREM EvidenceIsDecisive == Spec => []EvidenceDecides
<1>1. ASSUME Replays PROVE EvidenceDecides
  <2> SUFFICES ASSUME reply.verdict = "APPROVE"
               PROVE  LET p == Judge(config, reply.request)
                          given == DOMAIN reply.request.evidence
                      IN  /\ p.required \subseteq given
                          /\ \A d \in given \cap DOMAIN p.approveAt :
                                Meets(p, d, reply.request.evidence[d])
    BY DEF EvidenceDecides
  <2>1. reply # NoReply
    BY RequestsAssumption DEF NoReply
  <2>2. PICK c \in Configs, q \in Requests :
           /\ Accepted(c, q) /\ CacheKey(c, q) = CacheKey(config, reply.request)
           /\ \E answered \in SUBSET DOMAIN c.members : \E judging \in SUBSET Asked(c, q, answered) :
                 reply.verdict = Decision(c, q, answered, judging)
    BY <1>1, <2>1 DEF Replays, ReplySound
  <2>3. PICK answered \in SUBSET DOMAIN c.members : \E judging \in SUBSET Asked(c, q, answered) :
           reply.verdict = Decision(c, q, answered, judging)
    BY <2>2
  <2>4. PICK judging : reply.verdict = Decision(c, q, answered, judging)
    BY <2>3
  <2>5. /\ Judge(c, q).required \subseteq DOMAIN q.evidence
        /\ \A d \in DOMAIN q.evidence \cap DOMAIN Judge(c, q).approveAt :
              Meets(Judge(c, q), d, q.evidence[d])
    BY <2>2, <2>4, ApprovalsMeetEvidence
  <2>6. q.evidence = reply.request.evidence /\ Judge(c, q) = Judge(config, reply.request)
    BY <2>2, SameJudge
  <2> QED BY <2>5, <2>6
<1> QED BY <1>1, ReplaysHold, PTL

-----------------------------------------------------------------------------
(* What is accepted can be approved.                                       *)

\* The best evidence changes nothing else.
LEMMA BestRequest ==
    ASSUME NEW c, NEW r, Accepted(c, r)
    PROVE  LET b == AtBest(r, Judge(c, r))
           IN  /\ b.evidence = [d \in DOMAIN r.evidence |-> Best(r, Judge(c, r), d)]
               /\ b.min = r.min /\ b.max = r.max /\ Judge(c, b) = Judge(c, r)
<1> DEFINE b == AtBest(r, Judge(c, r))
<1>1. DOMAIN r = {"namespace", "subject", "size", "evidence", "rubric", "min", "max", "risk",
                  "gate", "policy"}
  BY RequestsAssumption DEF Accepted, RequestShape
<1>2. /\ b.evidence = [d \in DOMAIN r.evidence |-> Best(r, Judge(c, r), d)]
      /\ b.min = r.min /\ b.max = r.max /\ b.rubric = r.rubric /\ b.gate = r.gate /\ b.policy = r.policy
  BY <1>1 DEF AtBest
<1> HIDE DEF b
<1>3. EffectivePolicy(b) = EffectivePolicy(r)
  BY <1>2 DEF EffectivePolicy
<1>4. Judge(c, b) = Judge(c, r)
  BY <1>2, <1>3 DEF Judge
<1> QED BY <1>2, <1>4 DEF b

\* If the host has nothing against it, every member approves with the best scores and
\* the peers agree, an accepted request is approved, by whatever service.
THEOREM NothingIsHopeless == Spec => []NoneIsHopeless
<1>1. ASSUME Replays PROVE NoneIsHopeless
  <2> SUFFICES ASSUME NEW r \in Requests, ValidRequest(r), Accepts(config, r)
               PROVE  LET p   == Judge(config, r)
                          all == DOMAIN config.members
                      IN  Verdict(Jury(config, AtBest(r, p)), [m \in all |-> BestOf(r, p)],
                                  [e \in all |-> [m \in all |-> r.max]]) = "APPROVE"
    BY DEF NoneIsHopeless
  <2> DEFINE p   == Judge(config, r)
             all == DOMAIN config.members
             b   == AtBest(r, p)
             i   == Jury(config, r)
             j   == Jury(config, b)
             rs  == [m \in all |-> BestOf(r, p)]
             ps  == [e \in all |-> [m \in all |-> r.max]]
  <2>1. Accepted(config, r)
    BY <1>1 DEF Accepted, Replays
  <2>2. ValidJury(i)
    BY <2>1, JuryIsValid
  <2>3. /\ b.evidence = [d \in DOMAIN r.evidence |-> Best(r, p, d)]
        /\ b.min = r.min /\ b.max = r.max /\ Judge(config, b) = p
    BY <2>1, BestRequest
  <2>4. DOMAIN p.weight = Dims(r)
    BY <2>1, JudgeIsPolicy
  <2>5. all # {}
    BY DEF Accepts
  <2> HIDE DEF p, b
  <2>6. /\ i.weight = [m \in all |-> config.members[m].weight]
        /\ i.dimWeight = p.weight /\ i.lower = p.lower /\ i.approveAt = p.approveAt
        /\ i.evidence = r.evidence /\ i.min = r.min /\ i.max = r.max
        /\ i.overall = p.overall /\ i.agreement = p.agreement /\ i.reject = p.reject
    BY DEF Jury, p
  <2>7. /\ j.weight = [m \in all |-> config.members[m].weight]
        /\ j.dimWeight = p.weight /\ j.lower = p.lower /\ j.approveAt = p.approveAt
        /\ j.evidence = b.evidence /\ j.min = b.min /\ j.max = b.max
        /\ j.overall = p.overall /\ j.agreement = p.agreement /\ j.reject = p.reject
    BY <2>3 DEF Jury
  <2> HIDE DEF i, j, all
  <2>8. /\ j.weight = i.weight /\ j.dimWeight = i.dimWeight /\ j.lower = i.lower
        /\ j.approveAt = i.approveAt /\ j.min = i.min /\ j.max = i.max /\ j.overall = i.overall
        /\ j.agreement = i.agreement /\ j.reject = i.reject
        /\ DOMAIN j.evidence = DOMAIN i.evidence
    BY <2>3, <2>6, <2>7
  <2>9. Dim(j) = Dim(i) /\ Score(j) = Score(i) /\ Dim(j) = Dims(r) /\ DOMAIN j.weight = all
    BY <2>4, <2>6, <2>7, <2>8 DEF Dim, Score
  <2>10. j.min \in Score(j) /\ j.max \in Score(j)
    BY <2>2, <2>8 DEF ValidJury, Score
  <2>11. \A d \in DOMAIN j.evidence : j.evidence[d] = BestScore(j, d)
    BY <2>3, <2>7 DEF Best, BestScore
  <2>12. \A d : BestScore(j, d) \in Score(j)
    BY <2>10 DEF BestScore
  <2>13. ValidJury(j)
    <3>1. DOMAIN j.evidence \subseteq Dim(j) /\ \A d \in DOMAIN j.evidence : j.evidence[d] \in Score(j)
      BY <2>2, <2>8, <2>9, <2>11, <2>12 DEF ValidJury
    <3> QED BY <2>2, <2>8, <2>9, <3>1 DEF ValidJury
  <2>14. BestOf(r, p) = [scores |-> [d \in Dim(j) |-> BestScore(j, d)], approves |-> TRUE]
    <3>1. \A d : Best(r, p, d) = BestScore(j, d)
      BY <2>3, <2>7 DEF Best, BestScore
    <3> QED BY <2>9, <3>1 DEF BestOf
  <2>15. BestOf(r, p) \in Review(j) /\ BestOf(r, p).approves
         /\ \A d \in Dim(j) : BestOf(r, p).scores[d] = BestScore(j, d)
    BY <2>12, <2>14 DEF Review
  <2>16. r.max = j.max
    BY <2>3, <2>7
  <2>17. Reviewed(j, all, all, rs, ps)
    BY <2>9, <2>10, <2>15, <2>16 DEF Reviewed
  <2>18. ASSUME NEW m \in all
         PROVE  /\ rs[m].approves
                /\ \A d \in Dim(j) : Judged(j, rs[m], d) = BestScore(j, d)
                /\ \A e \in all : ps[e][m] = j.max
    BY <2>11, <2>15, <2>16 DEF Judged
  <2> HIDE DEF rs, ps
  <2>19. Verdict(j, rs, ps) = "APPROVE"
    BY <2>5, <2>13, <2>17, <2>18, BestIsApproved
  <2> QED BY <2>19 DEF rs, ps, j, b, p, all
<1> QED BY <1>1, ReplaysHold, PTL

=============================================================================
