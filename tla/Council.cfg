SPECIFICATION FairSpec
CONSTANTS
    m1 = m1
    m2 = m2
    correctness = correctness
    risk = risk
    ci_status = ci_status
    Jury <- MCJury
    Thread = {t1}
    MinQuorum = 1
    PeerEval = TRUE
    MaxAttempts = 2
    Replies <- MCReplies
    PeerScores = {6}
    MaxReviews = 2
    MaxFaults = 1
INVARIANTS
    TypeOK
    CachedIsFull
    QuorumDecides
    Monotone
    OwnWordIsNothing
PROPERTIES
    ReviewEnds
    ImplementsSessions
CHECK_DEADLOCK FALSE
