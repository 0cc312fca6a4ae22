SPECIFICATION Spec
CONSTANTS
    m1 = m1
    m2 = m2
    mild = mild
    strict = strict
    Configs <- MCConfigs
    Requests <- MCAsked
    Answer <- MCAnswer
    PeerScore <- MCPeerScore
    None = None
    MaxSessions = 2
INVARIANTS
    MembersCovered
