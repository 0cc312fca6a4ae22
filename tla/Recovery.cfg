SPECIFICATION FairSpec
CONSTANTS
    a = a
    b = b
    c = c
    w1 = w1
    w2 = w2
    Worker = {w1}
    Client = client
    Node = {a}
    NoAgent = NoAgent
    NoNode = NoNode
    Order <- OneOrder
    Deps <- OneDeps
    MaxAttempts <- TwoAttempt
    CanRun <- AllNodes
    Sweeps = TRUE
    Resumes = TRUE
    MaxFaults = 2
PROPERTIES
    RunSettles
    OrphansRecovered
