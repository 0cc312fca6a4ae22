SPECIFICATION Spec
CONSTANTS
    a = a
    b = b
    c = c
    w1 = w1
    w2 = w2
    Worker = {w1, w2}
    Client = client
    Node = {a, b, c}
    NoAgent = NoAgent
    NoNode = NoNode
    Order <- JoinOrder
    Deps <- JoinDeps
    MaxAttempts <- JoinAttempts
    CanRun <- AllNodes
    Sweeps = FALSE
    Resumes = FALSE
    MaxFaults = 0
INVARIANTS
    OneTaskPerNode
