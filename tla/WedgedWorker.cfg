SPECIFICATION Spec
CONSTANTS
    a = a
    b = b
    c = c
    w1 = w1
    w2 = w2
    Worker = {w1, w2}
    Client = client
    Node = {a, b}
    NoAgent = NoAgent
    NoNode = NoNode
    Order <- ChainOrder
    Deps <- ChainDeps
    MaxAttempts <- ChainAttempts
    CanRun <- AllNodes
    Sweeps = TRUE
    Resumes = FALSE
    MaxFaults = 1
INVARIANTS
    ReviewingIsLeft
