SPECIFICATION SerialSpec
CONSTANTS
    a = a
    b = b
    c = c
    w1 = w1
    w2 = w2
    Worker = {w1, w2}
    Client = client
    Node = {a, b, c}
    NoAgent = NoAgent
    NoNode = NoNode
    Order <- JoinOrder
    Deps <- JoinDeps
    MaxAttempts <- JoinAttempts
    CanRun <- AllNodes
    Sweeps = FALSE
    Resumes = TRUE
    MaxFaults = 1
    Id = {a, b, c}
    MaxNodes = 3
INVARIANTS
    OneTaskPerNode
    LoadedMeansRunnable
PROPERTIES
    ImplementsDagRun
