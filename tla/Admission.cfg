SPECIFICATION AdmissionFairSpec
CONSTANTS
    w1 = w1
    w2 = w2
    t1 = t1
    t2 = t2
    flow = flow
    dog = dog
    medic = medic
    Key = {w1, w2, t1, t2, flow}
    Global = Global
    Agent = {w1, w2}
    Task = {t1, t2}
    Flow = flow
    Client = Client
    Inherited = {w1}
    Sore = {w1}
    Watchdog = {dog}
    Recovery = {medic}
    Window = 1
    AgentErrors = 2
    MinEvents = 1
    FailPercent = 50
    BudgetHits = 2
    Cooldown = 1
    Probe = 1
    MaxEvents = 0
    MaxManual = 0
    MaxFaults = 0
INVARIANTS
    AdmissionTypeOK
PROPERTIES
    TripStopsAgents
    WorkSettles
