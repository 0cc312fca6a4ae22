SPECIFICATION Spec
CONSTANTS
    k = k
    dog = dog
    medic = medic
    Key = {k}
    Global = Global
    Watchdog = {dog}
    Recovery = {medic}
    Window = 3
    AgentErrors = 2
    MinEvents = 3
    FailPercent = 50
    BudgetHits = 2
    Cooldown = 1
    Probe = 1
    MaxEvents = 3
    MaxManual = 1
    MaxFaults = 1
PROPERTIES
    ProbationFirst
