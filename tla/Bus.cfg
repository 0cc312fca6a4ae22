SPECIFICATION FairSpec
CONSTANTS
    p1 = p1
    t1 = t1
    t2 = t2
    here = here
    there = there
    Pub = {p1}
    Sub = {t1, t2}
    Store = {here, there}
    StoreOf <- Stores
    BatchSize = 2
    MaxFailures = 2
    MaxEvents = 2
    MaxFaults = 1
INVARIANTS
    TypeOK
    NothingSkipped
    DeliveredInOrder
    PoisonPatience
    NoNeedlessRedelivery
    PrunedAreArchived
PROPERTIES
    Delivered
