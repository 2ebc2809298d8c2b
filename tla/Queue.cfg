SPECIFICATION FairSpec
CONSTANTS
    Producers = {p1, p2}
    Consumers = {c1, c2}
    MAX_CAPACITY = 3
    Capacities = {0, 1, 2}
    Sizes = {1, 2}
    Limits = {1, 2}
    MaxTasks = 2
INVARIANTS
    NoLostWakeUp
    BoundedFifo
PROPERTY PutReturns
CHECK_DEADLOCK FALSE
