SPECIFICATION FairSpec
CONSTANTS
    Events = {e1}
    Threads = {t1, t2}
    Delays = {0, 1}
    MaxPosts = 3
    MaxClock = 1
INVARIANTS
    NoLostWakeUp
    RemovedStaysSilent
PROPERTIES
    MessagesLeave
    JoinReturns
CHECK_DEADLOCK FALSE
