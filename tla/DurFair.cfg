SPECIFICATION FairSpec
CONSTANTS
    Users = {u1}
    Games = {g1}
    NoUser = NoUser
    NoGame = NoGame
    NoRow = NoRow
    BadUsers = {u1}
    MaxReport = 1
    ExpireAfter = 1
    StartTimes = {2}
    CachedConfigs <- DisabledBefore
    Skews <- ExactClock
    MaxLaunches = 1
    MaxEvents = 3
    MaxQueue = 2
    MaxPosts = 1
    MaxClock = 1
PROPERTIES
    EventsAreReported
    StopEndsReporter
CHECK_DEADLOCK FALSE
