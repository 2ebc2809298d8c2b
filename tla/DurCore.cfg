SPECIFICATION Spec
CONSTANTS
    Users = {u1}
    Games = {g1}
    NoUser = NoUser
    NoGame = NoGame
    NoRow = NoRow
    BadUsers = {}
    MaxReport = 2
    ExpireAfter = 1
    StartTimes = {2}
    CachedConfigs <- NoCache
    Skews <- UnevenClock
    MaxLaunches = 2
    MaxEvents = 2
    MaxQueue = 2
    MaxPosts = 1
    MaxClock = 2
INVARIANTS
    TypeOK
    KeptUntilAnswered
    StoredFirst
    SessionEndsOnce
    ReportedInOrder
    EventsAreOnTheirWay
    AbortsOnlyWhenReenabled
PROPERTY IntervalsAdvance
CHECK_DEADLOCK FALSE
