SPECIFICATION FairSpec
CONSTANTS
    Setters = {login}
    Getters = {g1}
    TimedGetters = {}
    Callbacks = {c1}
    Nothing = Nothing
    Results = {"token", "error", "timeout", "canceled"}
    Expires <- SomeExpires
    OnlineTimes = {0, 2}
    Wrap = 16
    Step = 500
    LastSet = 500
    MaxLocal = 4500
INVARIANT TimeoutIsDue
PROPERTIES
    LoginEnds
    CancelEnds
CHECK_DEADLOCK FALSE
