SPECIFICATION FutureSpec
CONSTANTS
    Setters = {s1, s2}
    Getters = {g1, g2}
    TimedGetters = {t1}
    Callbacks = {c1, c2}
    Results = {r1, r2}
    Nothing = Nothing
INVARIANTS
    CalledUnlessReplaced
    WaitsOnlyAfterTimeOut
CHECK_DEADLOCK FALSE
