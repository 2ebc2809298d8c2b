SPECIFICATION InterfaceSpec
CONSTANTS
    Threads = {t1, t2}
    Configs = {c1, c2}
    TrackerOn = {c1}
    Users = {u1}
    Games = {g1, g2}
    Nothing = Nothing
    Structs = {k1}
    Fields = {f1, f2}
    Messages = {m1, m2}
    NoHash = NoHash
SYMMETRY Same
CONSTRAINT OneKindOfCall
INVARIANTS
    StartsOnce
    StatisticsAgree
    MessagesGoRight
CHECK_DEADLOCK FALSE
