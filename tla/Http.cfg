SPECIFICATION Spec
CONSTANTS
    Requests = {q1, q2, q3}
    Clients = {k1, k2, k3}
    WithCallback = {q3}
    Responses <- SomeResponses
    max_pool_size = 1
    Nothing = Nothing
SYMMETRY Same
INVARIANTS
    OneUserPerClient
    OutcomeIsTheServers
CHECK_DEADLOCK FALSE
