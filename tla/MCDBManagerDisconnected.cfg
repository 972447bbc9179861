SPECIFICATION Spec

CONSTANTS
    Servers = {s1}
    Torn = Torn
    Workers = {w1}
    QueryThreads = {q1}
    Clients = {c1, c2, c3}
    Nil = Nil
    MaxQueries = 2
    Patient = FALSE

INVARIANTS
    DisconnectedIsDisconnected

CHECK_DEADLOCK FALSE
