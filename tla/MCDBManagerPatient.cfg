SPECIFICATION Spec

CONSTANTS
    Servers = {s1, s2}
    Torn = Torn
    Workers = {w1}
    QueryThreads = {q1, q2}
    Clients = {c1, c2, c3}
    Nil = Nil
    MaxQueries = 2
    Patient = TRUE

INVARIANTS
    NoCrash
    ConnectedToOld
    StatusTells

PROPERTIES
    RowsFromOld
