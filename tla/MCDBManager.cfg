SPECIFICATION Spec

CONSTANTS
    Servers = {s1}
    Torn = Torn
    Workers = {w1}
    QueryThreads = {q1, q2}
    Clients = {c1, c2, c3}
    Nil = Nil
    MaxQueries = 2
    Patient = FALSE

SYMMETRY Symmetry

INVARIANTS
    TypeOK
    OneQueryThread
    FinishedIsLatest
    ViewIsOneResult

PROPERTIES
    ResultStable
    ImplementsConsole

CHECK_DEADLOCK FALSE
