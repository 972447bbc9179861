SPECIFICATION Spec

CONSTANTS
    Servers = {s1}
    Torn = Torn
    Workers = {w1}
    QueryThreads = {q1}
    Clients = {c1, c2}
    Nil = Nil
    MaxQueries = 1
    Patient = FALSE

PROPERTIES
    SpinnerStops
    AnswerShown

CHECK_DEADLOCK FALSE
