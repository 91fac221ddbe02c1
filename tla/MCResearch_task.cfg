SPECIFICATION Spec
CONSTANTS
    u1 = u1
    u2 = u2
    q1 = q1
    q2 = q2
    q3 = q3
    Modes = {"local", "remote"}
    Planned = {q1}
    Gap = {q1, q2, q3}
    Urls = {u1, u2}
    Supplied = {u2}
    MaxQueries = 2
    SearchRequests = 3
    MaxSources = 2
    FetchRequests = 3
    ModelRequests = 7
    InitialSources = 1
    Retries = 1
    Reserved = 3
    Clients = 1
    MaxCancels = 1
CHECK_DEADLOCK FALSE
INVARIANTS
    RequestsWithinLimits
    SpentIsReported
    CitationsWereRead
    VerdictHonest
