SPECIFICATION FairSpec
CONSTANTS
    e1 = e1
    e2 = e2
    w1 = w1
    w2 = w2
    c1 = c1
    Backend = "sqlite"
    Events = {e1, e2}
    Workers = {w1, w2}
    Calls = {c1}
    MaxAttempts = 2
    ProviderAttempts = 2
    Concurrency = 2
    MaxCrashes = 1
    MaxDispositions = 1
INVARIANTS
    OneWorkerPerJob
    ResultIsGrounded
PROPERTIES
    ResultIsFinal
    EveryJobSettles
CHECK_DEADLOCK FALSE
