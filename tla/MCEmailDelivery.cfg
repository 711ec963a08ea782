SPECIFICATION FairSpec
CONSTANTS
    n1 = n1
    n2 = n2
    w1 = w1
    w2 = w2
    Notifications = {n1}
    Workers = {w1, w2}
    MaxAttempts = 3
INVARIANTS
    SentWasAccepted
PROPERTIES
    LiveLeaseHolds
    EveryMailSettles
