SPECIFICATION FairSpec
CONSTANTS
    w1 = w1
    w2 = w2
    NoWorker = NoWorker
    Workers = {w1, w2}
    MaxAttempts = 2
    MaxRounds = 1
INVARIANTS
    ProcessedWasTaken
PROPERTY
    EveryEventSettles
CHECK_DEADLOCK FALSE
