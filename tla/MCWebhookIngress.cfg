CONSTANTS
    e1 = e1
    e2 = e2
    other = other
    h1 = h1
    h2 = h2
    w1 = w1
    w2 = w2
    Randoms <- ThreeRequests
    Arrivals <- Mixes
    Handlers <- TwoHandlers
    Workers <- TwoWorkers
    QueueSize = 1
    Retention = 1
    MaxSize = 2
    Horizon = 1
    MaxRestarts = 1
SPECIFICATION FairSpec
INVARIANT TypeOK
INVARIANT NeitherLostNorDoubled
INVARIANT IntactIsAcknowledged
PROPERTY ReplaysAreRefused
PROPERTY QueuedIsProcessed
