CONSTANTS
    w1 = w1
    w2 = w2
    Logins = {1, 2}
    Unreadable = {}
    Workers <- MCWorkers
    MaxUpheavals = 1
SPECIFICATION FairSpec
INVARIANT BeliefsWereTrue
INVARIANT LowestOwnsOnceWarmed
PROPERTY OwnershipMovesDown
PROPERTY ParticipantIsFound
