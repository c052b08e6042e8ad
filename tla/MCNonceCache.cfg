CONSTANTS
    r1 = r1
    r2 = r2
    r3 = r3
    r4 = r4
    r5 = r5
    Randoms <- MCRandoms
    Retention = 2
    MaxSize = 2
    Horizon = 6
SPECIFICATION CacheSpec
SYMMETRY RandomSymmetry
INVARIANT MemoryBounded
INVARIANT RememberedLongEnough
PROPERTY ImplementsReplayGuard
