CONSTANTS
    w1 = w1
    w2 = w2
    MaxChanges = 4
    Second <- SlowTyping
    Workers <- TwoWorkers
    InOrder = FALSE
    Naming = {TRUE, FALSE}
    Lossy = TRUE
SPECIFICATION Spec
SYMMETRY WorkerSymmetry
CHECK_DEADLOCK FALSE
INVARIANT DrainedIsConsistent
INVARIANT OwnEditNeverUndone
INVARIANT EchoIsNotBridged
