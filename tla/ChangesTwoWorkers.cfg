CONSTANTS
    w1 = w1
    w2 = w2
    MaxChanges = 3
    Second <- SlowTyping
    Workers <- TwoWorkers
    InOrder = TRUE
    Naming = {TRUE}
    Lossy = FALSE
SPECIFICATION Spec
CHECK_DEADLOCK FALSE
INVARIANT WorkersKeepOrder
