CONSTANTS
    alice = alice
    bob = bob
    cli = cli
    w1 = w1
    w2 = w2
    Users <- Everybody
    Ghostable <- People
    Linked <- Alice
    Emoji = {"thumb", "heart"}
    Workers <- TwoWorkers
    MaxChanges = 3
    Lossy = TRUE
SPECIFICATION Spec
SYMMETRY Symmetry
CHECK_DEADLOCK FALSE
INVARIANT NewestListWins
INVARIANT ShownAsRecorded
PROPERTY EchoLeavesOwnAlone
