CONSTANTS
    team = team
    Convs <- OneGroup
    Private <- None
    Flaky = TRUE
    Toggled = TRUE
    MaxClients = 2
    MaxConnects = 2
    MaxHands = 1
    MaxCrashes = 1
SPECIFICATION FairSpec
CHECK_DEADLOCK FALSE
INVARIANT LoopsEnd
INVARIANT TriedOnce
PROPERTY OutcomeIsFinal
PROPERTY WantedIsBridged
