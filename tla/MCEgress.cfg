CONSTANTS
    lobby = lobby
    office = office
    picture = picture
    drawing = drawing
    words = words
    synced = synced
    Rooms <- TwoRooms
    Events <- ThreeEvents
    Room <- WhereWritten
    MayBe <- WhatWritten
    Others <- OneSynced
    RelayUnlinked = TRUE
    MaxAttempts = 2
    Lookback = 1
    MaxOthers = 1
    Nobody = Nobody
    Someone = Someone
SPECIFICATION Spec
CHECK_DEADLOCK FALSE
INVARIANT PostedAsReported
INVARIANT ShownOnce
INVARIANT OldFilesSurvive
