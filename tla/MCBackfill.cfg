CONSTANTS
    Histories <- SomeHistories
    MaxPosts = 3
    Count = 2
    PageLimit = 1
    MaxPages = 2
    MaxTogether = 1
    MaxNameless = 1
    MaxIdle = 1
    MaxOutages = 1
SPECIFICATION FairSpec
CHECK_DEADLOCK FALSE
INVARIANT HolesWereOutrun
INVARIANT RoomIsOrdered
INVARIANT BackwardsReachesTheStart
PROPERTY NewestIsReached
