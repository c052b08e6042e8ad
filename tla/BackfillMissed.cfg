CONSTANTS
    Histories <- OneHistory
    MaxPosts = 2
    Count = 3
    PageLimit = 2
    MaxPages = 2
    MaxTogether = 0
    MaxNameless = 0
    MaxIdle = 2
    MaxOutages = 1
SPECIFICATION FairSpec
CHECK_DEADLOCK FALSE
PROPERTY MissedIsRecovered
