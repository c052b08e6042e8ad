CONSTANTS
    None = None
    Unreadable = Unreadable
    Wrong = Wrong
    oldKey = oldKey
    newKey = newKey
    noKey = noKey
    p1 = p1
    startup = startup
    Keys <- MCKeys
    NoKey <- noKey
    Processes <- OneProcess
    Startup <- startup
    MaxPasswords = 2
    MaxRestarts = 2
SPECIFICATION FairSpec
INVARIANT NewestLoginIsKept
INVARIANT ConnectedIsSealed
INVARIANT CancelIsObeyed
PROPERTY SealedIsKept
PROPERTY WaitEnds
