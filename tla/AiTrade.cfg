\* an AI Bot run and a manual one of the same user, one rare event
CONSTANTS
    a = a
    b = b
    w1 = w1
    c1 = c1
    c2 = c2
    Users = {a}
    Places <- MCBoth
    Opening <- MCOpening
    Rate <- MCRate
    Workers = {w1}
    Calls = {c1}
    MaxRetries = 2
    MaxStalledCount = 1
    MaxEvents = 1
SPECIFICATION FairSpec
INVARIANTS WalletIsTrades
PROPERTIES CompletedIsSettled LockedIsSettled QueuedIsDecided
CHECK_DEADLOCK FALSE
