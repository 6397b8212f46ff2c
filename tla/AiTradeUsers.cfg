\* two subscribers, two rare events
CONSTANTS
    a = a
    b = b
    w1 = w1
    c1 = c1
    c2 = c2
    Users = {a, b}
    Places <- MCSubscribers
    Opening <- MCLargeOpening
    Rate <- MCLowRate
    Workers = {w1}
    Calls = {c1}
    MaxRetries = 2
    MaxStalledCount = 1
    MaxEvents = 2
SPECIFICATION Spec
INVARIANTS TypeOK WalletIsTrades
PROPERTIES CompletedIsSettled
CHECK_DEADLOCK FALSE
