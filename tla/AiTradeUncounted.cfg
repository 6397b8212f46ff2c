\* two manual placements, one of whose requests dies before the count, two rare events
CONSTANTS
    a = a
    b = b
    w1 = w1
    c1 = c1
    c2 = c2
    Users = {a, b}
    Places <- MCManual
    Opening <- MCLargeOpening
    Rate <- MCLowRate
    Workers = {w1}
    Calls = {c1, c2}
    MaxRetries = 1
    MaxStalledCount = 0
    MaxEvents = 2
SPECIFICATION Spec
INVARIANTS DeadNeverCompleted
CHECK_DEADLOCK FALSE
