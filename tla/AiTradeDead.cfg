\* BullMQ delivers a job again whose row is DEAD
CONSTANTS
    a = a
    b = b
    w1 = w1
    c1 = c1
    c2 = c2
    Users = {a}
    Places <- MCBoth
    Opening <- MCOpening
    Rate <- MCRate
    Workers = {w1}
    Calls = {c1}
    MaxRetries = 2
    MaxStalledCount = 1
    MaxEvents = 1
SPECIFICATION Spec
INVARIANTS DeadNeverCompleted
CHECK_DEADLOCK FALSE
