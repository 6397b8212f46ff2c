\* a request sent twice, races another one of the same user
CONSTANTS
    u1 = u1
    u2 = u2
    c1 = c1
    c2 = c2
    c3 = c3
    r1 = r1
    r2 = r2
    Calls = {c1, c2, c3}
    Users = {u1}
    Requests = {r1, r2}
    ReqUser <- RetryUser
    ReqId <- RetryId
    ReqAmount <- RetryAmount
    OpeningBalance <- RetryBalance
    Offset <- RetryOffset
    MaxPerTx = 2
    MaxPerUserDaily = 2
    MaxGlobalDaily = 2
    Hashes = {h1}
    NoHash = NoHash
    NoCall = NoCall
    DayLength = 2
    MaxTime = 1
    MaxEvents = 2
SPECIFICATION Spec
INVARIANTS TypeOK OneWithdrawal RejectedIsRefunded FallbackHasNoJob QueuedWithinLimits
PROPERTIES ImplementsContract
CHECK_DEADLOCK FALSE
