\* an over-limit request without a signer
CONSTANTS
    u1 = u1
    u2 = u2
    c1 = c1
    c2 = c2
    c3 = c3
    r1 = r1
    r2 = r2
    Calls = {c1, c2, c3}
    Users = {u1, u2}
    Requests = {r1, r2}
    ReqUser <- LimitUser
    ReqId <- LimitId
    ReqAmount <- LimitAmount
    OpeningBalance <- LimitBalance
    Offset <- LimitOffset
    MaxPerTx = 2
    MaxPerUserDaily = 2
    MaxGlobalDaily = 3
    Hashes = {}
    NoHash = NoHash
    NoCall = NoCall
    DayLength = 2
    MaxTime = 2
    MaxEvents = 0
SPECIFICATION Spec
CHECK_DEADLOCK FALSE
INVARIANTS FallbackIsReviewable
