\* one withdrawal, every kind of failure, no overlapping deliveries
CONSTANTS
    u1 = u1
    Withdrawals = {w1}
    Users = {u1}
    Owner <- MCOwner
    Amount <- MCAmount
    OpeningBalance <- MCOpeningBalance
    Slots = {s1}
    Pollers = {p1}
    NoSlot = NoSlot
    NoWithdrawal = NoWithdrawal
    Overlap = FALSE
    MaxAttempts = 2
    MaxNonce = 3
    FaultKinds = {"submit", "crash", "throw", "raise", "send", "poll"}
    MaxFaults = 2
    MaxAudits = 1
SPECIFICATION Spec
INVARIANTS TypeOK AtMostOnePayout RefundedIsNotPaid CompletedIsPaid ClosedJobIsDecided
PROPERTIES ReviewIsNotRetried ImplementsContract
