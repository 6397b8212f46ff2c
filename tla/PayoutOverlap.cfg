\* a job redelivered
CONSTANTS
    u1 = u1
    Withdrawals = {w1}
    Users = {u1}
    Owner <- MCOwner
    Amount <- MCAmount
    OpeningBalance <- MCOpeningBalance
    Slots = {s1, s2}
    Pollers = {p1}
    NoSlot = NoSlot
    NoWithdrawal = NoWithdrawal
    Overlap = TRUE
    MaxAttempts = 2
    MaxNonce = 1
    FaultKinds = {}
    MaxFaults = 0
    MaxAudits = 0
SPECIFICATION Spec
INVARIANTS AtMostOnePayout
