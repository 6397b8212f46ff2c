\* a scheduled retry
CONSTANTS
    u1 = u1
    Withdrawals = {w1}
    Users = {u1}
    Owner <- MCOwner
    Amount <- MCAmount
    OpeningBalance <- MCOpeningBalance
    Slots = {s1}
    Pollers = {p1}
    NoSlot = NoSlot
    NoWithdrawal = NoWithdrawal
    Overlap = FALSE
    MaxAttempts = 2
    MaxNonce = 1
    FaultKinds = {"raise"}
    MaxFaults = 1
    MaxAudits = 0
SPECIFICATION FairSpec
PROPERTIES RetryHappens
