\* a callback with an old report is saved over a credited row
CONSTANTS
    r = r
    a = a
    b = b
    p1 = p1
    p2 = p2
    c1 = c1
    c2 = c2
    Nobody = Nobody
    NoPayment = NoPayment
    Users = {r, a, b}
    SponsorOf <- MCSponsorOf
    Late = {b}
    Opening <- MCOpening
    Ranks <- MCRanks
    Passes = 2
    Qualifying = 50
    Amounts <- MCAmounts
    Grants <- MCGrants
    BotPrice = 10
    MaxLevel = 2
    Stake = 40
    Profit = 70
    Payments = {p1, p2}
    Depositor = a
    Calls = {c1, c2}
    Requested = 50
    Received = {40, 49, 60}
    Tolerance = 1
    MaxOps = 3
SPECIFICATION Spec
INVARIANTS CreditedIsCompleted
SYMMETRY Symmetric
CHECK_DEADLOCK FALSE
