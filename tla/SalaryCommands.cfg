\* an interrupted creation, two creators, operator commands
CONSTANTS
    u1 = u1
    u2 = u2
    u3 = u3
    Users = {u1}
    Salary <- MCSalary
    OpeningBalance <- MCOpeningBalance
    Slots = {s1, s2}
    Creators = {"scheduler", "script"}
    Commands = {"retry", "reconcile", "audit"}
    NoSlot = NoSlot
    NoJob = NoJob
    MaxRetries = 1
    FaultKinds = {"create", "pay", "operator"}
    MaxFaults = 1
    MaxCommands = 2
SPECIFICATION Spec
INVARIANTS TotalsAreCredited
PROPERTIES ImplementsContract
