\* exhausted attempts
CONSTANTS
    u1 = u1
    u2 = u2
    u3 = u3
    Users = {u1}
    Salary <- MCSalary
    OpeningBalance <- MCOpeningBalance
    Slots = {s1}
    Creators = {"scheduler"}
    Commands = {}
    NoSlot = NoSlot
    NoJob = NoJob
    MaxRetries = 1
    FaultKinds = {"pay"}
    MaxFaults = 1
    MaxCommands = 0
SPECIFICATION Spec
INVARIANTS FailedIsDeadLettered
