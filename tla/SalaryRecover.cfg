\* a worker that dies twice
CONSTANTS
    u1 = u1
    u2 = u2
    u3 = u3
    Users = {u1}
    Salary <- MCSalary
    OpeningBalance <- MCOpeningBalance
    Slots = {s1, s2}
    Creators = {"scheduler"}
    Commands = {}
    NoSlot = NoSlot
    NoJob = NoJob
    MaxRetries = 2
    FaultKinds = {"crash"}
    MaxFaults = 2
    MaxCommands = 0
SPECIFICATION FairSpec
PROPERTIES PendingIsRecovered
