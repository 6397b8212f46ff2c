\* two ranked users, one slot, one failure of any kind after the creation
CONSTANTS
    u1 = u1
    u2 = u2
    u3 = u3
    Users = {u1, u2}
    Salary <- MCSalary
    OpeningBalance <- MCOpeningBalance
    Slots = {s1}
    Creators = {"scheduler"}
    Commands = {}
    NoSlot = NoSlot
    NoJob = NoJob
    MaxRetries = 2
    FaultKinds = {"pay", "finalize", "catch", "crash", "enqueue"}
    MaxFaults = 1
    MaxCommands = 0
SPECIFICATION FairSpec
PROPERTIES RankedIsPaid
