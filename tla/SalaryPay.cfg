\* two ranked users paid at once, any two failures after the creation
CONSTANTS
    u1 = u1
    u2 = u2
    u3 = u3
    Users = {u1, u2}
    Salary <- MCSalary
    OpeningBalance <- MCOpeningBalance
    Slots = {s1, s2}
    Creators = {"scheduler"}
    Commands = {}
    NoSlot = NoSlot
    NoJob = NoJob
    MaxRetries = 1
    FaultKinds = {"pay", "finalize", "catch", "crash", "enqueue"}
    MaxFaults = 2
    MaxCommands = 0
SPECIFICATION Spec
INVARIANTS TypeOK CompletedIsCredited
