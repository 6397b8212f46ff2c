\* an interrupted creation and the repair script
CONSTANTS
    u1 = u1
    u2 = u2
    u3 = u3
    Users = {u1, u2}
    Salary <- MCSalary
    OpeningBalance <- MCOpeningBalance
    Slots = {s1}
    Creators = {"scheduler"}
    Commands = {"audit"}
    NoSlot = NoSlot
    NoJob = NoJob
    MaxRetries = 1
    FaultKinds = {"create"}
    MaxFaults = 1
    MaxCommands = 1
SPECIFICATION Spec
INVARIANTS CompletedIsCredited
