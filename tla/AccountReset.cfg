\* two browsers, an administrator and a user, two changes or resets, one failure
CONSTANTS
    Users = {admin, u1}
    Targets = {admin, u1, missing}
    Admins = {admin}
    Browsers = {b1, b2}
    Passwords = {"old", "new", "short"}
    Acceptable = {"old", "new"}
    Initial = "old"
    NoUser = NoUser
    MaxSessions = 3
    MaxChanges = 2
    MaxFaults = 1
SPECIFICATION FairSpec
INVARIANTS ResetSignsOut SuccessIsCommitted
PROPERTIES ResetIsAnswered
CHECK_DEADLOCK FALSE
