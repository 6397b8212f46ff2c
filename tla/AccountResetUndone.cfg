\* a change of password in flight while the administrator resets it
CONSTANTS
    Users = {admin, u1}
    Targets = {admin, u1, missing}
    Admins = {admin}
    Browsers = {b1, b2}
    Passwords = {"old", "new", "short"}
    Acceptable = {"old", "new"}
    Initial = "old"
    NoUser = NoUser
    MaxSessions = 3
    MaxChanges = 2
    MaxFaults = 0
SPECIFICATION Spec
PROPERTIES ResetPrevails
CHECK_DEADLOCK FALSE
