\* two users, submissions from two tabs, two reviews by one administrator
CONSTANTS
    u1 = u1
    u2 = u2
    s1 = s1
    s2 = s2
    s3 = s3
    a1 = a1
    a2 = a2
    w1 = w1
    NoCall = NoCall
    Users = {u1, u2}
    Calls = {s1, s2, s3, a1, a2, w1}
    Kind <- MCKind
    User <- MCUser
    Tab <- OneAdminTab
    Documents = {"front", "selfie"}
    ReadsFail = FALSE
    FaultKinds = {"document", "record", "restart"}
    MaxFaults = 1
SPECIFICATION FairSpec
INVARIANTS HistoryIsWhole ImagesExist
PROPERTIES ApprovedIsLocked CallsEnd
CHECK_DEADLOCK FALSE
