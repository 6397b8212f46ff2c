---------------------------- MODULE MCKycRecords ----------------------------
(* Small instances of KycRecords for TLC. *)
EXTENDS KycRecords

CONSTANTS u1, u2, s1, s2, s3, a1, a2, w1

\* u1 submits from two tabs, u2 once; the reviews are of u1
MCKind == [c \in Calls |-> IF c \in {a1, a2} THEN "review" ELSE IF c = w1 THEN "check" ELSE "submit"]
MCUser == [c \in Calls |-> IF c = s3 THEN u2 ELSE u1]
OneAdminTab == [c \in Calls |-> IF c \in {a1, a2} THEN "admin" ELSE IF c = w1 THEN "withdraw"
                                ELSE IF c = s3 THEN "u2" ELSE IF c = s2 THEN "u1 second" ELSE "u1"]
TwoAdminTabs == [OneAdminTab EXCEPT ![a2] = "admin second"]
=============================================================================
