---------------------------- MODULE MCSalaryCycle ----------------------------
(* Small instances of SalaryCycle for TLC. *)
EXTENDS SalaryCycle, TLC

CONSTANTS u1, u2, u3

\* u1 and u2 have a rank, u3 has none.
MCSalary == [u \in Users |-> IF u = u1 THEN 10 ELSE IF u = u2 THEN 30 ELSE 0]
MCOpeningBalance == [u \in Users |-> 1]
=============================================================================
