------------------------- MODULE MCWithdrawalPayout -------------------------
(* Small instances of WithdrawalPayout for TLC. *)
EXTENDS WithdrawalPayout, TLC

CONSTANTS u1

MCOwner == [w \in Withdrawals |-> u1]
MCAmount == [w \in Withdrawals |-> 2]
MCOpeningBalance == [u \in Users |-> 1]
\* Withdrawals, and slots, are interchangeable in the safety runs.
Interchangeable == Permutations(Withdrawals) \cup Permutations(Slots)
=============================================================================
