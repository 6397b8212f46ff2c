------------------------ MODULE MCWithdrawalRequest ------------------------
(* Small instances of WithdrawalRequest for TLC. *)
EXTENDS WithdrawalRequest, TLC

CONSTANTS u1, u2, c1, c2, c3, r1, r2

\* u1 sends r1 twice and r2 once.
RetryUser == (c1 :> u1) @@ (c2 :> u1) @@ (c3 :> u1)
RetryId == (c1 :> r1) @@ (c2 :> r1) @@ (c3 :> r2)
RetryAmount == (c1 :> 2) @@ (c2 :> 2) @@ (c3 :> 1)
RetryBalance == (u1 :> 2)
RetryOffset == (u1 :> 1)

\* u1 sends two requests, on two local days of one UTC day; u2 sends one.
LimitUser == (c1 :> u1) @@ (c2 :> u1) @@ (c3 :> u2)
LimitId == (c1 :> r1) @@ (c2 :> r2) @@ (c3 :> r1)
LimitAmount == (c1 :> 2) @@ (c2 :> 1) @@ (c3 :> 2)
LimitBalance == (u1 :> 4) @@ (u2 :> 3)
LimitOffset == (u1 :> 1) @@ (u2 :> 0)
=============================================================================
