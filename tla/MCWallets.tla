----------------------------- MODULE MCWallets -----------------------------
(* Small instances of Wallets for TLC. *)
EXTENDS Wallets, TLC

CONSTANTS r, a, b, p1, p2, c1, c2

MCSponsorOf == [u \in Users |-> CASE u = a -> r [] u = b -> a [] OTHER -> Nobody]
MCOpening == [u \in Users |-> 100]
Symmetric == Permutations({p1, p2}) \cup Permutations({c1, c2})
MCAmounts == [u \in Users |-> IF u = a THEN {40, 100} ELSE {100}]
MCGrants == {-30}
MCRanks == <<[team |-> 1, directs |-> 0, directStar |-> 0, reward |-> 3],
             [team |-> 1, directs |-> 1, directStar |-> 1, reward |-> 7]>>
=============================================================================
