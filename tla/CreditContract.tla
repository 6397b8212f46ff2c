--------------------------- MODULE CreditContract ---------------------------
(***************************************************************************)
(* What every feature that adds money to a spot wallet promises, free of   *)
(* jobs, callbacks and retries: a credit is named by its idempotency key,  *)
(* it is made at most once, and it adds exactly its amount to the balance  *)
(* of the one user it belongs to.                                          *)
(***************************************************************************)
EXTENDS Integers

CONSTANTS
    Keys,         \* idempotency keys: a salary payment, a provider payment
    Users,
    Owner,        \* Owner[k] is the user who is credited
    Amount        \* Amount[k] is what the user is credited

VARIABLES
    credited,     \* the keys whose credit was made
    balance       \* balance[u]: the spot balance of user u

creditVars == <<credited, balance>>

Init ==
    /\ credited = {}
    /\ balance \in [Users -> Int]

Credit(k) ==
    /\ k \notin credited
    /\ credited' = credited \cup {k}
    /\ balance' = [balance EXCEPT ![Owner[k]] = @ + Amount[k]]

Next == \E k \in Keys : Credit(k)

Spec == Init /\ [][Next]_creditVars
=============================================================================
