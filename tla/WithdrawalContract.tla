------------------------- MODULE WithdrawalContract -------------------------
(***************************************************************************)
(* What the withdrawal subsystem promises about money, free of jobs,       *)
(* queues, nonces and reviewers.  The requested amount leaves the user's   *)
(* spot wallet when the withdrawal is created ("held"); after that it      *)
(* either leaves the company's hot wallet once ("paid") or goes back to    *)
(* the spot wallet once ("refunded"), and neither decision is ever undone. *)
(* WithdrawalRequest and WithdrawalPayout are shown to implement this.     *)
(***************************************************************************)
EXTENDS Integers

CONSTANTS
    Withdrawals,   \* the withdrawal ids
    Users,         \* the account holders
    Owner,         \* Owner[w] is the user withdrawal w belongs to
    Amount         \* Amount[w] is the amount debited for w

VARIABLES
    phase,         \* phase[w]: absent, held, paid or refunded
    available,     \* available[u]: the spot balance of user u
    moved          \* moved[u]: what other features put into it, in total

contractVars == <<phase, available, moved>>

Phases == {"absent", "held", "paid", "refunded"}

Init ==
    /\ phase \in [Withdrawals -> {"absent", "held"}]
    /\ available \in [Users -> Nat]
    /\ moved = [u \in Users |-> 0]

\* The request is accepted: the money leaves the spot wallet.
Hold(w) ==
    /\ phase[w] = "absent"
    /\ Amount[w] <= available[Owner[w]]
    /\ phase' = [phase EXCEPT ![w] = "held"]
    /\ available' = [available EXCEPT ![Owner[w]] = @ - Amount[w]]
    /\ UNCHANGED moved

\* The money reached the destination address.
Pay(w) ==
    /\ phase[w] = "held"
    /\ phase' = [phase EXCEPT ![w] = "paid"]
    /\ UNCHANGED <<available, moved>>

\* The money went back to the spot wallet.
Refund(w) ==
    /\ phase[w] = "held"
    /\ phase' = [phase EXCEPT ![w] = "refunded"]
    /\ available' = [available EXCEPT ![Owner[w]] = @ + Amount[w]]
    /\ UNCHANGED moved

\* The user moves spot funds by some other feature of the application.
Move(u) ==
    /\ moved' = [moved EXCEPT ![u] = moved'[u]]
    /\ available' = [available EXCEPT ![u] = @ + moved'[u] - moved[u]]
    /\ available'[u] \in Nat
    /\ UNCHANGED phase

Next ==
    \/ \E w \in Withdrawals : Hold(w) \/ Pay(w) \/ Refund(w)
    \/ \E u \in Users : Move(u)

Spec == Init /\ [][Next]_contractVars
=============================================================================
