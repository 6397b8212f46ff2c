---------------------------- MODULE NowPayments ----------------------------
(***************************************************************************)
(* USDT deposits through a payment provider: the creation of a payment,    *)
(* the provider's callbacks, refreshes by the wallet page and the recovery *)
(* script, all of which end in the same reconciliation and its READ        *)
(* COMMITTED transaction.                                                  *)
(*                                                                         *)
(* The provider reports a status and an amount received.  Callbacks may    *)
(* be late, repeated or overtaken: a callback carries any report the       *)
(* provider ever made.                                                     *)
(***************************************************************************)
EXTENDS WalletLedgers

CONSTANTS
    Payments,       \* the provider's payments
    Depositor,      \* whose they are
    Calls,          \* callbacks and refreshes at work at once
    Requested,      \* the amount of every deposit
    Received,       \* what customers may pay instead
    Tolerance,
    NoPayment

ASSUME DepositAssumption ==
    /\ Depositor \in Users /\ Requested \in Nat /\ Received \subseteq Nat
    /\ Tolerance \in Nat /\ {NoPayment, "none", "asked"} \cap Payments = {}

VARIABLES
    provider,       \* per payment, what the provider knows now
    reported,       \* per payment, every report it made
    making,         \* the creation in flight: none, asked or a payment
    address,        \* the payments whose address the customer has seen
    deposit,        \* per payment, its row
    call            \* per call: where it is, its payment, record and report

depositVars == <<provider, reported, making, address, deposit, call>>

Silent == [status |-> "none", paid |-> 0]
NoDeposit == [exists |-> FALSE, providerStatus |-> "none", status |-> "none",
              amount |-> 0, credited |-> FALSE, confirmed |-> FALSE]
IdleCall == [pc |-> "idle", payment |-> NoPayment, record |-> NoDeposit, report |-> Silent,
             wallet |-> <<>>]

DepositsInit ==
    /\ provider = [p \in Payments |-> Silent] /\ reported = [p \in Payments |-> {}]
    /\ making = "none" /\ address = {}
    /\ deposit = [p \in Payments |-> NoDeposit]
    /\ call = [c \in Calls |-> IdleCall]

-----------------------------------------------------------------------------
(* The provider and the customer.                                          *)

Report(p, status, paid) ==
    /\ provider' = [provider EXCEPT ![p] = [status |-> status, paid |-> paid]]
    /\ reported' = [reported EXCEPT ![p] = @ \cup {[status |-> status, paid |-> paid]}]

ProviderStep(p) ==
    /\ \/ /\ provider[p].status = "WAITING" /\ p \in address
          /\ \E paid \in Received : Report(p, "CONFIRMING", paid)
       \/ provider[p].status = "WAITING" /\ Report(p, "EXPIRED", 0)
       \/ /\ provider[p].status = "CONFIRMING"
          /\ Report(p, IF provider[p].paid >= Requested THEN "FINISHED" ELSE "PARTIALLY_PAID",
                    provider[p].paid)
       \/ provider[p].status = "PARTIALLY_PAID" /\ Report(p, "FINISHED", Requested)
    /\ UNCHANGED <<ledgerVars, stale, ops, making, address, deposit, call>>

-----------------------------------------------------------------------------
(* createDeposit: the customer's page keeps its key until it has an answer, *)
(* and one creation per key is at work.                                    *)

\* publicDepositStatus
Public(status) ==
    CASE status = "FINISHED" -> "COMPLETED"
      [] status = "EXPIRED" -> "EXPIRED"
      [] status = "PARTIALLY_PAID" -> "FAILED"
      [] status = "CONFIRMING" -> "CONFIRMING"
      [] OTHER -> "PENDING"

Known(p) == deposit[p].exists

\* findDepositByIdempotency: a row of this key is the answer
CreateBegins ==
    /\ making = "none" /\ Begun
    /\ making' = IF \E p \in Payments : Known(p) THEN "none" ELSE "asked"
    /\ address' = address \cup {p \in Payments : Known(p)}
    /\ UNCHANGED <<ledgerVars, stale, provider, reported, deposit, call>>

\* mutant: the address is shown before the row is saved
CreatesAndShows ==
    /\ making = "asked"
    /\ \E p \in Payments :
         /\ provider[p] = Silent /\ Report(p, "WAITING", 0) /\ making' = p
         /\ address' = address \cup {p}
    /\ UNCHANGED <<ledgerVars, stale, ops, deposit, call>>

ProviderCreates ==
    /\ making = "asked"
    /\ \E p \in Payments : provider[p] = Silent /\ Report(p, "WAITING", 0) /\ making' = p
    /\ UNCHANGED <<ledgerVars, stale, ops, address, deposit, call>>

CreateSaves ==
    /\ making \in Payments
    /\ deposit' = [deposit EXCEPT ![making] =
                     [NoDeposit EXCEPT !.exists = TRUE, !.providerStatus = "WAITING",
                                       !.status = Public("WAITING")]]
    /\ address' = address \cup {making} /\ making' = "none"
    /\ UNCHANGED <<ledgerVars, stale, ops, provider, reported, call>>

\* the provider's answer is late, or the database fails
CreateFails ==
    /\ making # "none" /\ making' = "none"
    /\ UNCHANGED <<ledgerVars, stale, ops, provider, reported, address, deposit, call>>

-----------------------------------------------------------------------------
(* Callbacks (reconcileIpn) and refreshes (refreshDeposit, deposit-recover). *)

Goto(c, pc) == call' = [call EXCEPT ![c].pc = pc]

\* findDepositByPaymentId, or 404
IpnArrives(c, p) ==
    /\ call[c].pc = "idle" /\ Begun
    /\ \E r \in reported[p] :
         call' = IF ~Known(p) THEN call
                 ELSE [call EXCEPT ![c] = [IdleCall EXCEPT !.pc = "save", !.payment = p,
                                              !.record = deposit[p], !.report = r]]
    /\ UNCHANGED <<ledgerVars, stale, provider, reported, making, address, deposit>>

RefreshBegins(c, p) ==
    /\ call[c].pc = "idle" /\ Known(p) /\ Begun
    /\ call' = [call EXCEPT ![c] = [IdleCall EXCEPT !.pc = "ask", !.payment = p,
                                                    !.record = deposit[p]]]
    /\ UNCHANGED <<ledgerVars, stale, provider, reported, making, address, deposit>>

getPaymentStatus(c) ==
    /\ call[c].pc = "ask"
    /\ call' = [call EXCEPT ![c].pc = "save", ![c].report = provider[call[c].payment]]
    /\ UNCHANGED <<ledgerVars, stale, ops, provider, reported, making, address, deposit>>

Confirmed(report) == report.status \in {"FINISHED", "PARTIALLY_PAID"}

\* mutant: the sign of the difference is not looked at
AtLeast(report) == report.paid + Tolerance >= Requested

WithinTolerance(report) ==
    report.paid - Requested <= Tolerance /\ Requested - report.paid <= Tolerance

\* reconcileProviderPayment, on the record as it was read
CreditStatus(record, report) ==
    IF Confirmed(report)
    THEN IF WithinTolerance(report) THEN "CREDITED" ELSE "MANUAL_REVIEW"
    ELSE IF record.credited THEN "CREDITED"
         ELSE IF record.status = "MANUAL_REVIEW" THEN "MANUAL_REVIEW" ELSE "NOT_CREDITED"

\* saveReconciledDeposit: a credited row is left alone, if it is seen in time
SaveRead(c) ==
    /\ call[c].pc = "save"
    /\ call' = [call EXCEPT ![c] = IF deposit[@.payment].credited THEN IdleCall
                                   ELSE [@ EXCEPT !.pc = "update"]]
    /\ UNCHANGED <<ledgerVars, stale, ops, provider, reported, making, address, deposit>>

\* the update locks the deposit's row, but not the document, which is read next
SaveUpdate(c) ==
    /\ call[c].pc = "update"
    /\ \A d \in Calls : call[d].pc = "commit" => call[d].payment # call[c].payment
    /\ call' = [call EXCEPT ![c].pc = "commit", ![c].wallet = doc[Depositor]]
    /\ UNCHANGED <<ledgerVars, stale, ops, provider, reported, making, address, deposit>>

\* the claim of credited = FALSE, the credit and the commit: the document is
\* written as it was read
SaveCommit(c) ==
    /\ call[c].pc = "commit"
    /\ LET p == call[c].payment
           report == call[c].report
           credit == CreditStatus(call[c].record, report)
           completed == Confirmed(report) /\ credit = "CREDITED"
           claimed == completed /\ ~deposit[p].credited
       IN /\ deposit' = [deposit EXCEPT ![p] =
                [exists |-> TRUE, providerStatus |-> report.status,
                 status |-> CASE credit = "CREDITED" -> "COMPLETED"
                              [] credit = "MANUAL_REVIEW" -> "MANUAL_REVIEW"
                              [] OTHER -> Public(report.status),
                 amount |-> report.paid, credited |-> @.credited \/ completed,
                 confirmed |-> completed]]
          /\ doc' = IF claimed
                    THEN [doc EXCEPT ![Depositor] =
                            PostSpot(call[c].wallet, <<"deposit", p>>, report.paid)]
                    ELSE doc
          /\ stale' = IF claimed /\ call[c].wallet # doc[Depositor]
                      THEN stale \cup {Depositor} ELSE stale
    /\ call' = [call EXCEPT ![c] = IdleCall]
    /\ UNCHANGED <<financial, aiLedger, ops, provider, reported, making, address>>

\* a failing statement or request, or a restart of the process
CallFails(c) ==
    /\ call[c].pc # "idle"
    /\ call' = [call EXCEPT ![c] = IdleCall]
    /\ UNCHANGED <<ledgerVars, stale, ops, provider, reported, making, address, deposit>>

CallStep(c) ==
    \/ \E p \in Payments : IpnArrives(c, p) \/ RefreshBegins(c, p)
    \/ getPaymentStatus(c) \/ SaveRead(c) \/ SaveUpdate(c) \/ SaveCommit(c) \/ CallFails(c)

DepositNext ==
    \/ \E p \in Payments : ProviderStep(p)
    \/ CreateBegins \/ ProviderCreates \/ CreateSaves \/ CreateFails
    \/ \E c \in Calls : CallStep(c)
=============================================================================
