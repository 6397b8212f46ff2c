---------------------------- MODULE WalletsProofs ----------------------------
(***************************************************************************)
(* Theorems about Wallets for any number of users, payments, requests and  *)
(* failures, any tree of sponsors and any rules of ranks: deposits, the    *)
(* administrator's funds, first transfers, the books and their sums, the   *)
(* ranks, the deductions.                                                  *)
(***************************************************************************)
EXTENDS Wallets, SetSums

-----------------------------------------------------------------------------
(* Deposits: rows, reports and calls.                                      *)

ReportRow == [status : {"none", "WAITING", "CONFIRMING", "EXPIRED", "FINISHED", "PARTIALLY_PAID"},
              paid : Nat]
DepositRow ==
    [exists : BOOLEAN,
     providerStatus : {"none", "WAITING", "CONFIRMING", "EXPIRED", "FINISHED", "PARTIALLY_PAID"},
     status : {"none", "PENDING", "CONFIRMING", "EXPIRED", "FAILED", "MANUAL_REVIEW", "COMPLETED"},
     amount : Nat, credited : BOOLEAN, confirmed : BOOLEAN]

ProviderOK ==
    /\ provider \in [Payments -> ReportRow] /\ reported \in [Payments -> SUBSET ReportRow]
    /\ \A p \in Payments : provider[p] = Silent \/ provider[p] \in reported[p]

RowsOK ==
    /\ deposit \in [Payments -> DepositRow]
    /\ making \in Payments \cup {"none", "asked"}
    /\ making \in Payments => provider[making] # Silent
    /\ \A p \in Payments : Known(p) => provider[p] # Silent

\* An address is shown only for a row, and money needs an address.
AddressOK ==
    /\ address \subseteq Payments
    /\ \A p \in address : Known(p)
    /\ \A p \in Payments :
         provider[p].paid > 0 \/ provider[p].status \in {"CONFIRMING", "PARTIALLY_PAID", "FINISHED"}
            => p \in address

\* A call knows its payment, and from the report on, a report of the provider.
CallOK(x) ==
    /\ DOMAIN x = {"pc", "payment", "record", "report", "wallet"}
    /\ x.pc \in {"idle", "ask", "save", "update", "commit"}
    /\ x.record \in DepositRow /\ x.report \in ReportRow
    /\ x.pc # "idle" => x.payment \in Payments /\ Known(x.payment)
    /\ x.pc \in {"save", "update", "commit"} => x.report \in reported[x.payment]
CallsOK == DOMAIN call = Calls /\ \A c \in Calls : CallOK(call[c])

DepositInv == ProviderOK /\ RowsOK /\ AddressOK /\ CallsOK

\* A payment nobody reported and a deposit nobody created.
LEMMA SilentRows == Silent \in ReportRow /\ NoDeposit \in DepositRow
BY DEF Silent, ReportRow, NoDeposit, DepositRow

\* A free call.
LEMMA IdleOK == CallOK(IdleCall) /\ IdleCall.pc = "idle"
BY SilentRows DEF IdleCall, CallOK

\* A report extends what was reported; no row and no call minds.
LEMMA ReportStep ==
    ASSUME DepositInv, NEW p \in Payments, NEW s \in {"WAITING", "CONFIRMING", "EXPIRED",
           "FINISHED", "PARTIALLY_PAID"}, NEW n \in Nat, Report(p, s, n),
           UNCHANGED <<address, deposit, call>>,
           making' \in Payments \cup {"none", "asked"},
           making' \in Payments => making' = making \/ making' = p,
           n > 0 \/ s \in {"CONFIRMING", "PARTIALLY_PAID", "FINISHED"} => p \in address
    PROVE  DepositInv' /\ \A q \in Payments : reported[q] \subseteq reported'[q]
<1> USE DEF DepositInv
<1> DEFINE r == [status |-> s, paid |-> n]
<1>1. r \in ReportRow /\ r # Silent /\ r.status = s /\ r.paid = n
  BY DEF ReportRow, Silent
<1>2. /\ provider' = [provider EXCEPT ![p] = r]
      /\ reported' = [reported EXCEPT ![p] = @ \cup {r}]
  BY DEF Report
<1> HIDE DEF r
<1>3. /\ provider'[p] = r /\ reported'[p] = reported[p] \cup {r}
      /\ \A q \in Payments \ {p} : provider'[q] = provider[q] /\ reported'[q] = reported[q]
  BY <1>2 DEF ProviderOK
<1>4. ProviderOK'
  BY <1>1, <1>2, <1>3 DEF ProviderOK
<1>5. RowsOK'
  BY <1>1, <1>3 DEF RowsOK, Known
<1>6. AddressOK'
  BY <1>1, <1>3 DEF AddressOK, Known
<1>7. CallsOK'
  <2>1. \A q \in Payments : reported[q] \subseteq reported'[q]
    BY <1>3
  <2> QED BY <2>1 DEF CallsOK, CallOK, Known
<1> QED BY <1>3, <1>4, <1>5, <1>6, <1>7

\* What a step of one call keeps, where it leaves the rest alone.
LEMMA CallMoves ==
    ASSUME DepositInv, NEW c \in Calls, NEW x, CallOK(x), call' = [call EXCEPT ![c] = x],
           UNCHANGED <<provider, reported, making, address, deposit>>
    PROVE  DepositInv'
<1> USE DEF DepositInv
<1>1. ProviderOK' /\ RowsOK' /\ AddressOK'
  BY DEF ProviderOK, RowsOK, AddressOK, Known
<1>2. DOMAIN call' = Calls /\ \A d \in Calls : CallOK(call'[d])
  BY DEF CallsOK
<1>3. CallsOK'
  BY <1>2 DEF CallsOK, CallOK, Known
<1> QED BY <1>1, <1>3

\* Every step keeps what deposits, reports and calls know of each other.
LEMMA DepositStep == DepositInv /\ [Next]_vars => DepositInv'
<1> SUFFICES ASSUME DepositInv, [Next]_vars PROVE DepositInv' OBVIOUS
<1> USE DEF DepositInv
<1>1. CASE UNCHANGED depositVars
  <2>1. UNCHANGED <<provider, reported, making, address, deposit, call>>
    BY <1>1 DEF depositVars
  <2>2. ProviderOK' /\ RowsOK' /\ AddressOK'
    BY <2>1 DEF ProviderOK, RowsOK, AddressOK, Known
  <2> QED BY <2>1, <2>2 DEF CallsOK, CallOK, Known
<1>2. ASSUME NEW p \in Payments, ProviderStep(p) PROVE DepositInv'
  <2>1. UNCHANGED <<address, deposit, call, making>>
    BY <1>2 DEF ProviderStep
  <2>2. provider[p] \in ReportRow
    BY DEF ProviderOK
  <2>3. PICK s \in {"CONFIRMING", "EXPIRED", "FINISHED", "PARTIALLY_PAID"}, n \in Nat :
           /\ Report(p, s, n)
           /\ n > 0 \/ s \in {"CONFIRMING", "PARTIALLY_PAID", "FINISHED"} => p \in address
    <3>1. CASE /\ provider[p].status = "WAITING" /\ p \in address
               /\ \E paid \in Received : Report(p, "CONFIRMING", paid)
      BY <3>1, DepositAssumption
    <3>2. CASE provider[p].status = "WAITING" /\ Report(p, "EXPIRED", 0)
      BY <3>2
    <3>3. CASE /\ provider[p].status = "CONFIRMING"
               /\ Report(p, IF provider[p].paid >= Requested THEN "FINISHED" ELSE "PARTIALLY_PAID",
                         provider[p].paid)
      <4>1. p \in address /\ provider[p].paid \in Nat
        BY <2>2, <3>3 DEF AddressOK, ReportRow
      <4> QED BY <3>3, <4>1
    <3>4. CASE provider[p].status = "PARTIALLY_PAID" /\ Report(p, "FINISHED", Requested)
      BY <3>4, DepositAssumption DEF AddressOK
    <3> QED BY <1>2, <3>1, <3>2, <3>3, <3>4 DEF ProviderStep
  <2> QED BY <2>1, <2>3, ReportStep DEF RowsOK
<1>3. CASE ProviderCreates
  <2>1. PICK p \in Payments : Report(p, "WAITING", 0) /\ making' = p
    BY <1>3 DEF ProviderCreates
  <2>2. UNCHANGED <<address, deposit, call>>
    BY <1>3 DEF ProviderCreates
  <2> QED BY <2>1, <2>2, ReportStep
<1>4. CASE CreateBegins \/ CreateFails
  <2>1. /\ UNCHANGED <<provider, reported, deposit, call>>
        /\ making' \in {"none", "asked"}
        /\ address' \subseteq address \cup {p \in Payments : Known(p)}
        /\ address \subseteq address'
    BY <1>4 DEF CreateBegins, CreateFails
  <2>2. ProviderOK' /\ RowsOK' /\ CallsOK'
    BY <2>1, DepositAssumption DEF ProviderOK, RowsOK, CallsOK, CallOK, Known
  <2> QED BY <2>1, <2>2 DEF AddressOK, Known
<1>5. CASE CreateSaves
  <2> DEFINE row == [NoDeposit EXCEPT !.exists = TRUE, !.providerStatus = "WAITING",
                                      !.status = Public("WAITING")]
  <2>1. row \in DepositRow /\ row.exists
    BY DEF NoDeposit, DepositRow, Public
  <2>2. /\ making \in Payments /\ deposit' = [deposit EXCEPT ![making] = row]
        /\ address' = address \cup {making} /\ making' = "none"
        /\ UNCHANGED <<provider, reported, call>>
    BY <1>5 DEF CreateSaves
  <2> HIDE DEF row
  <2>3. /\ deposit' \in [Payments -> DepositRow] /\ deposit'[making].exists
        /\ \A p \in Payments : p # making => deposit'[p] = deposit[p]
    BY <2>1, <2>2 DEF RowsOK
  <2>4. ProviderOK' /\ RowsOK'
    BY <2>2, <2>3, DepositAssumption DEF ProviderOK, RowsOK, Known
  <2>5. AddressOK' /\ CallsOK'
    BY <2>2, <2>3 DEF AddressOK, CallsOK, CallOK, Known
  <2> QED BY <2>4, <2>5
<1>6. ASSUME NEW c \in Calls, CallStep(c) PROVE DepositInv'
  <2>1. CallOK(call[c]) /\ DOMAIN call = Calls
    BY DEF CallsOK
  <2>2. ASSUME NEW p \in Payments, IpnArrives(c, p) PROVE DepositInv'
    <3>1. CASE ~Known(p)
      BY <1>1, <2>2, <3>1 DEF IpnArrives, depositVars
    <3>2. CASE Known(p)
      <4>1. PICK r \in reported[p] :
               call' = [call EXCEPT ![c] = [IdleCall EXCEPT !.pc = "save", !.payment = p,
                                               !.record = deposit[p], !.report = r]]
        BY <2>2, <3>2 DEF IpnArrives
      <4>2. r \in ReportRow /\ deposit[p] \in DepositRow
        BY DEF ProviderOK, RowsOK
      <4>3. CallOK([IdleCall EXCEPT !.pc = "save", !.payment = p,
                                    !.record = deposit[p], !.report = r])
        BY <3>2, <4>2 DEF CallOK, IdleCall
      <4> QED BY <2>2, <4>1, <4>3, CallMoves DEF IpnArrives
    <3> QED BY <3>1, <3>2
  <2>3. ASSUME NEW p \in Payments, RefreshBegins(c, p) PROVE DepositInv'
    <3>1. deposit[p] \in DepositRow /\ Known(p)
      BY <2>3 DEF RowsOK, RefreshBegins
    <3>2. CallOK([IdleCall EXCEPT !.pc = "ask", !.payment = p, !.record = deposit[p]])
      BY <3>1, SilentRows DEF CallOK, IdleCall
    <3> QED BY <2>3, <3>2, CallMoves DEF RefreshBegins
  <2>4. CASE getPaymentStatus(c)
    <3> DEFINE x == [call[c] EXCEPT !.pc = "save", !.report = provider[call[c].payment]]
    <3>1. /\ call[c].payment \in Payments
          /\ provider[call[c].payment] \in reported[call[c].payment]
          /\ provider[call[c].payment] \in ReportRow
      BY <2>1, <2>4 DEF getPaymentStatus, CallOK, RowsOK, ProviderOK
    <3>2. CallOK(x)
      BY <2>1, <2>4, <3>1 DEF getPaymentStatus, CallOK
    <3>3. call' = [call EXCEPT ![c] = x]
      BY <2>1, <2>4 DEF getPaymentStatus
    <3> QED BY <2>4, <3>2, <3>3, CallMoves DEF getPaymentStatus
  <2>5. CASE SaveRead(c)
    <3> DEFINE x == IF deposit[call[c].payment].credited THEN IdleCall
                    ELSE [call[c] EXCEPT !.pc = "update"]
    <3>1. CallOK([call[c] EXCEPT !.pc = "update"])
      BY <2>1, <2>5 DEF SaveRead, CallOK
    <3>2. CallOK(x)
      BY <3>1, IdleOK
    <3>3. call' = [call EXCEPT ![c] = x]
      BY <2>1, <2>5 DEF SaveRead
    <3> QED BY <2>5, <3>2, <3>3, CallMoves DEF SaveRead
  <2>6. CASE SaveUpdate(c)
    <3> DEFINE x == [call[c] EXCEPT !.pc = "commit", !.wallet = doc[Depositor]]
    <3>1. CallOK(x)
      BY <2>1, <2>6 DEF SaveUpdate, CallOK
    <3>2. call' = [call EXCEPT ![c] = x]
      BY <2>1, <2>6 DEF SaveUpdate
    <3> QED BY <2>6, <3>1, <3>2, CallMoves DEF SaveUpdate
  <2>7. CASE SaveCommit(c)
    <3> DEFINE p == call[c].payment
               report == call[c].report
               credit == CreditStatus(call[c].record, report)
               completed == Confirmed(report) /\ credit = "CREDITED"
               row == [exists |-> TRUE, providerStatus |-> report.status,
                       status |-> CASE credit = "CREDITED" -> "COMPLETED"
                                    [] credit = "MANUAL_REVIEW" -> "MANUAL_REVIEW"
                                    [] OTHER -> Public(report.status),
                       amount |-> report.paid, credited |-> deposit[p].credited \/ completed,
                       confirmed |-> completed]
    <3>1. p \in Payments /\ report \in ReportRow /\ Known(p)
      BY <2>1, <2>7 DEF SaveCommit, CallOK
    <3>2. deposit' = [deposit EXCEPT ![p] = row]
      BY <2>7 DEF SaveCommit
    <3>3. row \in DepositRow /\ row.exists
      <4>1. Public(report.status) \in {"PENDING", "CONFIRMING", "EXPIRED", "FAILED", "COMPLETED"}
        BY <3>1 DEF Public, ReportRow
      <4>2. deposit[p].credited \in BOOLEAN /\ completed \in BOOLEAN
        BY <3>1 DEF RowsOK, DepositRow, Confirmed
      <4>3. report.paid \in Nat /\ report.status \in
              {"none", "WAITING", "CONFIRMING", "EXPIRED", "FINISHED", "PARTIALLY_PAID"}
        BY <3>1 DEF ReportRow
      <4> HIDE DEF p, report, credit, completed
      <4> QED BY <4>1, <4>2, <4>3 DEF DepositRow
    <3> HIDE DEF row, p
    <3>4. /\ deposit' \in [Payments -> DepositRow] /\ deposit'[p].exists
          /\ \A q \in Payments : q # p => deposit'[q] = deposit[q]
      BY <3>1, <3>2, <3>3 DEF RowsOK
    <3>5. \A q \in Payments : Known(q)' <=> Known(q)
      BY <3>1, <3>4 DEF Known
    <3>6. /\ call' = [call EXCEPT ![c] = IdleCall]
          /\ UNCHANGED <<provider, reported, making, address>>
      BY <2>7 DEF SaveCommit
    <3>7. ProviderOK' /\ RowsOK' /\ AddressOK'
      BY <3>4, <3>5, <3>6 DEF ProviderOK, RowsOK, AddressOK
    <3>8. \A d \in Calls : CallOK(call'[d])
      BY <2>1, <3>6, IdleOK DEF CallsOK
    <3>9. CallsOK'
      BY <2>1, <3>5, <3>6, <3>8 DEF CallsOK, CallOK
    <3> QED BY <3>7, <3>9
  <2>8. CASE CallFails(c)
    BY <2>8, IdleOK, CallMoves DEF CallFails
  <2> QED BY <1>6, <2>2, <2>3, <2>4, <2>5, <2>6, <2>7, <2>8 DEF CallStep
<1> QED BY <1>1, <1>2, <1>3, <1>4, <1>5, <1>6 DEF Next, DepositNext, vars

\* There are no deposits at the start.
LEMMA DepositInit == Init => DepositInv
<1> SUFFICES ASSUME Init PROVE DepositInv OBVIOUS
<1> USE SilentRows DEF Init, DepositsInit
<1>1. ProviderOK /\ RowsOK
  BY DepositAssumption DEF ProviderOK, RowsOK, Known, NoDeposit
<1>2. AddressOK
  BY DEF AddressOK, Silent
<1>3. CallsOK
  BY IdleOK DEF CallsOK
<1> QED BY <1>1, <1>2, <1>3 DEF DepositInv

\* The customer can pay only where a row waits for the callback: a creation
\* that fails at any step leaves no payment that is paid and unknown.
THEOREM PaidHasRow == Spec => []PaidIsKnown
<1>1. DepositInv => PaidIsKnown
  BY DEF DepositInv, AddressOK, PaidIsKnown
<1> QED BY <1>1, DepositInit, DepositStep, PTL DEF Spec

-----------------------------------------------------------------------------
(* The administrator's desk.                                               *)

\* What the form has posted is a row under the key it still holds.
DeskInv ==
    /\ DOMAIN desk = {"pc", "user", "delta", "key", "posted"} /\ ops \in Nat
    /\ desk.posted \in 0 .. 1
    /\ desk.pc # "idle" => desk.key # 0
    /\ desk.posted = 1 => desk.key # 0 /\ \E f \in funds : f.key = desk.key

\* Only the administrator's steps touch the desk and the funds.
LEMMA DeskAlone ==
    ASSUME ops \in Nat, [Next]_vars, ~DeskStep
    PROVE  UNCHANGED <<desk, funds>> /\ ops' \in Nat
<1>1. CASE UNCHANGED vars
  BY <1>1 DEF vars, networkVars
<1>2. ASSUME NEW u \in Users, TransferStep(u) PROVE UNCHANGED <<desk, funds>> /\ ops' \in Nat
  <2>1. ASSUME NEW from \in {"spot", "future"}, NEW n \in Amounts[u], Submit(u, from, n)
        PROVE  UNCHANGED <<desk, funds>> /\ ops' \in Nat
    BY <2>1 DEF Submit, Begun
  <2>2. CASE Confirm(u) \/ CloseConfirmation(u) \/ ChangeFrom(u) \/ AnswerArrives(u)
    BY <2>2 DEF Confirm, CloseConfirmation, ChangeFrom, AnswerArrives
  <2>3. CASE TransferAnswered(u) \/ TransferUnconfirmed(u) \/ TransferRefused(u) \/ TransferFails(u)
    BY <2>3 DEF TransferAnswered, TransferUnconfirmed, TransferRefused, TransferFails
  <2>4. CASE Transfer(u)
    BY <2>4 DEF Transfer
  <2> QED BY <1>2, <2>1, <2>2, <2>3, <2>4 DEF TransferStep
<1>3. ASSUME NEW u \in Users, BuyBot(u) \/ ExpireBot(u)
      PROVE  UNCHANGED <<desk, funds>> /\ ops' \in Nat
  BY <1>3 DEF BuyBot, ExpireBot, Begun
<1>4. ASSUME NEW u \in Users, TradeLocks(u) \/ TradeSettles(u)
      PROVE  UNCHANGED <<desk, funds>> /\ ops' \in Nat
  BY <1>4 DEF TradeLocks, TradeSettles, Begun
<1>5. ASSUME NEW u \in Users, RegisterRead(u)
      PROVE  UNCHANGED <<desk, funds>> /\ ops' \in Nat
  BY <1>5 DEF RegisterRead
<1>6. CASE RegisterWrite \/ RegisterFails
  BY <1>6 DEF RegisterWrite, RegisterFails
<1>7. CASE DepositNext /\ UNCHANGED networkVars
  <2>1. UNCHANGED <<desk, funds>>
    BY <1>7 DEF networkVars
  <2>2. ASSUME NEW c \in Calls, CallStep(c) PROVE ops' \in Nat
    <3>1. ASSUME NEW p \in Payments, IpnArrives(c, p) \/ RefreshBegins(c, p) PROVE ops' \in Nat
      <4>1. Begun
        BY <3>1 DEF IpnArrives, RefreshBegins
      <4> QED BY <4>1 DEF Begun
    <3> QED BY <2>2, <3>1 DEF CallStep, getPaymentStatus, SaveRead, SaveUpdate, SaveCommit,
                              CallFails
  <2>3. CASE CreateBegins \/ ProviderCreates \/ CreateSaves \/ CreateFails
    <3>1. Begun \/ ops' = ops
      BY <2>3 DEF CreateBegins, ProviderCreates, CreateSaves, CreateFails
    <3> QED BY <2>1, <3>1 DEF Begun
  <2> QED BY <1>7, <2>1, <2>2, <2>3 DEF DepositNext, ProviderStep
<1> QED BY <1>1, <1>2, <1>3, <1>4, <1>5, <1>6, <1>7 DEF Next, NetworkNext

\* Every step keeps what the administrator's form and adjustments say.
LEMMA DeskSteps == DeskInv /\ [Next]_vars => DeskInv'
<1> SUFFICES ASSUME DeskInv, [Next]_vars PROVE DeskInv' OBVIOUS
<1> USE DEF DeskInv
<1>1. CASE ~DeskStep
  BY <1>1, DeskAlone
<1>2. ASSUME NEW u \in members, SearchUser(u) PROVE DeskInv'
  BY <1>2 DEF SearchUser, Begun
<1>3. ASSUME NEW delta \in Grants, FillIn(delta) PROVE DeskInv'
  BY <1>3 DEF FillIn
<1>4. CASE SubmitFund
  <2>1. /\ desk' = [desk EXCEPT !.pc = "sent", !.key = IF desk.key = 0 THEN ops' ELSE desk.key]
        /\ funds' = funds /\ desk.pc = "idle"
    BY <1>4 DEF SubmitFund
  <2>2. CASE desk.key = 0
    BY <1>4, <2>1, <2>2 DEF SubmitFund, Begun
  <2>3. CASE desk.key # 0
    BY <1>4, <2>1, <2>3 DEF SubmitFund
  <2> QED BY <2>2, <2>3
<1>5. CASE FundAnswered
  BY <1>5 DEF FundAnswered
<1>6. CASE FundRefused \/ FundFails
  BY <1>6 DEF FundRefused, FundFails, FundIsNew
<1>7. CASE FundShown
  BY <1>7 DEF FundShown, IdleDesk
<1>8. CASE applyAdminFund
  <2> DEFINE row == [key |-> desk.key, user |-> desk.user, delta |-> desk.delta]
  <2>1. /\ desk.pc = "sent" /\ \A f \in funds : f.key # desk.key
        /\ desk' = [desk EXCEPT !.pc = "ok", !.posted = desk.posted + 1]
        /\ funds' = funds \cup {row} /\ ops' = ops
    BY <1>8 DEF applyAdminFund, FundIsNew
  <2>2. row.key = desk.key
    OBVIOUS
  <2> HIDE DEF row
  <2>3. desk.posted = 0 /\ desk.key # 0
    BY <2>1
  <2> QED BY <2>1, <2>2, <2>3
<1> QED BY <1>1, <1>2, <1>3, <1>4, <1>5, <1>6, <1>7, <1>8 DEF DeskStep

\* However often the administrator confirms after a lost answer, and whatever
\* user is searched in between, a form that was filled in posts one fund: the
\* key changes only where the form is filled in again or was answered.
THEOREM FundsOnce == Spec => []FundedOnce
<1>1. Init => DeskInv
  BY DEF Init, LedgersInit, NetworkInit, IdleDesk, DeskInv
<1>2. DeskInv => FundedOnce
  BY DEF DeskInv, FundedOnce
<1> QED BY <1>1, <1>2, DeskSteps, PTL DEF Spec

-----------------------------------------------------------------------------
(* What every document says, those that were read and not yet written, too. *)

Fields == {"spot", "ledger", "consumed", "star", "future", "locked", "profit", "principal"}

Earned(e, rep) ==
    /\ e[1][2] \in Payments
    /\ \E r \in rep[e[1][2]] :
         /\ r.paid = e[2] /\ r.status \in {"FINISHED", "PARTIALLY_PAID"}
         /\ r.paid \in (Requested - Tolerance) .. (Requested + Tolerance)

DocOK(w, u, rep, dist) ==
    /\ DOMAIN w = Fields
    /\ w.consumed => dist[u] >= 0
    /\ \A e \in w.ledger : e[1][1] = "transfer" /\ e[2] < 0 => dist[u] >= 0
    /\ \A n \in 1 .. w.star : hasProcessed(w, <<"reward", n>>)
    /\ u = Depositor => \A e \in w.ledger : e[1][1] = "deposit" => Earned(e, rep)

DocsOK(docs, rep, dist) ==
    DOMAIN docs = Users /\ \A u \in Users : DocOK(docs[u], u, rep, dist)

\* What became of a document: entries were added, and of which kind.
Extends(w, w2, kind) ==
    /\ DOMAIN w2 = Fields /\ w2.consumed = w.consumed
    /\ w.ledger \subseteq w2.ledger
    /\ \A e \in w2.ledger \ w.ledger : e[1][1] = kind
    /\ \A n \in 1 .. w2.star : hasProcessed(w2, <<"reward", n>>)

\* A document that only gained an entry of another kind stays right.
LEMMA ExtendsOK ==
    ASSUME NEW u \in Users, NEW rep, NEW dist, NEW w, NEW w2, NEW kind,
           DocOK(w, u, rep, dist), Extends(w, w2, kind), kind \notin {"deposit", "transfer"}
    PROVE  DocOK(w2, u, rep, dist)
BY DEF DocOK, Extends

\* Reports and distributions are only added: a document stays right,
LEMMA OneOlderOK ==
    ASSUME NEW w, NEW u \in Users, NEW rep, NEW dist, NEW rep2, NEW dist2,
           DocOK(w, u, rep, dist), \A p \in Payments : rep[p] \subseteq rep2[p],
           dist[u] >= 0 => dist2[u] >= 0
    PROVE  DocOK(w, u, rep2, dist2)
<1>1. ASSUME NEW e, Earned(e, rep) PROVE Earned(e, rep2)
  BY <1>1 DEF Earned
<1> QED BY <1>1 DEF DocOK

\* and so do all of them.
LEMMA OlderOK ==
    ASSUME NEW docs, NEW rep, NEW dist, NEW rep2, NEW dist2, DocsOK(docs, rep, dist),
           \A p \in Payments : rep[p] \subseteq rep2[p],
           \A u \in Users : dist[u] >= 0 => dist2[u] >= 0
    PROVE  DocsOK(docs, rep2, dist2)
BY OneOlderOK DEF DocsOK

\* A posting adds one entry.
LEMMA PostSpotExtends ==
    ASSUME NEW w, NEW kind, NEW id, NEW amount, DOMAIN w = Fields,
           \A n \in 1 .. w.star : hasProcessed(w, <<"reward", n>>)
    PROVE  Extends(w, PostSpot(w, <<kind, id>>, amount), kind)
<1> DEFINE w2 == PostSpot(w, <<kind, id>>, amount)
<1>1. /\ DOMAIN w2 = Fields /\ w2.consumed = w.consumed /\ w2.star = w.star
      /\ w2.ledger = w.ledger \/ w2.ledger = w.ledger \cup {<<<<kind, id>>, amount>>}
  BY DEF PostSpot, Fields
<1> HIDE DEF w2
<1>2. w.ledger \subseteq w2.ledger /\ \A e \in w2.ledger \ w.ledger : e[1][1] = kind
  BY <1>1
<1>3. Extends(w, w2, kind)
  BY <1>1, <1>2 DEF Extends, hasProcessed
<1> QED BY <1>3 DEF w2

\* The mirror is no entry.
LEMMA MirroredExtends ==
    ASSUME NEW w, NEW row, NEW kind, DOMAIN w = Fields,
           \A n \in 1 .. w.star : hasProcessed(w, <<"reward", n>>)
    PROVE  Extends(w, Mirrored(w, row), kind)
<1> DEFINE w2 == Mirrored(w, row)
<1>1. /\ DOMAIN w2 = Fields /\ w2.consumed = w.consumed /\ w2.star = w.star
      /\ w2.ledger = w.ledger
  BY DEF Mirrored, Fields
<1> HIDE DEF w2
<1>2. Extends(w, w2, kind)
  BY <1>1 DEF Extends, hasProcessed
<1> QED BY <1>2 DEF w2

\* Referral income adds entries of its own kind.
LEMMA IncomeExtends ==
    ASSUME NEW docs, NEW paid, NEW u \in Users, DOMAIN docs[u] = Fields,
           \A n \in 1 .. docs[u].star : hasProcessed(docs[u], <<"reward", n>>)
    PROVE  Extends(docs[u], WithIncome(docs, paid)[u], "income")
<1> DEFINE w == docs[u]
           mine == {<<<<"income", e.source, e.kind, e.level>>, e.amount>> :
                      e \in {x \in paid : x.recipient = u}}
           w2 == [w EXCEPT !.spot = @ + Sum(mine), !.ledger = @ \cup mine]
<1>1. WithIncome(docs, paid)[u] = w2
  BY DEF WithIncome
<1>2. \A e \in mine : e[1][1] = "income"
  OBVIOUS
<1> HIDE DEF mine
<1>3. /\ DOMAIN w2 = Fields /\ w2.consumed = w.consumed /\ w2.star = w.star
      /\ w2.ledger = w.ledger \cup mine
  BY DEF Fields
<1> HIDE DEF w2
<1>4. Extends(w, w2, "income")
  BY <1>2, <1>3 DEF Extends, hasProcessed
<1> QED BY <1>1, <1>4

\* Whatever stars the rules give, the rewards that were missing are entered.
LEMMA RecalculationExtends ==
    ASSUME NEW ms, NEW docs, NEW rows, NEW u \in Users, DOMAIN docs[u] = Fields,
           \A n \in 1 .. docs[u].star : hasProcessed(docs[u], <<"reward", n>>)
    PROVE  Extends(docs[u], recalculateAuthoritativeNetwork(ms, docs, rows)[u], "reward")
<1> DEFINE w == docs[u]
           w2 == recalculateAuthoritativeNetwork(ms, docs, rows)[u]
<1>1. CASE u \notin ms
  <2>1. w2 = w
    BY <1>1 DEF recalculateAuthoritativeNetwork
  <2> QED BY <2>1 DEF Extends
<1>2. CASE u \in ms
  <2> DEFINE capital == Capital(ms, docs, rows)
             star == evaluateRankNetwork(ms, capital, [v \in ms |-> docs[v].star])
             rewarded == {n \in DOMAIN Ranks : hasProcessed(w, <<"reward", n>>)}
             rewards == {<<<<"reward", n>>, Ranks[n].reward>> :
                            n \in newRewardRanks(star[u], rewarded)}
  <2>1. w2 = [w EXCEPT !.principal = capital[u], !.star = star[u],
                       !.spot = @ + Sum(rewards), !.ledger = @ \cup rewards]
    BY <1>2 DEF recalculateAuthoritativeNetwork
  <2> DEFINE missing == newRewardRanks(star[u], rewarded)
  <2>2. missing = (1 .. star[u]) \ rewarded
    BY DEF newRewardRanks
  <2>3. \A n \in rewarded : hasProcessed(w, <<"reward", n>>)
    OBVIOUS
  <2> HIDE DEF missing
  <2>4. rewards = {<<<<"reward", n>>, Ranks[n].reward>> : n \in missing}
    BY DEF missing
  <2> HIDE DEF rewards, star, capital, rewarded, w2
  <2>5. \A e \in rewards : e[1][1] = "reward"
    BY <2>4
  <2>6. \A n \in missing : <<<<"reward", n>>, Ranks[n].reward>> \in rewards
    BY <2>4
  <2>7. /\ DOMAIN w2 = Fields /\ w2.consumed = w.consumed /\ w2.star = star[u]
        /\ w2.ledger = w.ledger \cup rewards
    BY <2>1 DEF Fields
  <2>8. \A n \in 1 .. w2.star : hasProcessed(w2, <<"reward", n>>)
    <3> SUFFICES ASSUME NEW n \in 1 .. star[u] PROVE \E e \in w2.ledger : e[1] = <<"reward", n>>
      BY <2>7 DEF hasProcessed
    <3>1. CASE n \in rewarded
      BY <2>3, <2>7, <3>1 DEF hasProcessed
    <3>2. CASE n \in missing
      <4> DEFINE e == <<<<"reward", n>>, Ranks[n].reward>>
      <4>1. e \in w2.ledger
        BY <2>6, <2>7, <3>2
      <4>2. e[1] = <<"reward", n>>
        OBVIOUS
      <4> HIDE DEF e
      <4> QED BY <4>1, <4>2
    <3> QED BY <2>2, <3>1, <3>2
  <2>9. Extends(w, w2, "reward")
    BY <2>5, <2>7, <2>8 DEF Extends
  <2> QED BY <2>9 DEF w2
<1> QED BY <1>1, <1>2

\* A recalculation adds the rewards of the new stars and nothing else.
LEMMA RecalculationOK ==
    ASSUME NEW ms, NEW docs, NEW rows, NEW rep, NEW dist, DocsOK(docs, rep, dist)
    PROVE  DocsOK(recalculateAuthoritativeNetwork(ms, docs, rows), rep, dist)
<1> DEFINE docs2 == recalculateAuthoritativeNetwork(ms, docs, rows)
<1>1. DOMAIN docs2 = Users
  BY DEF recalculateAuthoritativeNetwork
<1>2. ASSUME NEW u \in Users PROVE DocOK(docs2[u], u, rep, dist)
  <2>1. DocOK(docs[u], u, rep, dist)
    BY DEF DocsOK
  <2>2. Extends(docs[u], docs2[u], "reward")
    BY <2>1, RecalculationExtends DEF DocOK
  <2> HIDE DEF docs2
  <2> QED BY <2>1, <2>2, ExtendsOK
<1> QED BY <1>1, <1>2 DEF DocsOK

-----------------------------------------------------------------------------
(* Which steps write the books, and what a step leaves of the rest.        *)

books == <<doc, financial, aiLedger, stale, incomeVars, bot, funds, deposit>>

NetworkWrites ==
    \/ \E u \in Users : \/ TransferAnswered(u) \/ TransferUnconfirmed(u) \/ Transfer(u)
                        \/ BuyBot(u) \/ ExpireBot(u)
                        \/ TradeLocks(u) \/ TradeSettles(u)
    \/ applyAdminFund \/ RegisterWrite
DepositWrites == CreateSaves \/ \E c \in Calls : SaveCommit(c)

\* A step belongs to the network or to the deposits.
LEMMA Writers ==
    ASSUME [Next]_vars
    PROVE  \/ UNCHANGED books
           \/ NetworkWrites /\ UNCHANGED depositVars
           \/ DepositWrites /\ UNCHANGED networkVars
<1> USE DEF books, NetworkWrites, DepositWrites
<1>1. CASE UNCHANGED vars
  BY <1>1 DEF vars, ledgerVars, networkVars, depositVars
<1>2. CASE NetworkNext /\ UNCHANGED depositVars
  <2>1. ASSUME NEW u \in Users, TransferStep(u) PROVE UNCHANGED books \/ NetworkWrites
    <3>1. ASSUME NEW from \in {"spot", "future"}, NEW n \in Amounts[u], Submit(u, from, n)
          PROVE  UNCHANGED books
      BY <1>2, <3>1 DEF Submit, ledgerVars, depositVars
    <3>2. CASE Confirm(u) \/ CloseConfirmation(u) \/ ChangeFrom(u) \/ AnswerArrives(u)
      BY <1>2, <3>2 DEF Confirm, CloseConfirmation, ChangeFrom, AnswerArrives, ledgerVars,
                        depositVars
    <3>3. CASE TransferRefused(u) \/ TransferFails(u)
      BY <1>2, <3>3 DEF TransferRefused, TransferFails, ledgerVars, depositVars
    <3> QED BY <2>1, <3>1, <3>2, <3>3 DEF TransferStep
  <2>2. ASSUME NEW u \in Users, RegisterRead(u) PROVE UNCHANGED books
    BY <1>2, <2>2 DEF RegisterRead, ledgerVars, depositVars
  <2>3. CASE RegisterFails
    BY <1>2, <2>3 DEF RegisterFails, ledgerVars, depositVars
  <2>4. CASE DeskStep
    BY <1>2, <2>4 DEF DeskStep, SearchUser, FillIn, SubmitFund, FundAnswered, FundRefused,
                      FundFails, FundShown, ledgerVars, depositVars
  <2> QED BY <1>2, <2>1, <2>2, <2>3, <2>4 DEF NetworkNext
<1>3. CASE DepositNext /\ UNCHANGED networkVars
  <2>1. ASSUME NEW p \in Payments, ProviderStep(p) PROVE UNCHANGED books
    BY <1>3, <2>1 DEF ProviderStep, ledgerVars, networkVars
  <2>2. CASE CreateBegins \/ ProviderCreates \/ CreateFails
    BY <1>3, <2>2 DEF CreateBegins, ProviderCreates, CreateFails, ledgerVars, networkVars
  <2>3. ASSUME NEW c \in Calls, CallStep(c), ~SaveCommit(c) PROVE UNCHANGED books
    <3>1. UNCHANGED <<ledgerVars, stale, deposit>>
      BY <2>3 DEF CallStep, IpnArrives, RefreshBegins, getPaymentStatus, SaveRead, SaveUpdate,
                  CallFails
    <3> QED BY <1>3, <3>1 DEF ledgerVars, networkVars
  <2> QED BY <1>3, <2>1, <2>2, <2>3 DEF DepositNext
<1> QED BY <1>1, <1>2, <1>3 DEF Next

\* What the provider reported stays reported.
LEMMA ReportsGrow ==
    ASSUME DepositInv, [Next]_vars
    PROVE  \A p \in Payments : reported[p] \subseteq reported'[p]
<1>1. ASSUME NEW p, NEW s, NEW n, Report(p, s, n)
      PROVE  \A q \in Payments : reported[q] \subseteq reported'[q]
  BY <1>1 DEF Report, DepositInv, ProviderOK
<1>2. CASE UNCHANGED depositVars
  BY <1>2 DEF depositVars
<1>3. ASSUME NEW p \in Payments, ProviderStep(p) PROVE \E s, n : Report(p, s, n)
  BY <1>3 DEF ProviderStep
<1>4. CASE ProviderCreates
  BY <1>1, <1>4 DEF ProviderCreates
<1>5. CASE CreateBegins \/ CreateSaves \/ CreateFails
  BY <1>5 DEF CreateBegins, CreateSaves, CreateFails
<1>6. ASSUME NEW c \in Calls, CallStep(c) PROVE UNCHANGED reported
  BY <1>6 DEF CallStep, IpnArrives, RefreshBegins, getPaymentStatus, SaveRead, SaveUpdate,
              SaveCommit, CallFails
<1> QED BY <1>1, <1>2, <1>3, <1>4, <1>5, <1>6 DEF Next, DepositNext, vars

Reads(c) == SaveUpdate(c) \/ SaveCommit(c) \/ CallFails(c)

\* A call that does not read a document moves alone.
LEMMA CallMoved ==
    ASSUME DepositInv, NEW c \in Calls, CallStep(c), ~Reads(c)
    PROVE  /\ call[c].pc # "commit"
           /\ \/ call' = call
              \/ \E x : call' = [call EXCEPT ![c] = x] /\ x.pc # "commit"
<1>1. CallOK(call[c]) /\ DOMAIN call = Calls
  BY DEF DepositInv, CallsOK
<1>2. ASSUME NEW p \in Payments, IpnArrives(c, p)
      PROVE  \/ call' = call
             \/ \E x : call' = [call EXCEPT ![c] = x] /\ x.pc # "commit"
  <2>1. CASE ~Known(p)
    BY <1>2, <2>1 DEF IpnArrives
  <2>2. ASSUME NEW r, call' = [call EXCEPT ![c] =
                 [IdleCall EXCEPT !.pc = "save", !.payment = p,
                                  !.record = deposit[p], !.report = r]]
        PROVE  \E x : call' = [call EXCEPT ![c] = x] /\ x.pc # "commit"
    <3> DEFINE x == [IdleCall EXCEPT !.pc = "save", !.payment = p,
                                     !.record = deposit[p], !.report = r]
    <3>1. call' = [call EXCEPT ![c] = x] /\ x.pc = "save"
      BY <2>2 DEF IdleCall
    <3> HIDE DEF x
    <3> QED BY <3>1
  <2> QED BY <1>2, <2>1, <2>2 DEF IpnArrives
<1>3. ASSUME NEW p \in Payments, RefreshBegins(c, p)
      PROVE  \E x : call' = [call EXCEPT ![c] = x] /\ x.pc # "commit"
  <2> DEFINE x == [IdleCall EXCEPT !.pc = "ask", !.payment = p, !.record = deposit[p]]
  <2>1. call' = [call EXCEPT ![c] = x] /\ x.pc = "ask"
    BY <1>3 DEF RefreshBegins, IdleCall
  <2> HIDE DEF x
  <2> QED BY <2>1
<1>4. CASE getPaymentStatus(c)
  <2> DEFINE x == [call[c] EXCEPT !.pc = "save", !.report = provider[call[c].payment]]
  <2>1. call' = [call EXCEPT ![c] = x] /\ x.pc = "save"
    BY <1>1, <1>4 DEF getPaymentStatus, CallOK
  <2> HIDE DEF x
  <2> QED BY <1>4, <2>1 DEF getPaymentStatus
<1>5. CASE SaveRead(c)
  <2> DEFINE x == IF deposit[call[c].payment].credited THEN IdleCall
                  ELSE [call[c] EXCEPT !.pc = "update"]
  <2>1. call' = [call EXCEPT ![c] = x] /\ x.pc \in {"idle", "update"}
    BY <1>1, <1>5 DEF SaveRead, CallOK, IdleCall
  <2> HIDE DEF x
  <2> QED BY <1>5, <2>1 DEF SaveRead
<1>6. ASSUME NEW p \in Payments, IpnArrives(c, p) \/ RefreshBegins(c, p)
      PROVE  call[c].pc = "idle"
  BY <1>6 DEF IpnArrives, RefreshBegins
<1> QED BY <1>2, <1>3, <1>4, <1>5, <1>6 DEF CallStep, Reads

\* What a transaction holds, it held before, or has just read.
LEMMA Snapshots ==
    ASSUME DepositInv, [Next]_vars
    PROVE  /\ \A c \in Calls :
                call'[c].pc = "commit" =>
                    \/ call[c].pc = "commit" /\ call'[c] = call[c]
                    \/ SaveUpdate(c) /\ call'[c].wallet = doc[Depositor]
           /\ open'.user # Nobody =>
                \/ UNCHANGED open
                \/ open'.docs = doc /\ open'.rows = financial /\ open.user = Nobody
                   /\ UNCHANGED <<ledgerVars, stale, call>>
<1>1. CASE UNCHANGED vars
  BY <1>1 DEF vars, networkVars, depositVars
<1>2. CASE NetworkNext /\ UNCHANGED depositVars
  <2>1. call' = call
    BY <1>2 DEF depositVars
  <2>2. ASSUME NEW u \in Users, RegisterRead(u)
        PROVE  /\ open'.docs = doc /\ open'.rows = financial /\ open.user = Nobody
               /\ UNCHANGED <<ledgerVars, stale>>
    BY <2>2 DEF RegisterRead
  <2>3. CASE RegisterWrite \/ RegisterFails
    BY <2>1, <2>3 DEF RegisterWrite, RegisterFails, NoRegistration
  <2>4. ASSUME NEW u \in Users, TransferStep(u) PROVE UNCHANGED open
    BY <2>4 DEF TransferStep, Submit, Confirm, CloseConfirmation, ChangeFrom, AnswerArrives,
                TransferAnswered, TransferUnconfirmed, TransferRefused, Transfer, TransferFails
  <2>5. ASSUME NEW u \in Users, BuyBot(u) \/ ExpireBot(u) \/ TradeLocks(u) \/ TradeSettles(u)
        PROVE  UNCHANGED open
    BY <2>5 DEF BuyBot, ExpireBot, TradeLocks, TradeSettles
  <2>6. CASE DeskStep
    BY <2>1, <2>6 DEF DeskStep, SearchUser, FillIn, SubmitFund, FundAnswered, FundRefused,
                      applyAdminFund, FundFails, FundShown
  <2> QED BY <1>2, <2>1, <2>2, <2>3, <2>4, <2>5, <2>6 DEF NetworkNext
<1>3. CASE DepositNext /\ UNCHANGED networkVars
  <2>1. open' = open
    BY <1>3 DEF networkVars
  <2>2. CASE UNCHANGED call
    BY <2>1, <2>2
  <2>3. ASSUME NEW c \in Calls, CallStep(c)
        PROVE  \A d \in Calls : call'[d].pc = "commit" =>
                   \/ call[d].pc = "commit" /\ call'[d] = call[d]
                   \/ SaveUpdate(d) /\ call'[d].wallet = doc[Depositor]
    <3>1. CallOK(call[c]) /\ DOMAIN call = Calls
      BY DEF DepositInv, CallsOK
    <3>2. CASE SaveUpdate(c)
      <4>1. call' = [call EXCEPT ![c] = [call[c] EXCEPT !.pc = "commit", !.wallet = doc[Depositor]]]
        BY <3>1, <3>2 DEF SaveUpdate
      <4>2. [call[c] EXCEPT !.pc = "commit", !.wallet = doc[Depositor]].wallet = doc[Depositor]
        BY <3>1 DEF CallOK
      <4> QED BY <3>1, <3>2, <4>1, <4>2
    <3>3. ASSUME ~SaveUpdate(c)
          PROVE  \/ call' = call
                 \/ \E x : call' = [call EXCEPT ![c] = x] /\ x.pc # "commit"
      <4>1. CASE SaveCommit(c) \/ CallFails(c)
        BY <4>1, IdleOK DEF SaveCommit, CallFails
      <4> QED BY <2>3, <3>3, <4>1, CallMoved DEF Reads
    <3> QED BY <3>1, <3>2, <3>3
  <2>4. ASSUME NEW p \in Payments, ProviderStep(p) PROVE UNCHANGED call
    BY <2>4 DEF ProviderStep
  <2>5. CASE CreateBegins \/ ProviderCreates \/ CreateSaves \/ CreateFails
    BY <2>2, <2>5 DEF CreateBegins, ProviderCreates, CreateSaves, CreateFails
  <2> QED BY <1>3, <2>1, <2>2, <2>3, <2>4, <2>5 DEF DepositNext
<1> QED BY <1>1, <1>2, <1>3 DEF Next

-----------------------------------------------------------------------------
(* The documents and the income of first transfers.                        *)

FormsOK ==
    /\ DOMAIN form = Users
    /\ \A u \in Users :
         /\ DOMAIN form[u] = {"pc", "from", "sent", "amount", "key", "pending", "shown"}
         /\ form[u].amount \in Nat

IncomeInv ==
    /\ distribution \in [Users -> Int] /\ eligible \in [Users -> Int]
    /\ IncomeFollowsFirst

DocsInv ==
    /\ DocsOK(doc, reported, distribution)
    /\ \A c \in Calls :
         call[c].pc = "commit" => DocOK(call[c].wallet, Depositor, reported, distribution)
    /\ open.user # Nobody => DocsOK(open.docs, reported, distribution)

WalletInv == DepositInv /\ FormsOK /\ IncomeInv /\ DocsInv

\* Every step keeps what forms and requests say.
LEMMA FormsStep == FormsOK /\ [Next]_vars => FormsOK'
<1> SUFFICES ASSUME FormsOK, [Next]_vars PROVE FormsOK' OBVIOUS
<1> USE DEF FormsOK
<1>1. CASE UNCHANGED form
  BY <1>1
<1>2. ASSUME NEW u \in Users, TransferStep(u) PROVE FormsOK'
  <2>1. ASSUME NEW from \in {"spot", "future"}, NEW n \in Amounts[u], Submit(u, from, n)
        PROVE  FormsOK'
    <3>1. n \in Nat
      BY NetworkAssumption
    <3> DEFINE x == [IdleForm EXCEPT !.pc = "sent", !.from = from, !.sent = from,
                                     !.amount = n, !.key = ops']
    <3>2. /\ DOMAIN x = {"pc", "from", "sent", "amount", "key", "pending", "shown"}
          /\ x.amount = n /\ form' = [form EXCEPT ![u] = x]
      BY <2>1 DEF Submit, IdleForm
    <3> HIDE DEF x
    <3> QED BY <3>1, <3>2
  <2>2. CASE Confirm(u) \/ ChangeFrom(u)
    BY <2>2 DEF Confirm, ChangeFrom
  <2>3. CASE CloseConfirmation(u)
    BY <2>3 DEF CloseConfirmation, IdleForm
  <2>4. CASE AnswerArrives(u)
    BY <2>4 DEF AnswerArrives, IdleForm
  <2>5. ASSUME NEW a, Answer(u, a) PROVE FormsOK'
    BY <2>5 DEF Answer
  <2>6. CASE TransferUnconfirmed(u)
    <3>1. form' = [form EXCEPT ![u].pc = "confirm", ![u].shown = FeeOf(u)]
      BY <2>6 DEF TransferUnconfirmed
    <3>2. ASSUME NEW fee, form' = [form EXCEPT ![u].pc = "confirm", ![u].shown = fee]
          PROVE  FormsOK'
      BY <3>2
    <3> QED BY <3>1, <3>2
  <2>7. CASE TransferAnswered(u) \/ TransferRefused(u) \/ TransferFails(u) \/ Transfer(u)
    <3>1. Answer(u, "error") \/ Answer(u, "ok")
      BY <2>7 DEF TransferAnswered, TransferRefused, TransferFails, Transfer
    <3> QED BY <2>5, <3>1
  <2> QED BY <1>2, <2>1, <2>2, <2>3, <2>4, <2>6, <2>7 DEF TransferStep
<1>3. ASSUME NEW u \in Users,
             BuyBot(u) \/ ExpireBot(u) \/ TradeLocks(u) \/ TradeSettles(u) \/ RegisterRead(u)
      PROVE  UNCHANGED form
  BY <1>3 DEF BuyBot, ExpireBot, TradeLocks, TradeSettles, RegisterRead
<1>4. CASE DeskStep \/ RegisterWrite \/ RegisterFails
  BY <1>1, <1>4 DEF DeskStep, SearchUser, FillIn, SubmitFund, FundAnswered, FundRefused,
       applyAdminFund, FundFails, FundShown, RegisterWrite, RegisterFails
<1>5. CASE UNCHANGED networkVars
  BY <1>1, <1>5 DEF networkVars
<1> QED BY <1>1, <1>2, <1>3, <1>4, <1>5 DEF Next, NetworkNext, vars

\* A plan names its source, and a negative amount has none.
LEMMA PlanOf ==
    ASSUME NEW u, NEW n \in Int
    PROVE  /\ \A e \in Plan(u, n) : e.source = u
           /\ n < 0 => Plan(u, n) = {}
<1>1. ASSUME NEW e \in Plan(u, n) PROVE e.source = u /\ n >= Qualifying
  BY DEF Plan
<1> QED BY <1>1, RankAssumption

\* A transfer keeps the upline's income tied to the first transfer.
LEMMA TransferIncome ==
    ASSUME WalletInv, NEW u \in Users, Transfer(u)
    PROVE  /\ IncomeInv'
           /\ \A v \in Users : distribution[v] >= 0 => distribution'[v] >= 0
           /\ form[u].sent = "spot" => distribution'[u] >= 0
<1> DEFINE n == form[u].amount
           first == form[u].sent = "spot" /\ ~Wallet(u).consumed
           paid == IF first THEN Payable(u, n) ELSE {}
           decided == IF distribution[u] >= 0 THEN distribution[u] ELSE n
<1>1. /\ entry' = entry \cup paid
      /\ distribution' = [distribution EXCEPT ![u] =
                             IF first /\ distribution[u] < 0 THEN n ELSE distribution[u]]
      /\ eligible' = [eligible EXCEPT ![u] =
                             IF form[u].sent = "spot" /\ eligible[u] < 0 THEN n ELSE eligible[u]]
  BY DEF Transfer, WalletInv, IncomeInv
<1>2. /\ n \in Nat /\ eligible[u] = distribution[u] /\ decided \in Int
      /\ distribution \in [Users -> Int] /\ eligible \in [Users -> Int]
  BY DEF WalletInv, FormsOK, IncomeInv, IncomeFollowsFirst
<1>3. distribution[u] < 0 => ~Wallet(u).consumed
  <2>1. DocOK(doc[u], u, reported, distribution)
    BY DEF WalletInv, DocsInv, DocsOK
  <2>2. Wallet(u).consumed = doc[u].consumed
    BY <2>1 DEF Wallet, Mirrored, DocOK, Fields
  <2> QED BY <1>2, <2>1, <2>2 DEF DocOK
<1>4. /\ paid = {} \/ paid = {e \in Plan(u, decided) : e \notin entry /\ Qualified(e)}
      /\ first => paid = {e \in Plan(u, decided) : e \notin entry /\ Qualified(e)}
  BY DEF Payable
<1> HIDE DEF n, first, paid, decided
<1>5. \A v \in Users \ {u} : distribution'[v] = distribution[v] /\ eligible'[v] = eligible[v]
  BY <1>1, <1>2
<1>6. /\ distribution'[u] = eligible'[u]
      /\ distribution'[u] = IF form[u].sent = "spot" THEN decided ELSE distribution[u]
      /\ distribution'[u] \in Int
  BY <1>1, <1>2, <1>3 DEF first, decided
<1>7. distribution' \in [Users -> Int] /\ eligible' \in [Users -> Int]
  BY <1>1, <1>2
<1>8. /\ eligible[u] = distribution[u]
      /\ {e \in entry : e.source = u} \subseteq Plan(u, distribution[u])
      /\ {e \in Plan(u, distribution[u]) : e.level = 1} \subseteq {e \in entry : e.source = u}
  BY DEF WalletInv, IncomeInv, IncomeFollowsFirst
<1>9. /\ {e \in entry' : e.source = u} \subseteq Plan(u, distribution'[u])
      /\ {e \in Plan(u, distribution'[u]) : e.level = 1} \subseteq {e \in entry' : e.source = u}
  <2>1. CASE ~first
    <3>1. paid = {}
      BY <2>1 DEF paid
    <3>2. distribution'[u] = distribution[u] /\ entry' = entry
      BY <1>1, <1>2, <2>1, <3>1
    <3> QED BY <1>8, <3>2
  <2>2. CASE first
    <3>1. distribution'[u] = decided
      BY <1>6, <2>2 DEF first
    <3>2. Plan(u, distribution[u]) \subseteq Plan(u, decided)
      BY <1>2, PlanOf DEF decided
    <3>3. \A e \in Plan(u, decided) : e.source = u
      BY <1>2, PlanOf
    <3>4. \A e \in Plan(u, decided) : e.level = 1 => Qualified(e)
      BY DEF Qualified
    <3> QED BY <1>1, <1>4, <1>8, <2>2, <3>1, <3>2, <3>3, <3>4
  <2> QED BY <2>1, <2>2
<1>10. ASSUME NEW v \in Users \ {u}
       PROVE  /\ eligible'[v] = distribution'[v]
              /\ {e \in entry' : e.source = v} \subseteq Plan(v, distribution'[v])
              /\ {e \in Plan(v, distribution'[v]) : e.level = 1}
                    \subseteq {e \in entry' : e.source = v}
  <2>1. \A e \in paid : e.source = u
    BY <1>2, <1>4, PlanOf
  <2>2. {e \in entry' : e.source = v} = {e \in entry : e.source = v}
    BY <1>1, <2>1
  <2> QED BY <1>5, <2>2 DEF WalletInv, IncomeInv, IncomeFollowsFirst
<1>11. IncomeInv'
  BY <1>6, <1>7, <1>9, <1>10 DEF IncomeInv, IncomeFollowsFirst
<1> QED BY <1>2, <1>5, <1>6, <1>11 DEF decided

\* A first transfer that is repeated distributes the same amount again, to
\* those levels alone that its plan names and that were not paid before.
LEMMA AnsweredIncome ==
    ASSUME WalletInv, NEW u \in Users, TransferAnswered(u)
    PROVE  /\ UNCHANGED <<distribution, eligible>> /\ IncomeInv'
           /\ DocsOK(doc', reported, distribution)
           /\ \E paid : /\ doc' = WithIncome(doc, paid) /\ entry' = entry \cup paid
                        /\ paid = {} \/ paid = Payable(u, form[u].amount)
<1> DEFINE debits == SpotDebits(doc[u])
           first == /\ form[u].sent = "spot" /\ form[u].key \in debits
                    /\ \A k \in debits : form[u].key <= k
           paid == IF first THEN Payable(u, form[u].amount) ELSE {}
<1>1. /\ doc' = WithIncome(doc, paid) /\ entry' = entry \cup paid /\ eligible' = eligible
      /\ distribution' = [distribution EXCEPT ![u] =
                             IF first /\ distribution[u] < 0 THEN form[u].amount
                             ELSE distribution[u]]
  BY DEF TransferAnswered, WalletInv, IncomeInv
<1>2. /\ distribution \in [Users -> Int] /\ IncomeFollowsFirst
      /\ DocsOK(doc, reported, distribution)
  BY DEF WalletInv, IncomeInv, DocsInv
<1>3. first => distribution[u] >= 0
  <2>1. DocOK(doc[u], u, reported, distribution)
    BY <1>2 DEF DocsOK
  <2>2. form[u].key \in debits => \E e \in doc[u].ledger : e[1][1] = "transfer" /\ e[2] < 0
    BY DEF SpotDebits
  <2> QED BY <2>1, <2>2 DEF DocOK
<1>4. paid \subseteq Plan(u, distribution[u])
  BY <1>3 DEF Payable
<1>5. paid = {} \/ paid = Payable(u, form[u].amount)
  OBVIOUS
<1> HIDE DEF first, paid
<1>6. distribution' = distribution
  BY <1>1, <1>2, <1>3
<1>7. \A e \in paid : e.source = u
  BY <1>2, <1>4, PlanOf
<1>8. ASSUME NEW v \in Users
      PROVE  /\ {e \in entry' : e.source = v} \subseteq Plan(v, distribution[v])
             /\ {e \in Plan(v, distribution[v]) : e.level = 1}
                   \subseteq {e \in entry' : e.source = v}
  <2>1. /\ {e \in entry : e.source = v} \subseteq Plan(v, distribution[v])
        /\ {e \in Plan(v, distribution[v]) : e.level = 1} \subseteq {e \in entry : e.source = v}
    BY <1>2 DEF IncomeFollowsFirst
  <2> QED BY <1>1, <1>4, <1>7, <2>1
<1>9. IncomeInv'
  BY <1>1, <1>2, <1>6, <1>8 DEF WalletInv, IncomeInv, IncomeFollowsFirst
<1>10. DocsOK(doc', reported, distribution)
  <2>1. ASSUME NEW v \in Users PROVE DocOK(doc'[v], v, reported, distribution)
    <3>1. DocOK(doc[v], v, reported, distribution)
      BY <1>2 DEF DocsOK
    <3>2. Extends(doc[v], WithIncome(doc, paid)[v], "income")
      BY <3>1, IncomeExtends DEF DocOK
    <3> QED BY <1>1, <3>1, <3>2, ExtendsOK
  <2>2. DOMAIN doc' = Users
    BY <1>1 DEF WithIncome
  <2> QED BY <2>1, <2>2 DEF DocsOK
<1> QED BY <1>1, <1>5, <1>6, <1>9, <1>10

\* The document of the user who transfers, before the ranks.
LEMMA TransferOwn ==
    ASSUME NEW w, NEW row, NEW from, NEW n, NEW fee, NEW key, NEW row2, NEW u \in Users,
           NEW rep, NEW dist, NEW dist2, DocOK(w, u, rep, dist),
           dist[u] >= 0 => dist2[u] >= 0, from = "spot" => dist2[u] >= 0,
           n \in Nat, fee \in 0 .. n
    PROVE  DocOK(Mirrored(transferBetweenWallets(Mirrored(w, row), from, n, fee, key), row2),
                 u, rep, dist2)
<1> DEFINE w1 == Mirrored(w, row)
           w2 == PostSpot(w1, <<"transfer", key>>, IF from = "spot" THEN -n ELSE n - fee)
           w3 == transferBetweenWallets(w1, from, n, fee, key)
<1>1. DOMAIN w = Fields /\ \A i \in 1 .. w.star : hasProcessed(w, <<"reward", i>>)
  BY DEF DocOK
<1>2. Extends(w, w1, "mirror")
  BY <1>1, MirroredExtends
<1>3. Extends(w1, w2, "transfer")
  <2> HIDE DEF w1
  <2>1. DOMAIN w1 = Fields /\ \A i \in 1 .. w1.star : hasProcessed(w1, <<"reward", i>>)
    BY <1>2 DEF Extends
  <2> QED BY <2>1, PostSpotExtends
<1>4. DocOK(w2, u, rep, dist2)
  <2> DEFINE e == <<<<"transfer", key>>, IF from = "spot" THEN -n ELSE n - fee>>
  <2>1. w2.ledger \subseteq w1.ledger \cup {e}
    BY DEF PostSpot
  <2>2. e[1][1] = "transfer" /\ (e[2] < 0 => from = "spot")
    OBVIOUS
  <2> HIDE DEF w1, w2, e
  <2>3. DocOK(w1, u, rep, dist)
    BY <1>2, ExtendsOK
  <2> QED BY <1>3, <2>1, <2>2, <2>3 DEF DocOK, Extends
<1>5. w3 = [w2 EXCEPT !.consumed = w2.consumed \/ from = "spot", !.star = 0]
  BY DEF transferBetweenWallets
<1> HIDE DEF w1, w2, w3
<1>6. /\ DOMAIN w3 = Fields /\ w3.consumed = (w2.consumed \/ from = "spot")
      /\ w3.star = 0 /\ w3.ledger = w2.ledger
  BY <1>4, <1>5 DEF DocOK, Fields
<1>7. \A i \in 1 .. w3.star : hasProcessed(w3, <<"reward", i>>)
  BY <1>6
<1>8. DocOK(w3, u, rep, dist2)
  BY <1>4, <1>6, <1>7 DEF DocOK
<1>9. Extends(w3, Mirrored(w3, row2), "mirror")
  BY <1>6, <1>7, MirroredExtends
<1>10. DocOK(Mirrored(w3, row2), u, rep, dist2)
  BY <1>8, <1>9, ExtendsOK
<1> QED BY <1>10 DEF w3, w1

\* A deduction is part of the amount.
LEMMA FeeRange ==
    ASSUME NEW u \in Users, form[u].amount \in Nat
    PROVE  FeeOf(u) \in 0 .. form[u].amount
BY DEF FeeOf, Percent

\* The Future wallet's row behind a transfer.
TransferRow(u) ==
    LET delta == IF form[u].sent = "spot" THEN form[u].amount ELSE -form[u].amount
    IN IF <<<<"transfer", form[u].key>>, delta>> \in aiLedger[u] THEN Row(u)
       ELSE Mutated(Row(u), delta, 0, 0, delta)

\* A transfer leaves every document right.
LEMMA TransferDocs ==
    ASSUME WalletInv, NEW u \in Users, Transfer(u)
    PROVE  DocsOK(doc', reported, distribution')
<1> DEFINE f == form[u]
           paid == IF f.sent = "spot" /\ ~Wallet(u).consumed THEN Payable(u, f.amount) ELSE {}
           own == transferBetweenWallets(Wallet(u), f.sent, f.amount, FeeOf(u), f.key)
           row == TransferRow(u)
           before == [WithIncome(doc, paid) EXCEPT ![u] = Mirrored(own, row)]
<1>1. doc' = recalculateAuthoritativeNetwork(members, before, financial')
  BY DEF Transfer, TransferRow
<1>2. /\ DocsOK(doc, reported, distribution)
      /\ \A v \in Users : distribution[v] >= 0 => distribution'[v] >= 0
      /\ form[u].sent = "spot" => distribution'[u] >= 0
  BY TransferIncome DEF WalletInv, DocsInv
<1>3. DocOK(Mirrored(own, row), u, reported, distribution')
  <2>1. DocOK(doc[u], u, reported, distribution)
    BY <1>2 DEF DocsOK
  <2>2. f.amount \in Nat /\ FeeOf(u) \in 0 .. f.amount
    BY FeeRange DEF WalletInv, FormsOK
  <2> HIDE DEF row
  <2> QED BY <1>2, <2>1, <2>2, TransferOwn DEF Wallet
<1> HIDE DEF own, row, paid
<1>4. ASSUME NEW v \in Users \ {u} PROVE DocOK(before[v], v, reported, distribution')
  <2>1. DocsOK(doc, reported, distribution')
    BY <1>2, OlderOK
  <2>2. before[v] = WithIncome(doc, paid)[v] /\ DocOK(doc[v], v, reported, distribution')
    BY <2>1 DEF WithIncome, DocsOK
  <2>3. Extends(doc[v], WithIncome(doc, paid)[v], "income")
    BY <2>2, IncomeExtends DEF DocOK
  <2> QED BY <2>2, <2>3, ExtendsOK
<1>5. before[u] = Mirrored(own, row) /\ DOMAIN before = Users
  BY DEF WithIncome
<1> HIDE DEF before
<1>6. DocsOK(before, reported, distribution')
  BY <1>3, <1>4, <1>5 DEF DocsOK
<1> QED BY <1>1, <1>6, RecalculationOK

\* A claim enters the deposit that its own report earned.
LEMMA CommitDocs ==
    ASSUME WalletInv, NEW c \in Calls, SaveCommit(c)
    PROVE  DocsOK(doc', reported, distribution)
<1> DEFINE p == call[c].payment
           report == call[c].report
           w == call[c].wallet
           w2 == PostSpot(w, <<"deposit", p>>, report.paid)
<1>1. DocsOK(doc, reported, distribution) /\ DocOK(w, Depositor, reported, distribution)
  BY DEF WalletInv, DocsInv, SaveCommit
<1>2. Depositor \in Users
  BY DepositAssumption
<1>3. \/ doc' = doc
      \/ Confirmed(report) /\ WithinTolerance(report) /\ doc' = [doc EXCEPT ![Depositor] = w2]
  BY DEF SaveCommit, CreditStatus
<1>4. CASE Confirmed(report) /\ WithinTolerance(report) /\ doc' = [doc EXCEPT ![Depositor] = w2]
  <2>1. p \in Payments /\ report \in reported[p] /\ report \in ReportRow
    BY DEF WalletInv, DepositInv, CallsOK, CallOK, SaveCommit
  <2>2. DocOK(w, Depositor, reported, distribution)
    BY <1>1
  <2> DEFINE e == <<<<"deposit", p>>, report.paid>>
  <2>3. /\ DOMAIN w2 = Fields /\ w2.consumed = w.consumed /\ w2.star = w.star
        /\ w2.ledger = w.ledger \/ w2.ledger = w.ledger \cup {e}
    BY <2>2 DEF DocOK, PostSpot, Fields
  <2>4. report.paid \in (Requested - Tolerance) .. (Requested + Tolerance)
    BY <1>4, <2>1, DepositAssumption DEF WithinTolerance, ReportRow
  <2>5. e[1][1] = "deposit" /\ e[1][2] = p /\ e[2] = report.paid
    OBVIOUS
  <2> HIDE DEF w, w2, e, p, report
  <2>6. Earned(e, reported)
    BY <1>4, <2>1, <2>4, <2>5 DEF Earned, Confirmed
  <2>7. DocOK(w2, Depositor, reported, distribution)
    BY <2>2, <2>3, <2>5, <2>6 DEF DocOK, hasProcessed
  <2>8. DOMAIN doc' = Users /\ \A v \in Users : v # Depositor => doc'[v] = doc[v]
    BY <1>1, <1>4 DEF DocsOK
  <2>9. doc'[Depositor] = w2
    BY <1>1, <1>2, <1>4 DEF DocsOK
  <2> QED BY <1>1, <2>7, <2>8, <2>9 DEF DocsOK
<1> QED BY <1>1, <1>3, <1>4

\* One user's document is extended; the others stay.
LEMMA OneDocument ==
    ASSUME NEW docs, NEW u \in Users, NEW w2, NEW kind, NEW rep, NEW dist,
           DocsOK(docs, rep, dist), Extends(docs[u], w2, kind), kind \notin {"deposit", "transfer"}
    PROVE  DocsOK([docs EXCEPT ![u] = w2], rep, dist)
<1>1. DocOK(w2, u, rep, dist)
  BY ExtendsOK DEF DocsOK
<1> QED BY <1>1 DEF DocsOK

\* So does a posting,
LEMMA PostedDocument ==
    ASSUME NEW docs, NEW u \in Users, NEW kind, NEW id, NEW n, NEW rep, NEW dist,
           DocsOK(docs, rep, dist), kind \notin {"deposit", "transfer"}
    PROVE  DocsOK([docs EXCEPT ![u] = PostSpot(docs[u], <<kind, id>>, n)], rep, dist)
<1>1. Extends(docs[u], PostSpot(docs[u], <<kind, id>>, n), kind)
  BY PostSpotExtends DEF DocsOK, DocOK
<1> QED BY <1>1, OneDocument

\* and so does the mirror.
LEMMA MirroredDocument ==
    ASSUME NEW docs, NEW u \in Users, NEW row, NEW rep, NEW dist, DocsOK(docs, rep, dist)
    PROVE  DocsOK([docs EXCEPT ![u] = Mirrored(docs[u], row)], rep, dist)
<1>1. Extends(docs[u], Mirrored(docs[u], row), "mirror")
  BY MirroredExtends DEF DocsOK, DocOK
<1> QED BY <1>1, OneDocument

\* Where the desk sends a fund, its user is one of the users.
UserFound ==
    /\ members \subseteq Users /\ open.user \in Users \cup {Nobody}
    /\ DOMAIN desk = {"pc", "user", "delta", "key", "posted"}
    /\ desk.user \in Users \cup {Nobody} /\ (desk.pc # "idle" => desk.user # Nobody)

\* The user the administrator found is a member.
LEMMA UserFoundStep == UserFound /\ [Next]_vars => UserFound'
<1> SUFFICES ASSUME UserFound, [Next]_vars PROVE UserFound' OBVIOUS
<1> USE DEF UserFound
<1>1. CASE UNCHANGED <<members, open, desk>>
  BY <1>1
<1>2. CASE UNCHANGED networkVars
  BY <1>1, <1>2 DEF networkVars
<1>3. ASSUME NEW u \in Users, TransferStep(u) PROVE UNCHANGED <<members, open, desk>>
  BY <1>3 DEF TransferStep, Submit, Confirm, CloseConfirmation, ChangeFrom, AnswerArrives,
              TransferAnswered, TransferUnconfirmed, TransferRefused, Transfer, TransferFails
<1>4. ASSUME NEW u \in Users, BuyBot(u) \/ ExpireBot(u) \/ TradeLocks(u) \/ TradeSettles(u)
      PROVE  UNCHANGED <<members, open, desk>>
  BY <1>4 DEF BuyBot, ExpireBot, TradeLocks, TradeSettles
<1>5. ASSUME NEW u \in Users, RegisterRead(u) PROVE UserFound'
  BY <1>5 DEF RegisterRead
<1>6. CASE RegisterWrite \/ RegisterFails
  BY <1>6 DEF RegisterWrite, RegisterFails, NoRegistration
<1>7. CASE DeskStep
  <2>1. UNCHANGED <<members, open>>
    BY <1>7 DEF DeskStep, SearchUser, FillIn, SubmitFund, FundAnswered, FundRefused,
                applyAdminFund, FundFails, FundShown
  <2>2. ASSUME NEW u \in members, SearchUser(u) PROVE UserFound'
    <3>1. desk' = [desk EXCEPT !.user = u] /\ u \in Users /\ u # Nobody
      BY <2>2, RankAssumption, NetworkAssumption DEF SearchUser
    <3> QED BY <2>1, <3>1
  <2>3. ASSUME NEW delta \in Grants, FillIn(delta) PROVE UserFound'
    BY <2>1, <2>3 DEF FillIn
  <2>4. CASE SubmitFund
    <3>1. desk' = [desk EXCEPT !.pc = "sent", !.key = IF desk.key = 0 THEN ops' ELSE desk.key]
          /\ desk.user # Nobody
      BY <2>4 DEF SubmitFund
    <3> QED BY <2>1, <3>1
  <2>5. CASE FundAnswered \/ FundRefused \/ FundFails
    BY <2>1, <2>5 DEF FundAnswered, FundRefused, FundFails, FundIsNew
  <2>6. CASE applyAdminFund
    <3>1. desk' = [desk EXCEPT !.pc = "ok", !.posted = desk.posted + 1] /\ desk.pc = "sent"
      BY <2>6 DEF applyAdminFund, FundIsNew
    <3> QED BY <2>1, <3>1
  <2>7. CASE FundShown
    BY <2>1, <2>7 DEF FundShown, IdleDesk
  <2> QED BY <1>7, <2>2, <2>3, <2>4, <2>5, <2>6, <2>7 DEF DeskStep
<1> QED BY <1>1, <1>2, <1>3, <1>4, <1>5, <1>6, <1>7 DEF Next, NetworkNext, vars

\* Every step leaves documents, income and distributions right.
LEMMA DocumentsStep ==
    ASSUME WalletInv, UserFound, [Next]_vars
    PROVE  /\ DocsOK(doc', reported, distribution')
           /\ \A v \in Users : distribution[v] >= 0 => distribution'[v] >= 0
           /\ IncomeInv'
<1>1. DocsOK(doc, reported, distribution)
  BY DEF WalletInv, DocsInv
<1>2. CASE UNCHANGED books
  <2>1. UNCHANGED <<doc, distribution, eligible, entry>>
    BY <1>2 DEF books, incomeVars
  <2> QED BY <1>1, <2>1 DEF WalletInv, IncomeInv, IncomeFollowsFirst
<1>3. ASSUME NEW u \in Users, Transfer(u) PROVE DocsOK(doc', reported, distribution')
  BY <1>3, TransferDocs
<1>4. ASSUME UNCHANGED incomeVars, DocsOK(doc', reported, distribution)
      PROVE  /\ DocsOK(doc', reported, distribution')
             /\ \A v \in Users : distribution[v] >= 0 => distribution'[v] >= 0
             /\ IncomeInv'
  BY <1>4 DEF incomeVars, WalletInv, IncomeInv, IncomeFollowsFirst
<1>5. CASE NetworkWrites /\ UNCHANGED depositVars
  <2>1. ASSUME NEW u \in Users, TransferUnconfirmed(u) \/ ExpireBot(u)
        PROVE  UNCHANGED <<doc, incomeVars>>
    BY <2>1 DEF TransferUnconfirmed, ExpireBot, ledgerVars
  <2>2. ASSUME NEW u \in Users, BuyBot(u)
        PROVE  UNCHANGED incomeVars /\ DocsOK(doc', reported, distribution)
    <3> DEFINE paid == [doc EXCEPT ![u] = PostSpot(doc[u], <<"bot", ops'>>, -BotPrice)]
               sponsor == SponsorOf[u]
    <3>1. UNCHANGED incomeVars
      BY <2>2 DEF BuyBot
    <3>2. DocsOK(paid, reported, distribution)
      BY <1>1, PostedDocument
    <3>3. \/ doc' = paid
          \/ sponsor # Nobody /\ doc' = [paid EXCEPT ![sponsor] =
                 PostSpot(paid[sponsor], <<"botincome", ops'>>, Percent(BotPrice, 10))]
      <4>1. DOMAIN paid = Users /\ DOMAIN doc = Users
        BY <1>1 DEF DocsOK
      <4>2. sponsor # Nobody => sponsor \in Users
        BY RankAssumption, NetworkAssumption
      <4> QED BY <2>2, <4>1, <4>2 DEF BuyBot
    <3>4. sponsor # Nobody => sponsor \in Users
      BY RankAssumption, NetworkAssumption
    <3> HIDE DEF paid, sponsor
    <3> QED BY <3>1, <3>2, <3>3, <3>4, PostedDocument
  <2>3. CASE applyAdminFund
    <3>1. desk.user \in Users /\ UNCHANGED incomeVars
      BY <2>3 DEF applyAdminFund, FundIsNew, UserFound
    <3>2. doc' = [doc EXCEPT ![desk.user] =
                     PostSpot(doc[desk.user], <<"fund", desk.key>>, desk.delta)]
      BY <1>1, <2>3, <3>1 DEF applyAdminFund, DocsOK
    <3>3. DocsOK(doc', reported, distribution)
      BY <1>1, <3>1, <3>2, PostedDocument
    <3> QED BY <1>4, <3>1, <3>3
  <2>4. ASSUME NEW u \in Users, TradeLocks(u) \/ TradeSettles(u)
        PROVE  UNCHANGED incomeVars /\ DocsOK(doc', reported, distribution)
    <3>1. UNCHANGED incomeVars
      BY <2>4 DEF TradeLocks, TradeSettles
    <3>2. \E row : doc' = [doc EXCEPT ![u] = Mirrored(doc[u], row)]
      <4>1. DOMAIN doc = Users
        BY <1>1 DEF DocsOK
      <4>2. CASE TradeLocks(u)
        BY <4>1, <4>2 DEF TradeLocks
      <4>3. CASE TradeSettles(u)
        BY <4>1, <4>3 DEF TradeSettles
      <4> QED BY <2>4, <4>2, <4>3
    <3>3. PICK row : doc' = [doc EXCEPT ![u] = Mirrored(doc[u], row)]
      BY <3>2
    <3>4. DocsOK([doc EXCEPT ![u] = Mirrored(doc[u], row)], reported, distribution)
      BY <1>1, MirroredDocument
    <3> QED BY <3>1, <3>3, <3>4
  <2>5. CASE RegisterWrite
    <3>1. DocsOK(open.docs, reported, distribution) /\ UNCHANGED incomeVars
      BY <2>5 DEF WalletInv, DocsInv, RegisterWrite
    <3>2. doc' = recalculateAuthoritativeNetwork(members', open.docs, open.rows)
      BY <2>5 DEF RegisterWrite
    <3> QED BY <1>4, <3>1, <3>2, RecalculationOK
  <2> QED BY <1>1, <1>3, <1>4, <1>5, <2>1, <2>2, <2>3, <2>4, <2>5, TransferIncome, AnsweredIncome
          DEF NetworkWrites
<1>6. CASE DepositWrites /\ UNCHANGED networkVars
  <2>1. UNCHANGED incomeVars
    BY <1>6 DEF networkVars
  <2>2. CASE CreateSaves
    BY <1>1, <1>4, <2>1, <2>2 DEF CreateSaves, ledgerVars
  <2>3. ASSUME NEW c \in Calls, SaveCommit(c) PROVE DocsOK(doc', reported, distribution)
    BY <2>3, CommitDocs
  <2> QED BY <1>4, <1>6, <2>1, <2>2, <2>3 DEF DepositWrites
<1> QED BY <1>2, <1>5, <1>6, Writers

\* Every step keeps the invariant of the documents.
LEMMA WalletStep == WalletInv /\ UserFound /\ [Next]_vars => WalletInv'
<1> SUFFICES ASSUME WalletInv, UserFound, [Next]_vars PROVE WalletInv' OBVIOUS
<1>1. DepositInv' /\ FormsOK' /\ IncomeInv'
  BY DepositStep, FormsStep, DocumentsStep DEF WalletInv
<1>2. /\ \A p \in Payments : reported[p] \subseteq reported'[p]
      /\ \A v \in Users : distribution[v] >= 0 => distribution'[v] >= 0
  BY ReportsGrow, DocumentsStep DEF WalletInv
<1>3. \A docs : \/ DocsOK(docs, reported, distribution)
                \/ DocsOK(docs, reported, distribution')
                => DocsOK(docs, reported', distribution')
  BY <1>2, OlderOK
<1>6. \A w : DocOK(w, Depositor, reported, distribution)
                => DocOK(w, Depositor, reported', distribution')
  BY <1>2, OneOlderOK, DepositAssumption
<1>7. DocOK(doc[Depositor], Depositor, reported, distribution)
  BY DepositAssumption DEF WalletInv, DocsInv, DocsOK
<1>4. /\ \A c \in Calls : call'[c].pc = "commit" =>
            \/ call'[c].wallet = doc[Depositor]
            \/ call[c].pc = "commit" /\ call'[c].wallet = call[c].wallet
      /\ open'.user # Nobody =>
            \/ open'.docs = doc
            \/ open.user # Nobody /\ open'.docs = open.docs
  <2>1. DepositInv
    BY DEF WalletInv
  <2>2. \A c \in Calls : call'[c].pc = "commit" =>
            \/ call'[c].wallet = doc[Depositor]
            \/ call[c].pc = "commit" /\ call'[c] = call[c]
    BY <2>1, Snapshots
  <2>3. open'.user # Nobody => open'.docs = doc \/ open' = open
    BY <2>1, Snapshots
  <2> QED BY <2>2, <2>3
<1>5. DocsInv'
  BY <1>3, <1>4, <1>6, <1>7, DocumentsStep DEF WalletInv, DocsInv
<1> QED BY <1>1, <1>5 DEF WalletInv

\* New documents satisfy it.
LEMMA WalletInit == Init => WalletInv /\ UserFound
<1> SUFFICES ASSUME Init PROVE WalletInv /\ UserFound OBVIOUS
<1> USE DEF Init, LedgersInit, NetworkInit, DepositsInit
<1>1. FormsOK
  BY DEF FormsOK, IdleForm
<1>2. IncomeInv
  <2>1. distribution = [u \in Users |-> -1] /\ eligible = [u \in Users |-> -1] /\ entry = {}
    OBVIOUS
  <2>2. \A u \in Users : Plan(u, -1) = {}
    BY PlanOf
  <2> QED BY <2>1, <2>2 DEF IncomeInv, IncomeFollowsFirst
<1>3. DocsInv
  <2>1. ASSUME NEW u \in Users PROVE DocOK(NewDocument(u), u, reported, distribution)
    <3>1. /\ DOMAIN NewDocument(u) = Fields /\ NewDocument(u).consumed = FALSE
          /\ NewDocument(u).star = 0 /\ NewDocument(u).ledger = {}
      BY DEF NewDocument, Fields
    <3> QED BY <3>1 DEF DocOK
  <2>2. \A c \in Calls : call[c].pc = "idle"
    BY DEF IdleCall
  <2>3. open.user = Nobody
    BY DEF NoRegistration
  <2> QED BY <2>1, <2>2, <2>3 DEF DocsInv, DocsOK
<1>4. UserFound
  BY DEF UserFound, IdleDesk, NoRegistration
<1> QED BY <1>1, <1>2, <1>3, <1>4, DepositInit DEF WalletInv

\* Documents, income and distributions agree in every state.
LEMMA WalletInvariance == Spec => [](WalletInv /\ UserFound)
BY WalletInit, WalletStep, UserFoundStep, PTL DEF Spec

\* Callbacks may be late, repeated or overtaken, refreshes may race with them,
\* and a registration may write documents back that are out of date: what a
\* deposit has added to a wallet was always reported as confirmed, within the
\* tolerance, for that payment.
THEOREM DepositsAreEarned == Spec => []DepositIsEarned
<1>1. WalletInv => DepositIsEarned
  BY DepositAssumption DEF WalletInv, DocsInv, DocsOK, DocOK, Earned, DepositIsEarned
<1> QED BY <1>1, WalletInvariance, PTL

\* Income that was paid belongs to the plan of the source's first transfer,
\* the sponsor's shares were paid with it, and eligibility remembers it.
THEOREM FirstTransferDecides == Spec => []IncomeFollowsFirst
<1>1. WalletInv => IncomeFollowsFirst
  BY DEF WalletInv, IncomeInv
<1> QED BY <1>1, WalletInvariance, PTL

\* Whatever the rules say and however many passes they take, no star is
\* stored without the rewards of all ranks up to it.
THEOREM StarsCarryRewards == Spec => []StarsAreRewarded
<1>1. WalletInv /\ UserFound => StarsAreRewarded
  <2>1. ASSUME WalletInv, NEW u \in Users, NEW n \in 1 .. doc[u].star
        PROVE  <<"reward", n>> \in Posted(u, "reward")
    <3>1. hasProcessed(doc[u], <<"reward", n>>)
      BY <2>1 DEF WalletInv, DocsInv, DocsOK, DocOK
    <3> QED BY <3>1 DEF hasProcessed, Posted
  <2> QED BY <2>1 DEF StarsAreRewarded, UserFound
<1> QED BY <1>1, WalletInvariance, PTL

-----------------------------------------------------------------------------
(* The books of a member agree, but for the documents that a registration  *)
(* or a deposit has overwritten with an older one.                         *)

\* Keys are added: those of K, and rewards.
Keys(w) == {e[1] : e \in w.ledger}
Grows(w, w2, K) ==
    /\ Keys(w) \cup K \subseteq Keys(w2)
    /\ \A x \in Keys(w2) : x \in Keys(w) \cup K \/ x[1] = "reward"

SameMirror(w, w2) ==
    /\ w2.future = w.future /\ w2.locked = w.locked
    /\ w2.profit = w.profit /\ w2.principal = w.principal
Mirrors(w, row) ==
    row.open => /\ w.future = row.available /\ w.locked = row.locked
                /\ w.profit = row.profit /\ w.principal = row.retained

\* The first of a pair.
LEMMA FirstOf == \A x, y : <<x, y>>[1] = x
OBVIOUS

\* A posting adds its key and leaves the mirror,
LEMMA PostSpotGrows ==
    ASSUME NEW w, NEW key, NEW n, DOMAIN w = Fields
    PROVE  /\ Grows(w, PostSpot(w, key, n), {key})
           /\ SameMirror(w, PostSpot(w, key, n)) /\ DOMAIN PostSpot(w, key, n) = Fields
<1> DEFINE w2 == PostSpot(w, key, n)
<1>1. CASE hasProcessed(w, key)
  <2>1. w2 = w /\ key \in Keys(w)
    BY <1>1 DEF PostSpot, hasProcessed, Keys
  <2> QED BY <2>1 DEF Grows, SameMirror
<1>2. CASE ~hasProcessed(w, key)
  <2> DEFINE e == <<key, n>>
  <2>1. /\ DOMAIN w2 = Fields /\ w2.ledger = w.ledger \cup {e} /\ SameMirror(w, w2)
    BY <1>2 DEF PostSpot, Fields, SameMirror
  <2>2. e[1] = key
    OBVIOUS
  <2> HIDE DEF w2, e
  <2>3. Keys(w2) = Keys(w) \cup {key}
    BY <2>1, <2>2 DEF Keys
  <2>4. Grows(w, w2, {key})
    BY <2>3 DEF Grows
  <2> QED BY <2>1, <2>4 DEF w2
<1> QED BY <1>1, <1>2

\* the mirror adds none and is exact,
LEMMA MirroredGrows ==
    ASSUME NEW w, NEW row, DOMAIN w = Fields
    PROVE  /\ Grows(w, Mirrored(w, row), {}) /\ Mirrors(Mirrored(w, row), row)
           /\ DOMAIN Mirrored(w, row) = Fields
<1> DEFINE w2 == Mirrored(w, row)
<1>1. DOMAIN w2 = Fields /\ w2.ledger = w.ledger /\ Mirrors(w2, row)
  BY DEF Mirrored, Fields, Mirrors
<1> HIDE DEF w2
<1>2. Grows(w, w2, {})
  BY <1>1 DEF Grows, Keys
<1> QED BY <1>1, <1>2 DEF w2

IncomeKeys(paid, u) ==
    {<<"income", e.source, e.kind, e.level>> : e \in {x \in paid : x.recipient = u}}

\* referral income adds the keys it paid,
LEMMA IncomeGrows ==
    ASSUME NEW docs, NEW paid, NEW u \in Users, DOMAIN docs[u] = Fields
    PROVE  /\ Grows(docs[u], WithIncome(docs, paid)[u], IncomeKeys(paid, u))
           /\ SameMirror(docs[u], WithIncome(docs, paid)[u])
           /\ DOMAIN WithIncome(docs, paid)[u] = Fields
<1> DEFINE w == docs[u]
           mine == {<<<<"income", e.source, e.kind, e.level>>, e.amount>> :
                      e \in {x \in paid : x.recipient = u}}
           w2 == [w EXCEPT !.spot = @ + Sum(mine), !.ledger = @ \cup mine]
<1>1. WithIncome(docs, paid)[u] = w2
  BY DEF WithIncome
<1>2. {e[1] : e \in mine} = IncomeKeys(paid, u)
  <2>1. ASSUME NEW e \in {x \in paid : x.recipient = u}
        PROVE  <<<<"income", e.source, e.kind, e.level>>, e.amount>>[1]
                  = <<"income", e.source, e.kind, e.level>>
    BY FirstOf
  <2> QED BY <2>1 DEF IncomeKeys
<1> HIDE DEF mine
<1>3. /\ DOMAIN w2 = Fields /\ w2.ledger = w.ledger \cup mine /\ SameMirror(w, w2)
  BY DEF Fields, SameMirror
<1> HIDE DEF w2
<1>4. Keys(w2) = Keys(w) \cup IncomeKeys(paid, u)
  BY <1>2, <1>3 DEF Keys
<1> QED BY <1>1, <1>3, <1>4 DEF Grows

\* and a recalculation adds rewards alone.
LEMMA RecalculationGrows ==
    ASSUME NEW ms, NEW docs, NEW rows, NEW u \in Users, DOMAIN docs[u] = Fields
    PROVE  LET w2 == recalculateAuthoritativeNetwork(ms, docs, rows)[u]
           IN  /\ Grows(docs[u], w2, {})
               /\ Mirrors(docs[u], rows[u]) => Mirrors(w2, rows[u])
               /\ retainedFuturePrincipal(docs[u], rows[u]) = docs[u].principal
                     => SameMirror(docs[u], w2)
<1> DEFINE w == docs[u]
           w2 == recalculateAuthoritativeNetwork(ms, docs, rows)[u]
<1>1. CASE u \notin ms
  <2>1. w2 = w
    BY <1>1 DEF recalculateAuthoritativeNetwork
  <2> QED BY <2>1 DEF Grows, SameMirror
<1>2. CASE u \in ms
  <2> DEFINE capital == Capital(ms, docs, rows)
             star == evaluateRankNetwork(ms, capital, [v \in ms |-> docs[v].star])
             rewards == {<<<<"reward", n>>, Ranks[n].reward>> :
                            n \in newRewardRanks(star[u],
                               {n \in DOMAIN Ranks : hasProcessed(w, <<"reward", n>>)})}
  <2>1. w2 = [w EXCEPT !.principal = capital[u], !.star = star[u],
                       !.spot = @ + Sum(rewards), !.ledger = @ \cup rewards]
    BY <1>2 DEF recalculateAuthoritativeNetwork
  <2>2. /\ rows[u].open => capital[u] = rows[u].retained
        /\ capital[u] = retainedFuturePrincipal(w, rows[u])
    BY <1>2 DEF Capital, retainedFuturePrincipal
  <2> DEFINE missing == newRewardRanks(star[u],
                          {n \in DOMAIN Ranks : hasProcessed(w, <<"reward", n>>)})
  <2>0. rewards = {<<<<"reward", n>>, Ranks[n].reward>> : n \in missing}
    OBVIOUS
  <2> HIDE DEF star, capital, missing, rewards
  <2>3. \A e \in rewards : e[1][1] = "reward"
    BY <2>0
  <2> HIDE DEF w2
  <2>4. /\ w2.ledger = w.ledger \cup rewards /\ w2.principal = capital[u]
        /\ w2.future = w.future /\ w2.locked = w.locked /\ w2.profit = w.profit
    BY <2>1 DEF Fields
  <2>5. Grows(w, w2, {})
    <3>1. \A e \in w2.ledger : e \in w.ledger \/ e[1][1] = "reward"
      BY <2>3, <2>4
    <3>2. w.ledger \subseteq w2.ledger
      BY <2>4
    <3> QED BY <3>1, <3>2 DEF Grows, Keys
  <2>6. Mirrors(w, rows[u]) => Mirrors(w2, rows[u])
    BY <2>2, <2>4 DEF Mirrors
  <2>7. retainedFuturePrincipal(w, rows[u]) = w.principal => SameMirror(w, w2)
    BY <2>2, <2>4 DEF SameMirror
  <2> QED BY <2>5, <2>6, <2>7 DEF w2
<1> QED BY <1>1, <1>2

\* What the own document of a transfer becomes, before the ranks.
LEMMA TransferGrows ==
    ASSUME NEW w, NEW row, NEW from, NEW n, NEW fee, NEW key, NEW row2, DOMAIN w = Fields
    PROVE  LET w2 == Mirrored(transferBetweenWallets(Mirrored(w, row), from, n, fee, key), row2)
           IN  Grows(w, w2, {<<"transfer", key>>}) /\ Mirrors(w2, row2) /\ DOMAIN w2 = Fields
<1> DEFINE w1 == Mirrored(w, row)
           w2 == PostSpot(w1, <<"transfer", key>>, IF from = "spot" THEN -n ELSE n - fee)
           w3 == transferBetweenWallets(w1, from, n, fee, key)
           w4 == Mirrored(w3, row2)
<1>1. Grows(w, w1, {}) /\ DOMAIN w1 = Fields
  BY MirroredGrows
<1>2. Grows(w1, w2, {<<"transfer", key>>}) /\ DOMAIN w2 = Fields
  <2> HIDE DEF w1
  <2> QED BY <1>1, PostSpotGrows
<1>3. w3 = [w2 EXCEPT !.consumed = w2.consumed \/ from = "spot", !.star = 0]
  BY DEF transferBetweenWallets
<1> HIDE DEF w1, w2, w3
<1>4. DOMAIN w3 = Fields /\ w3.ledger = w2.ledger
  BY <1>2, <1>3 DEF Fields
<1>5. Grows(w3, w4, {}) /\ Mirrors(w4, row2) /\ DOMAIN w4 = Fields
  BY <1>4, MirroredGrows
<1>6. Keys(w3) = Keys(w2)
  BY <1>4 DEF Keys
<1> HIDE DEF w4
<1>7. Grows(w, w4, {<<"transfer", key>>})
  BY <1>1, <1>2, <1>5, <1>6 DEF Grows
<1> QED BY <1>5, <1>7 DEF w4, w3, w1

\* What a registration has read of a document that nobody overwrote is in order.
OpenInv ==
    open.user # Nobody =>
        \A v \in Users \ stale :
            retainedFuturePrincipal(open.docs[v], open.rows[v]) = open.docs[v].principal

\* Nobody notices that a document was overwritten.
LEMMA StaleGrows == [Next]_vars => stale \subseteq stale'
<1>1. CASE UNCHANGED books
  BY <1>1 DEF books
<1>2. CASE NetworkWrites
  BY <1>2 DEF NetworkWrites, TransferAnswered, TransferUnconfirmed, Transfer, BuyBot, ExpireBot,
              TradeLocks, TradeSettles, applyAdminFund, RegisterWrite
<1>3. CASE DepositWrites
  BY <1>3 DEF DepositWrites, CreateSaves, SaveCommit
<1> QED BY <1>1, <1>2, <1>3, Writers

\* A registration reads documents that mirror their rows.
LEMMA OpenStep == DepositInv /\ MirrorIsExact /\ OpenInv /\ [Next]_vars => OpenInv'
<1> SUFFICES ASSUME DepositInv, MirrorIsExact, OpenInv, [Next]_vars, open'.user # Nobody
             PROVE  OpenInv'
  BY DEF OpenInv
<1>1. CASE UNCHANGED open
  BY <1>1, StaleGrows DEF OpenInv
<1>2. CASE open'.docs = doc /\ open'.rows = financial
  BY <1>2, StaleGrows DEF OpenInv, MirrorIsExact, retainedFuturePrincipal
<1> QED BY <1>1, <1>2, Snapshots

\* The tables beside the documents, each as the keys it asks for.
Moved(u) == {e[1] : e \in {x \in aiLedger[u] : x[1][1] = "transfer"}}
Incomes(u) == {<<"income", e.source, e.kind, e.level>> : e \in {x \in entry : x.recipient = u}}
Bought(u) == {<<"bot", n>> : n \in bot[u].bought}
BoughtBelow(u) ==
    {<<"botincome", n>> : n \in UNION {bot[v].bought : v \in {w \in Users : SponsorOf[w] = u}}}
Funded(u) == {<<"fund", f.key>> : f \in {g \in funds : g.user = u}}
Credited(u) ==
    {<<"deposit", p>> : p \in {q \in Payments : u = Depositor /\ deposit[q].credited}}

AgreesFor(u) ==
    /\ Posted(u, "transfer") = Moved(u) /\ Posted(u, "income") = Incomes(u)
    /\ Posted(u, "bot") = Bought(u) /\ Posted(u, "botincome") = BoughtBelow(u)
    /\ Posted(u, "fund") = Funded(u) /\ Posted(u, "deposit") = Credited(u)

\* The two invariants, user by user:
LEMMA AgreesForAll == LedgersAgree <=> \A u \in Users \ stale : AgreesFor(u)
BY DEF LedgersAgree, AgreesFor, Moved, Incomes, Bought, BoughtBelow, Funded, Credited

\* the ledger against the tables, and the mirror against its row.
LEMMA MirrorsAll == MirrorIsExact <=> \A u \in Users \ stale : Mirrors(doc[u], financial[u])
BY DEF MirrorIsExact, Mirrors

Kind(K, kind) == {x \in K : x[1] = kind}

\* The keys of a kind after a write.
LEMMA PostedAfter ==
    ASSUME NEW u \in Users, NEW K, Grows(doc[u], doc'[u], K), NEW kind, kind # "reward"
    PROVE  Posted(u, kind)' = Posted(u, kind) \cup Kind(K, kind)
<1>1. \A x : x \in Posted(u, kind) <=> x \in Keys(doc[u]) /\ x[1] = kind
  BY DEF Posted, Keys
<1>2. \A x : x \in Posted(u, kind)' <=> x \in Keys(doc'[u]) /\ x[1] = kind
  BY DEF Posted, Keys
<1>3. \A x : x[1] = kind => (x \in Keys(doc'[u]) <=> x \in Keys(doc[u]) \cup K)
  BY DEF Grows
<1> QED BY <1>1, <1>2, <1>3 DEF Kind

\* What a step enters into a document is what it enters into the tables.
LEMMA AgreesAfter ==
    ASSUME NEW u \in Users, NEW K, AgreesFor(u), Grows(doc[u], doc'[u], K),
           Moved(u)' = Moved(u) \cup Kind(K, "transfer"),
           Incomes(u)' = Incomes(u) \cup Kind(K, "income"),
           Bought(u)' = Bought(u) \cup Kind(K, "bot"),
           BoughtBelow(u)' = BoughtBelow(u) \cup Kind(K, "botincome"),
           Funded(u)' = Funded(u) \cup Kind(K, "fund"),
           Credited(u)' = Credited(u) \cup Kind(K, "deposit")
    PROVE  AgreesFor(u)'
<1>1. \A kind \in {"transfer", "income", "bot", "botincome", "fund", "deposit"} :
        Posted(u, kind)' = Posted(u, kind) \cup Kind(K, kind)
  BY PostedAfter
<1> QED BY <1>1 DEF AgreesFor

\* No keys of any kind, and
LEMMA NoKeys == \A kind : Kind({}, kind) = {}
BY DEF Kind

\* the kind of a single one.
LEMMA OneKey ==
    ASSUME NEW kind, NEW id
    PROVE  /\ Kind({<<kind, id>>}, kind) = {<<kind, id>>}
           /\ \A other : other # kind => Kind({<<kind, id>>}, other) = {}
BY DEF Kind

RowsShape ==
    /\ DOMAIN financial = Users /\ DOMAIN aiLedger = Users /\ DOMAIN bot = Users
    /\ \A u \in Users :
         /\ DOMAIN financial[u] = {"available", "locked", "profit", "retained", "open"}
         /\ DOMAIN bot[u] = {"bought", "active"}

NewRows ==
    /\ making \in Payments => ~Known(making)
    /\ \A p \in Payments : deposit[p].credited => Known(p)

Completes(c) ==
    /\ Confirmed(call[c].report)
    /\ CreditStatus(call[c].record, call[c].report) = "CREDITED"

\* A commit marks the deposit credited exactly when it posts the credit.
LEMMA CommitRow ==
    ASSUME NEW c, SaveCommit(c)
    PROVE  \E row : /\ deposit' = [deposit EXCEPT ![call[c].payment] = row]
                    /\ row.exists
                    /\ row.credited = (deposit[call[c].payment].credited \/ Completes(c))
<1> DEFINE p == call[c].payment
           report == call[c].report
           credit == CreditStatus(call[c].record, report)
           row == [exists |-> TRUE, providerStatus |-> report.status,
                   status |-> CASE credit = "CREDITED" -> "COMPLETED"
                                [] credit = "MANUAL_REVIEW" -> "MANUAL_REVIEW"
                                [] OTHER -> Public(report.status),
                   amount |-> report.paid,
                   credited |-> deposit[p].credited \/ (Confirmed(report) /\ credit = "CREDITED"),
                   confirmed |-> Confirmed(report) /\ credit = "CREDITED"]
<1>1. deposit' = [deposit EXCEPT ![p] = row]
  BY DEF SaveCommit
<1>2. row.exists /\ row.credited = (deposit[p].credited \/ Completes(c))
  BY DEF Completes
<1> HIDE DEF row
<1> QED BY <1>1, <1>2

\* A row is credited only if it exists.
LEMMA NewRowsStep == DepositInv /\ NewRows /\ [Next]_vars => NewRows'
<1> SUFFICES ASSUME DepositInv, NewRows, [Next]_vars PROVE NewRows' OBVIOUS
<1> USE DEF NewRows
<1>1. CASE UNCHANGED <<making, deposit>>
  BY <1>1 DEF Known
<1>2. CASE UNCHANGED depositVars
  BY <1>1, <1>2 DEF depositVars
<1>3. ASSUME NEW p \in Payments, ProviderStep(p) PROVE UNCHANGED <<making, deposit>>
  BY <1>3 DEF ProviderStep
<1>4. CASE CreateBegins \/ CreateFails
  <2>1. making' \in {"none", "asked"} /\ deposit' = deposit
    BY <1>4 DEF CreateBegins, CreateFails
  <2> QED BY <2>1, DepositAssumption DEF Known
<1>5. CASE ProviderCreates
  <2>1. PICK p \in Payments : provider[p] = Silent /\ making' = p
    BY <1>5 DEF ProviderCreates
  <2>2. deposit' = deposit
    BY <1>5 DEF ProviderCreates
  <2> QED BY <2>1, <2>2 DEF Known, DepositInv, RowsOK
<1>6. CASE CreateSaves
  <2> DEFINE row == [NoDeposit EXCEPT !.exists = TRUE, !.providerStatus = "WAITING",
                                      !.status = Public("WAITING")]
  <2>1. deposit' = [deposit EXCEPT ![making] = row] /\ making' = "none"
    BY <1>6 DEF CreateSaves
  <2>2. row.exists
    BY DEF NoDeposit
  <2> HIDE DEF row
  <2>3. \A p \in Payments : deposit'[p] = IF p = making THEN row ELSE deposit[p]
    BY <2>1 DEF DepositInv, RowsOK
  <2> QED BY <2>1, <2>2, <2>3, DepositAssumption DEF Known
<1>7. ASSUME NEW c \in Calls, CallStep(c) PROVE NewRows'
  <2>1. CASE SaveCommit(c)
    <3>1. call[c].payment \in Payments /\ Known(call[c].payment) /\ making' = making
      BY <2>1 DEF SaveCommit, DepositInv, CallsOK, CallOK
    <3>2. PICK row : deposit' = [deposit EXCEPT ![call[c].payment] = row] /\ row.exists
      BY <2>1, CommitRow
    <3>3. \A p \in Payments : deposit'[p] = IF p = call[c].payment THEN row ELSE deposit[p]
      BY <3>2 DEF DepositInv, RowsOK
    <3> QED BY <3>1, <3>2, <3>3 DEF Known
  <2>2. CASE ~SaveCommit(c)
    BY <1>1, <1>7, <2>2 DEF CallStep, IpnArrives, RefreshBegins, getPaymentStatus, SaveRead,
                            SaveUpdate, CallFails
  <2> QED BY <2>1, <2>2
<1> QED BY <1>1, <1>2, <1>3, <1>4, <1>5, <1>6, <1>7 DEF Next, DepositNext, vars

AgreeInv == RowsShape /\ LedgersAgree /\ MirrorIsExact
BooksInv == WalletInv /\ UserFound /\ NewRows /\ OpenInv /\ AgreeInv

\* The shape of the documents, which every leaf below needs.
LEMMA Shapes ==
    ASSUME BooksInv
    PROVE  /\ DOMAIN doc = Users /\ \A u \in Users : DOMAIN doc[u] = Fields
           /\ \A u \in Users \ stale : AgreesFor(u) /\ Mirrors(doc[u], financial[u])
BY AgreesForAll, MirrorsAll DEF BooksInv, AgreeInv, WalletInv, DocsInv, DocsOK, DocOK

\* The books agree after a step if those do that nobody overwrote.
LEMMA AgreeNow ==
    ASSUME RowsShape',
           \A v \in Users \ stale' : AgreesFor(v)' /\ Mirrors(doc'[v], financial'[v])
    PROVE  AgreeInv'
BY DEF AgreeInv, LedgersAgree, AgreesFor, MirrorIsExact, Mirrors, Moved, Incomes, Bought,
       BoughtBelow, Funded, Credited

\* Neither the documents nor what they are compared with changes.
LEMMA LedgersStay ==
    ASSUME BooksInv, UNCHANGED <<doc, aiLedger, stale, entry, funds>>,
           \A v \in Users : bot'[v].bought = bot[v].bought,
           \A p \in Payments : deposit'[p].credited = deposit[p].credited
    PROVE  \A v \in Users \ stale' : AgreesFor(v)'
<1>1. ASSUME NEW u \in Users
      PROVE  /\ Moved(u)' = Moved(u) /\ Incomes(u)' = Incomes(u) /\ Bought(u)' = Bought(u)
             /\ Funded(u)' = Funded(u) /\ Credited(u)' = Credited(u)
             /\ \A kind : Posted(u, kind)' = Posted(u, kind)
  BY DEF Moved, Incomes, Bought, Funded, Credited, Posted
<1>2. ASSUME NEW u \in Users PROVE BoughtBelow(u)' = BoughtBelow(u)
  <2>1. \A n : n \in UNION {bot'[v].bought : v \in {w \in Users : SponsorOf[w] = u}}
                 <=> n \in UNION {bot[v].bought : v \in {w \in Users : SponsorOf[w] = u}}
    OBVIOUS
  <2> QED BY <2>1 DEF BoughtBelow
<1> QED BY <1>1, <1>2, Shapes DEF AgreesFor

\* A row as it is changed, and the row a document starts from.
LEMMA RowLemma ==
    ASSUME NEW row, NEW w, NEW a, NEW l, NEW p, NEW r,
           DOMAIN row = {"available", "locked", "profit", "retained", "open"}
    PROVE  /\ DOMAIN Ensured(row, w) = {"available", "locked", "profit", "retained", "open"}
           /\ DOMAIN Mutated(row, a, l, p, r) = {"available", "locked", "profit", "retained", "open"}
           /\ Mirrors(w, row) => Mirrors(w, Ensured(row, w))
BY DEF Ensured, Mutated, Mirrors

\* The writers of a document, one lemma each: a transfer to be confirmed,
LEMMA UnconfirmedBooks ==
    ASSUME BooksInv, NEW u \in Users, TransferUnconfirmed(u), UNCHANGED depositVars
    PROVE  AgreeInv'
<1>1. /\ UNCHANGED <<doc, aiLedger, stale, bot, funds, entry, deposit>>
      /\ financial' = [financial EXCEPT ![u] = Row(u)]
  BY DEF TransferUnconfirmed, incomeVars, depositVars
<1>2. DOMAIN Row(u) = {"available", "locked", "profit", "retained", "open"}
  BY RowLemma DEF Row, BooksInv, AgreeInv, RowsShape
<1>3. RowsShape'
  BY <1>1, <1>2 DEF BooksInv, AgreeInv, RowsShape
<1>4. \A v \in Users \ stale' : AgreesFor(v)'
  BY <1>1, LedgersStay
<1>5. \A v \in Users \ stale : Mirrors(doc'[v], financial'[v])
  <2>1. Mirrors(doc[u], financial[u]) => Mirrors(doc[u], Row(u))
    BY RowLemma DEF Row, BooksInv, AgreeInv, RowsShape
  <2> QED BY <1>1, <2>1, Shapes DEF BooksInv, AgreeInv, RowsShape
<1> QED BY <1>1, <1>3, <1>4, <1>5, AgreeNow

\* a repeated one, with the income of levels qualified since,
LEMMA AnsweredBooks ==
    ASSUME BooksInv, NEW u \in Users, TransferAnswered(u), UNCHANGED depositVars
    PROVE  AgreeInv'
<1>1. PICK paid : doc' = WithIncome(doc, paid) /\ entry' = entry \cup paid
  BY AnsweredIncome DEF BooksInv
<1>2. /\ UNCHANGED <<aiLedger, stale, bot, funds, deposit>>
      /\ financial' = [financial EXCEPT ![u] = Row(u)]
  BY DEF TransferAnswered, depositVars
<1>3. DOMAIN Row(u) = {"available", "locked", "profit", "retained", "open"}
  BY RowLemma DEF Row, BooksInv, AgreeInv, RowsShape
<1>4. RowsShape'
  BY <1>2, <1>3 DEF BooksInv, AgreeInv, RowsShape
<1>5. ASSUME NEW v \in Users
      PROVE  Grows(doc[v], doc'[v], IncomeKeys(paid, v)) /\ SameMirror(doc[v], doc'[v])
  BY <1>1, Shapes, IncomeGrows
<1>6. ASSUME NEW v \in Users \ stale PROVE Mirrors(doc'[v], financial'[v])
  <2>1. Mirrors(doc[u], financial[u]) => Mirrors(doc[u], Row(u))
    BY RowLemma DEF Row, BooksInv, AgreeInv, RowsShape
  <2>2. Mirrors(doc[v], financial'[v])
    BY <1>2, <2>1, Shapes DEF BooksInv, AgreeInv, RowsShape
  <2> QED BY <1>5, <2>2 DEF SameMirror, Mirrors
<1>7. ASSUME NEW v \in Users \ stale PROVE AgreesFor(v)'
  <2>1. /\ Moved(v)' = Moved(v) /\ Bought(v)' = Bought(v) /\ BoughtBelow(v)' = BoughtBelow(v)
        /\ Funded(v)' = Funded(v) /\ Credited(v)' = Credited(v)
    BY <1>2 DEF Moved, Bought, BoughtBelow, Funded, Credited
  <2>2. Incomes(v)' = Incomes(v) \cup IncomeKeys(paid, v)
    BY <1>1 DEF Incomes, IncomeKeys
  <2>3. \A x \in IncomeKeys(paid, v) : x[1] = "income"
    BY DEF IncomeKeys
  <2>4. /\ \A kind : kind # "income" => Kind(IncomeKeys(paid, v), kind) = {}
        /\ Kind(IncomeKeys(paid, v), "income") = IncomeKeys(paid, v)
    BY <2>3 DEF Kind
  <2> QED BY <1>5, <2>1, <2>2, <2>4, Shapes, AgreesAfter
<1> QED BY <1>2, <1>4, <1>6, <1>7, AgreeNow

\* a trade's lock and settlement,
LEMMA TradeBooks ==
    ASSUME BooksInv, NEW u \in Users, TradeLocks(u) \/ TradeSettles(u), UNCHANGED depositVars
    PROVE  AgreeInv'
<1>1. PICK row, K : /\ financial' = [financial EXCEPT ![u] = row]
                    /\ DOMAIN row = {"available", "locked", "profit", "retained", "open"}
                    /\ aiLedger' = [aiLedger EXCEPT ![u] = aiLedger[u] \cup K]
                    /\ \A e \in K : e[1][1] # "transfer"
                    /\ doc' = [doc EXCEPT ![u] = Mirrored(doc[u], row)]
  <2>1. /\ DOMAIN financial = Users /\ DOMAIN aiLedger = Users /\ DOMAIN doc = Users
        /\ DOMAIN financial[u] = {"available", "locked", "profit", "retained", "open"}
    BY Shapes DEF BooksInv, AgreeInv, RowsShape
  <2>2. CASE TradeLocks(u)
    <3> DEFINE row == Mutated(financial[u], -Stake, Stake, 0, 0)
               e == <<<<"lock", ops'>>, -Stake>>
    <3>1. /\ financial' = [financial EXCEPT ![u] = row]
          /\ aiLedger' = [aiLedger EXCEPT ![u] = aiLedger[u] \cup {e}]
          /\ doc' = [doc EXCEPT ![u] = Mirrored(doc[u], row)]
      BY <2>1, <2>2 DEF TradeLocks
    <3>2. e[1][1] = "lock"
      OBVIOUS
    <3> DEFINE K == {e}
    <3>3. DOMAIN row = {"available", "locked", "profit", "retained", "open"}
      BY <2>1, RowLemma
    <3> HIDE DEF row, e
    <3>4. aiLedger' = [aiLedger EXCEPT ![u] = aiLedger[u] \cup K]
          /\ \A x \in K : x[1][1] # "transfer"
      BY <3>1, <3>2
    <3> HIDE DEF K
    <3> QED BY <3>1, <3>3, <3>4
  <2>3. CASE TradeSettles(u)
    <3> DEFINE row == Mutated(financial[u], Stake + Profit, -Stake, Profit, 0)
               returned(i) == <<<<"return", i>>, Stake>>
               profit(i) == <<<<"profit", i>>, Profit>>
    <3>1. PICK e : /\ financial' = [financial EXCEPT ![u] = row]
                   /\ aiLedger' = [aiLedger EXCEPT ![u] =
                                     aiLedger[u] \cup {returned(e[1][2]), profit(e[1][2])}]
                   /\ doc' = [doc EXCEPT ![u] = Mirrored(doc[u], row)]
      BY <2>1, <2>3 DEF TradeSettles
    <3>2. \A i : returned(i)[1][1] = "return" /\ profit(i)[1][1] = "profit"
      OBVIOUS
    <3>3. DOMAIN row = {"available", "locked", "profit", "retained", "open"}
      BY <2>1, RowLemma
    <3> DEFINE K == {returned(e[1][2]), profit(e[1][2])}
    <3> HIDE DEF row, returned, profit
    <3>4. aiLedger' = [aiLedger EXCEPT ![u] = aiLedger[u] \cup K]
          /\ \A x \in K : x[1][1] # "transfer"
      BY <3>1, <3>2
    <3> HIDE DEF K
    <3> QED BY <3>1, <3>3, <3>4
  <2> QED BY <2>2, <2>3
<1>2. UNCHANGED <<stale, bot, funds, entry, deposit>>
  BY DEF TradeLocks, TradeSettles, incomeVars, depositVars
<1>3. RowsShape'
  BY <1>1, <1>2 DEF BooksInv, AgreeInv, RowsShape
<1>4. /\ \A v \in Users : Grows(doc[v], doc'[v], {})
      /\ \A v \in Users \ stale : Mirrors(doc'[v], financial'[v])
  <2>1. Grows(doc[u], Mirrored(doc[u], row), {}) /\ Mirrors(Mirrored(doc[u], row), row)
    BY Shapes, MirroredGrows
  <2>2. \A v \in Users : doc'[v] = IF v = u THEN Mirrored(doc[u], row) ELSE doc[v]
    BY <1>1, Shapes
  <2>3. \A v \in Users : financial'[v] = IF v = u THEN row ELSE financial[v]
    BY <1>1 DEF BooksInv, AgreeInv, RowsShape
  <2>4. \A v \in Users : Grows(doc[v], doc[v], {})
    BY DEF Grows
  <2> QED BY <2>1, <2>2, <2>3, <2>4, Shapes
<1>5. \A v \in Users : Moved(v)' = Moved(v)
  <2>1. \A v \in Users : aiLedger'[v] = IF v = u THEN aiLedger[u] \cup K ELSE aiLedger[v]
    BY <1>1 DEF BooksInv, AgreeInv, RowsShape
  <2> QED BY <1>1, <2>1 DEF Moved
<1>6. \A v \in Users : /\ Incomes(v)' = Incomes(v) /\ Bought(v)' = Bought(v)
                       /\ BoughtBelow(v)' = BoughtBelow(v) /\ Funded(v)' = Funded(v)
                       /\ Credited(v)' = Credited(v)
  BY <1>2 DEF Incomes, Bought, BoughtBelow, Funded, Credited
<1>7. \A v \in Users \ stale : AgreesFor(v)'
  BY <1>4, <1>5, <1>6, Shapes, NoKeys, AgreesAfter
<1> QED BY <1>2, <1>3, <1>4, <1>7, AgreeNow

\* the purchase of an AI Bot,
LEMMA BotBooks ==
    ASSUME BooksInv, NEW u \in Users, BuyBot(u), UNCHANGED depositVars
    PROVE  AgreeInv'
<1> DEFINE sponsor == SponsorOf[u]
           n == ops'
           w == PostSpot(doc[u], <<"bot", n>>, -BotPrice)
           paid == [doc EXCEPT ![u] = w]
           K == [v \in Users |-> (IF v = u THEN {<<"bot", n>>} ELSE {})
                                   \cup (IF v = sponsor THEN {<<"botincome", n>>} ELSE {})]
<1>1. /\ financial' = financial /\ aiLedger' = aiLedger /\ funds' = funds /\ entry' = entry
      /\ deposit' = deposit /\ stale' = stale
  BY DEF BuyBot, incomeVars, depositVars
<1>2. bot' = [bot EXCEPT ![u] = [bought |-> bot[u].bought \cup {n}, active |-> TRUE]]
  BY DEF BuyBot, BooksInv, AgreeInv, RowsShape
<1>3. sponsor = Nobody \/ sponsor \in Users
  BY RankAssumption, NetworkAssumption
<1>4. \/ sponsor = Nobody /\ doc' = paid
      \/ /\ sponsor \in Users
         /\ doc' = [paid EXCEPT ![sponsor] =
                       PostSpot(paid[sponsor], <<"botincome", n>>, Percent(BotPrice, 10))]
  <2>1. DOMAIN doc = Users
    BY Shapes
  <2> QED BY <1>3, <2>1 DEF BuyBot
<1>5. Nobody \notin Users
  BY RankAssumption, NetworkAssumption
<1> HIDE DEF sponsor, n
<1>6. RowsShape'
  BY <1>1, <1>2 DEF BooksInv, AgreeInv, RowsShape
<1>7. \A v \in Users : /\ Grows(doc[v], paid[v], IF v = u THEN {<<"bot", n>>} ELSE {})
                       /\ SameMirror(doc[v], paid[v]) /\ DOMAIN paid[v] = Fields
  <2>1. Grows(doc[u], w, {<<"bot", n>>}) /\ SameMirror(doc[u], w) /\ DOMAIN w = Fields
    BY Shapes, PostSpotGrows
  <2>2. \A v \in Users : paid[v] = IF v = u THEN w ELSE doc[v]
    BY Shapes
  <2> HIDE DEF w, paid
  <2> QED BY <2>1, <2>2, Shapes DEF Grows, SameMirror
<1>8. DOMAIN paid = Users
  BY Shapes
<1> HIDE DEF w, paid
<1>9. \A v \in Users : Grows(doc[v], doc'[v], K[v]) /\ SameMirror(doc[v], doc'[v])
  <2>1. CASE sponsor = Nobody /\ doc' = paid
    <3>1. \A v \in Users : K[v] = IF v = u THEN {<<"bot", n>>} ELSE {}
      BY <1>5, <2>1
    <3> HIDE DEF K
    <3> QED BY <1>7, <2>1, <3>1
  <2>2. CASE /\ sponsor \in Users
             /\ doc' = [paid EXCEPT ![sponsor] =
                           PostSpot(paid[sponsor], <<"botincome", n>>, Percent(BotPrice, 10))]
    <3> DEFINE w2 == PostSpot(paid[sponsor], <<"botincome", n>>, Percent(BotPrice, 10))
    <3>1. \A v \in Users : doc'[v] = IF v = sponsor THEN w2 ELSE paid[v]
      BY <1>8, <2>2
    <3>2. Grows(paid[sponsor], w2, {<<"botincome", n>>}) /\ SameMirror(paid[sponsor], w2)
      BY <1>7, <2>2, PostSpotGrows
    <3>3. \A v \in Users :
             /\ K[v] = (IF v = u THEN {<<"bot", n>>} ELSE {})
                         \cup (IF v = sponsor THEN {<<"botincome", n>>} ELSE {})
      OBVIOUS
    <3> HIDE DEF w2, K
    <3> QED BY <1>7, <3>1, <3>2, <3>3 DEF Grows, SameMirror
  <2> QED BY <1>4, <2>1, <2>2
<1>10. \A v \in Users \ stale : Mirrors(doc'[v], financial'[v])
  BY <1>1, <1>9, Shapes DEF SameMirror, Mirrors
<1>11. ASSUME NEW v \in Users \ stale PROVE AgreesFor(v)'
  <2>1. \A x \in Users : bot'[x].bought = IF x = u THEN bot[u].bought \cup {n} ELSE bot[x].bought
    BY <1>2 DEF BooksInv, AgreeInv, RowsShape
  <2>2. /\ Moved(v)' = Moved(v) /\ Incomes(v)' = Incomes(v) /\ Funded(v)' = Funded(v)
        /\ Credited(v)' = Credited(v)
    BY <1>1 DEF Moved, Incomes, Funded, Credited
  <2>3. /\ Kind(K[v], "transfer") = {} /\ Kind(K[v], "income") = {}
        /\ Kind(K[v], "fund") = {} /\ Kind(K[v], "deposit") = {}
        /\ Kind(K[v], "bot") = IF v = u THEN {<<"bot", n>>} ELSE {}
        /\ Kind(K[v], "botincome") = IF v = sponsor THEN {<<"botincome", n>>} ELSE {}
    BY DEF Kind
  <2> HIDE DEF K
  <2>4. Bought(v)' = Bought(v) \cup Kind(K[v], "bot")
    BY <2>1, <2>3 DEF Bought
  <2>5. BoughtBelow(v)' = BoughtBelow(v) \cup Kind(K[v], "botincome")
    <3> DEFINE below == UNION {bot[x].bought : x \in {y \in Users : SponsorOf[y] = v}}
               below2 == UNION {bot'[x].bought : x \in {y \in Users : SponsorOf[y] = v}}
    <3>1. below2 = below \cup (IF v = sponsor THEN {n} ELSE {})
      <4>1. \A i : i \in below <=> \E x \in Users : SponsorOf[x] = v /\ i \in bot[x].bought
        OBVIOUS
      <4>2. \A i : i \in below2 <=> \E x \in Users : SponsorOf[x] = v /\ i \in bot'[x].bought
        OBVIOUS
      <4> HIDE DEF below, below2
      <4> QED BY <2>1, <4>1, <4>2 DEF sponsor
    <3>2. BoughtBelow(v) = {<<"botincome", i>> : i \in below}
          /\ BoughtBelow(v)' = {<<"botincome", i>> : i \in below2}
      BY DEF BoughtBelow
    <3> HIDE DEF below, below2
    <3> QED BY <2>3, <3>1, <3>2
  <2> QED BY <1>9, <2>2, <2>3, <2>4, <2>5, Shapes, AgreesAfter
<1> QED BY <1>1, <1>6, <1>10, <1>11, AgreeNow

\* its end,
LEMMA ExpiryBooks ==
    ASSUME BooksInv, NEW u \in Users, ExpireBot(u), UNCHANGED depositVars
    PROVE  AgreeInv'
<1>1. /\ UNCHANGED <<doc, financial, aiLedger, stale, funds, entry, deposit>>
      /\ bot' = [bot EXCEPT ![u].active = FALSE]
  BY DEF ExpireBot, ledgerVars, incomeVars, depositVars
<1>2. \A v \in Users : bot'[v].bought = bot[v].bought /\ DOMAIN bot'[v] = {"bought", "active"}
  BY <1>1 DEF BooksInv, AgreeInv, RowsShape
<1>3. RowsShape'
  BY <1>1, <1>2 DEF BooksInv, AgreeInv, RowsShape
<1>4. \A v \in Users \ stale' : AgreesFor(v)'
  BY <1>1, <1>2, LedgersStay
<1> QED BY <1>1, <1>3, <1>4, Shapes, AgreeNow

\* an administrator's adjustment,
LEMMA FundBooks ==
    ASSUME BooksInv, applyAdminFund, UNCHANGED depositVars
    PROVE  AgreeInv'
<1> DEFINE u == desk.user
           w == PostSpot(doc[u], <<"fund", desk.key>>, desk.delta)
           f == [key |-> desk.key, user |-> u, delta |-> desk.delta]
<1>1. /\ financial' = financial /\ aiLedger' = aiLedger /\ bot' = bot /\ entry' = entry
      /\ deposit' = deposit /\ stale' = stale /\ funds' = funds \cup {f}
  BY DEF applyAdminFund, incomeVars, depositVars
<1>2. u \in Users
  BY DEF applyAdminFund, FundIsNew, BooksInv, UserFound
<1>3. doc' = [doc EXCEPT ![u] = w]
  BY <1>2, Shapes DEF applyAdminFund
<1>4. f.key = desk.key /\ f.user = u
  OBVIOUS
<1>5. Grows(doc[u], w, {<<"fund", desk.key>>}) /\ SameMirror(doc[u], w)
  BY <1>2, Shapes, PostSpotGrows
<1> HIDE DEF u, w, f
<1>6. \A v \in Users :
        /\ Grows(doc[v], doc'[v], IF v = u THEN {<<"fund", desk.key>>} ELSE {})
        /\ SameMirror(doc[v], doc'[v])
  <2>1. \A v \in Users : doc'[v] = IF v = u THEN w ELSE doc[v]
    BY <1>3, Shapes
  <2> QED BY <1>5, <2>1 DEF Grows, SameMirror
<1>7. \A v \in Users \ stale : Mirrors(doc'[v], financial'[v])
  BY <1>1, <1>6, Shapes DEF SameMirror, Mirrors
<1>8. ASSUME NEW v \in Users \ stale PROVE AgreesFor(v)'
  <2> DEFINE K == IF v = u THEN {<<"fund", desk.key>>} ELSE {}
  <2>1. /\ Moved(v)' = Moved(v) /\ Incomes(v)' = Incomes(v) /\ Bought(v)' = Bought(v)
        /\ BoughtBelow(v)' = BoughtBelow(v) /\ Credited(v)' = Credited(v)
    BY <1>1 DEF Moved, Incomes, Bought, BoughtBelow, Credited
  <2>2. /\ \A kind : kind # "fund" => Kind(K, kind) = {}
        /\ Kind(K, "fund") = K
    BY DEF Kind
  <2>3. Funded(v)' = Funded(v) \cup K
    BY <1>1, <1>4 DEF Funded
  <2>4. Grows(doc[v], doc'[v], K)
    BY <1>6
  <2> HIDE DEF K
  <2> QED BY <2>1, <2>2, <2>3, <2>4, Shapes, AgreesAfter
<1>9. RowsShape'
  BY <1>1 DEF BooksInv, AgreeInv, RowsShape
<1> QED BY <1>1, <1>7, <1>8, <1>9, AgreeNow

\* a registration, but for those it overwrites with something else,
LEMMA RegisterBooks ==
    ASSUME BooksInv, RegisterWrite, UNCHANGED depositVars
    PROVE  AgreeInv'
<1>1. /\ UNCHANGED <<financial, aiLedger, bot, funds, entry, deposit>>
      /\ open.user # Nobody
      /\ doc' = recalculateAuthoritativeNetwork(members', open.docs, open.rows)
      /\ stale' = stale \cup {u \in Users : open.docs[u] # doc[u]}
  BY DEF RegisterWrite, incomeVars, depositVars
<1>2. ASSUME NEW v \in Users \ stale'
      PROVE  v \notin stale /\ Grows(doc[v], doc'[v], {}) /\ SameMirror(doc[v], doc'[v])
  <2>1. v \notin stale /\ open.docs[v] = doc[v] /\ DOMAIN doc[v] = Fields
    BY <1>1, Shapes
  <2>2. retainedFuturePrincipal(open.docs[v], open.rows[v]) = open.docs[v].principal
    BY <1>1, <2>1 DEF BooksInv, OpenInv
  <2> QED BY <1>1, <2>1, <2>2, RecalculationGrows
<1>3. ASSUME NEW v \in Users \ stale' PROVE AgreesFor(v)'
  <2>1. /\ Moved(v)' = Moved(v) /\ Incomes(v)' = Incomes(v) /\ Bought(v)' = Bought(v)
        /\ BoughtBelow(v)' = BoughtBelow(v) /\ Funded(v)' = Funded(v)
        /\ Credited(v)' = Credited(v)
    BY <1>1 DEF Moved, Incomes, Bought, BoughtBelow, Funded, Credited
  <2> QED BY <1>2, <2>1, Shapes, NoKeys, AgreesAfter
<1>4. \A v \in Users \ stale' : Mirrors(doc'[v], financial'[v])
  BY <1>1, <1>2, Shapes DEF SameMirror, Mirrors
<1>5. RowsShape'
  BY <1>1 DEF BooksInv, AgreeInv, RowsShape
<1> QED BY <1>3, <1>4, <1>5, AgreeNow

\* the creation of a deposit,
LEMMA CreationBooks ==
    ASSUME BooksInv, CreateSaves, UNCHANGED networkVars
    PROVE  AgreeInv'
<1> DEFINE row == [NoDeposit EXCEPT !.exists = TRUE, !.providerStatus = "WAITING",
                                    !.status = Public("WAITING")]
<1>1. /\ UNCHANGED <<doc, financial, aiLedger, stale, bot, funds, entry>>
      /\ making \in Payments /\ deposit' = [deposit EXCEPT ![making] = row]
  BY DEF CreateSaves, ledgerVars, networkVars, incomeVars
<1>2. row.credited = FALSE
  BY DEF NoDeposit
<1>3. deposit[making] \in DepositRow
  BY <1>1 DEF BooksInv, WalletInv, DepositInv, RowsOK
<1>4. deposit[making].credited = FALSE
  BY <1>1, <1>3 DEF BooksInv, NewRows, DepositRow
<1> HIDE DEF row
<1>5. \A p \in Payments : deposit'[p].credited = deposit[p].credited
  BY <1>1, <1>2, <1>4 DEF BooksInv, WalletInv, DepositInv, RowsOK
<1>6. \A v \in Users \ stale' : AgreesFor(v)'
  BY <1>1, <1>5, LedgersStay
<1>7. RowsShape'
  BY <1>1 DEF BooksInv, AgreeInv, RowsShape
<1> QED BY <1>1, <1>6, <1>7, Shapes, AgreeNow

\* the claim of a deposit, which finds the document as it is or overwrites it,
LEMMA CommitBooks ==
    ASSUME BooksInv, NEW c \in Calls, SaveCommit(c), UNCHANGED networkVars
    PROVE  AgreeInv'
<1> DEFINE p == call[c].payment
           w == PostSpot(doc[Depositor], <<"deposit", p>>, call[c].report.paid)
<1>1. /\ UNCHANGED <<financial, aiLedger, bot, funds, entry>> /\ p \in Payments
      /\ Depositor \in Users
  <2>1. p \in Payments
    BY DEF BooksInv, WalletInv, DepositInv, CallsOK, CallOK, SaveCommit
  <2> QED BY <2>1, DepositAssumption DEF SaveCommit, networkVars, incomeVars
<1> DEFINE old == call[c].wallet
           w2 == PostSpot(old, <<"deposit", p>>, call[c].report.paid)
<1>2. IF Completes(c) /\ ~deposit[p].credited
      THEN /\ doc' = [doc EXCEPT ![Depositor] = w2]
           /\ stale' = IF old # doc[Depositor] THEN stale \cup {Depositor} ELSE stale
      ELSE UNCHANGED <<doc, stale>>
  BY DEF SaveCommit, Completes
<1>7. RowsShape'
  BY <1>1 DEF BooksInv, AgreeInv, RowsShape
<1>3. \A q \in Payments : q # p => deposit'[q] = deposit[q]
  BY CommitRow DEF BooksInv, WalletInv, DepositInv, RowsOK
<1>4. deposit'[p].credited <=> deposit[p].credited \/ Completes(c)
  BY <1>1, CommitRow DEF BooksInv, WalletInv, DepositInv, RowsOK
<1>5. CASE ~(Completes(c) /\ ~deposit[p].credited)
  <2>1. deposit[p] \in DepositRow /\ deposit'[p] \in DepositRow
    <3>1. deposit \in [Payments -> DepositRow] /\ DepositInv'
      BY DepositStep DEF BooksInv, WalletInv, DepositInv, RowsOK, Next, DepositNext, CallStep
    <3> QED BY <1>1, <3>1 DEF DepositInv, RowsOK
  <2>2. \A q \in Payments : deposit'[q].credited = deposit[q].credited
    BY <1>3, <1>4, <1>5, <2>1 DEF DepositRow
  <2>3. \A v \in Users \ stale' : AgreesFor(v)'
    BY <1>1, <1>2, <1>5, <2>2, LedgersStay
  <2> QED BY <1>1, <1>2, <1>5, <1>7, <2>3, Shapes, AgreeNow
<1>6. CASE Completes(c) /\ ~deposit[p].credited
  <2>1. Grows(doc[Depositor], w, {<<"deposit", p>>}) /\ SameMirror(doc[Depositor], w)
    BY <1>1, Shapes, PostSpotGrows
  <2>2. /\ stale \subseteq stale'
        /\ \A v \in Users \ stale' : doc'[v] = IF v = Depositor THEN w ELSE doc[v]
    BY <1>2, <1>6, Shapes
  <2> HIDE DEF w, p, old, w2
  <2>3. \A v \in Users \ stale' :
          /\ Grows(doc[v], doc'[v], IF v = Depositor THEN {<<"deposit", p>>} ELSE {})
          /\ SameMirror(doc[v], doc'[v])
    BY <2>1, <2>2 DEF Grows, SameMirror
  <2>4. \A v \in Users \ stale' : Mirrors(doc'[v], financial'[v])
    BY <1>1, <2>2, <2>3, Shapes DEF SameMirror, Mirrors
  <2>5. ASSUME NEW v \in Users \ stale' PROVE AgreesFor(v)'
    <3> DEFINE K == IF v = Depositor THEN {<<"deposit", p>>} ELSE {}
    <3>1. /\ Moved(v)' = Moved(v) /\ Incomes(v)' = Incomes(v) /\ Bought(v)' = Bought(v)
          /\ BoughtBelow(v)' = BoughtBelow(v) /\ Funded(v)' = Funded(v)
      BY <1>1 DEF Moved, Incomes, Bought, BoughtBelow, Funded
    <3>2. /\ \A kind : kind # "deposit" => Kind(K, kind) = {}
          /\ Kind(K, "deposit") = K
      BY DEF Kind
    <3>3. \A q \in Payments : deposit'[q].credited <=> deposit[q].credited \/ q = p
      BY <1>3, <1>4, <1>6
    <3>4. Credited(v)' = Credited(v) \cup K
      BY <1>1, <3>3 DEF Credited
    <3>5. Grows(doc[v], doc'[v], K)
      BY <2>3
    <3> HIDE DEF K
    <3> QED BY <2>2, <3>1, <3>2, <3>4, <3>5, Shapes, AgreesAfter
  <2> QED BY <1>7, <2>4, <2>5, AgreeNow
<1> QED BY <1>5, <1>6

\* Income goes up the tree, never to the user who transfers.
LEMMA NotToOneself ==
    ASSUME NEW u \in Users, NEW n, NEW e \in Plan(u, n)
    PROVE  e.recipient # u
<1>1. PICK k \in {1} \cup 1 .. MaxLevel : e.recipient = Above(u, k)
  BY DEF Plan
<1> QED BY <1>1, NetworkAssumption

\* and a transfer with income and ranks.
LEMMA TransferBooks ==
    ASSUME BooksInv, NEW u \in Users, Transfer(u), UNCHANGED depositVars
    PROVE  AgreeInv'
<1> DEFINE f == form[u]
           delta == IF f.sent = "spot" THEN f.amount ELSE -f.amount
           paid == IF f.sent = "spot" /\ ~Wallet(u).consumed THEN Payable(u, f.amount) ELSE {}
           own == transferBetweenWallets(Wallet(u), f.sent, f.amount, FeeOf(u), f.key)
           row == TransferRow(u)
           before == [WithIncome(doc, paid) EXCEPT ![u] = Mirrored(own, row)]
           entered == <<<<"transfer", f.key>>, delta>>
           K == [v \in Users |-> IF v = u THEN {<<"transfer", f.key>>} ELSE IncomeKeys(paid, v)]
<1>1. /\ UNCHANGED <<stale, bot, funds, deposit>>
      /\ entry' = entry \cup paid
      /\ financial' = [financial EXCEPT ![u] = row]
      /\ aiLedger' = [aiLedger EXCEPT ![u] = aiLedger[u] \cup {entered}]
      /\ doc' = recalculateAuthoritativeNetwork(members, before, financial')
  BY DEF Transfer, TransferRow, depositVars, BooksInv, AgreeInv, RowsShape
<1>2. DOMAIN row = {"available", "locked", "profit", "retained", "open"}
  <2>1. DOMAIN Row(u) = {"available", "locked", "profit", "retained", "open"}
    BY RowLemma DEF Row, BooksInv, AgreeInv, RowsShape
  <2> QED BY <2>1, RowLemma DEF TransferRow
<1>3. \A e \in paid : e.recipient # u
  BY NotToOneself DEF Payable
<1>4. LET w == Mirrored(own, row)
      IN  Grows(doc[u], w, {<<"transfer", f.key>>}) /\ Mirrors(w, row) /\ DOMAIN w = Fields
  <2> HIDE DEF row
  <2> QED BY Shapes, TransferGrows DEF Wallet
<1>5. entered[1] = <<"transfer", f.key>>
  BY FirstOf
<1> DEFINE key == f.key
<1> HIDE DEF f, paid, own, row, entered
<1>6. ASSUME NEW v \in Users
      PROVE  /\ Grows(doc[v], before[v], K[v]) /\ DOMAIN before[v] = Fields
             /\ v \notin stale => Mirrors(before[v], financial'[v])
  <2>1. CASE v = u
    <3>1. before[u] = Mirrored(own, row) /\ financial'[u] = row /\ K[u] = {<<"transfer", key>>}
      BY <1>1 DEF WithIncome, BooksInv, AgreeInv, RowsShape
    <3> QED BY <1>4, <2>1, <3>1
  <2>2. CASE v # u
    <3>1. /\ before[v] = WithIncome(doc, paid)[v] /\ financial'[v] = financial[v]
          /\ K[v] = IncomeKeys(paid, v)
      BY <1>1, <2>2 DEF WithIncome, BooksInv, AgreeInv, RowsShape
    <3>2. /\ Grows(doc[v], WithIncome(doc, paid)[v], IncomeKeys(paid, v))
          /\ SameMirror(doc[v], WithIncome(doc, paid)[v])
          /\ DOMAIN WithIncome(doc, paid)[v] = Fields
      BY Shapes, IncomeGrows
    <3>3. v \notin stale => Mirrors(WithIncome(doc, paid)[v], financial[v])
      BY <3>2, Shapes DEF SameMirror, Mirrors
    <3> QED BY <3>1, <3>2, <3>3
  <2> QED BY <2>1, <2>2
<1> HIDE DEF before
<1>7. ASSUME NEW v \in Users \ stale
      PROVE  Grows(doc[v], doc'[v], K[v]) /\ Mirrors(doc'[v], financial'[v])
  <2>1. Grows(before[v], doc'[v], {}) /\ Mirrors(doc'[v], financial'[v])
    BY <1>1, <1>6, RecalculationGrows
  <2> HIDE DEF K
  <2> QED BY <1>6, <2>1 DEF Grows
<1>8. ASSUME NEW v \in Users \ stale PROVE AgreesFor(v)'
  <2>1. /\ Bought(v)' = Bought(v) /\ BoughtBelow(v)' = BoughtBelow(v)
        /\ Funded(v)' = Funded(v) /\ Credited(v)' = Credited(v)
    BY <1>1 DEF Bought, BoughtBelow, Funded, Credited
  <2>2. /\ \A kind : kind # "transfer" /\ kind # "income" => Kind(K[v], kind) = {}
        /\ Kind(K[v], "transfer") = IF v = u THEN {<<"transfer", key>>} ELSE {}
        /\ Kind(K[v], "income") = IF v = u THEN {} ELSE IncomeKeys(paid, v)
    <3>1. \A x \in IncomeKeys(paid, v) : x[1] = "income"
      BY DEF IncomeKeys
    <3>2. K[v] = IF v = u THEN {<<"transfer", key>>} ELSE IncomeKeys(paid, v)
      OBVIOUS
    <3> HIDE DEF K
    <3> QED BY <3>1, <3>2, OneKey DEF Kind
  <2>3. Moved(v)' = Moved(v) \cup Kind(K[v], "transfer")
    <3>1. aiLedger'[v] = IF v = u THEN aiLedger[u] \cup {entered} ELSE aiLedger[v]
      BY <1>1 DEF BooksInv, AgreeInv, RowsShape
    <3>2. <<"transfer", key>>[1] = "transfer"
      OBVIOUS
    <3> HIDE DEF K
    <3> QED BY <1>5, <2>2, <3>1, <3>2 DEF Moved
  <2>4. Incomes(v)' = Incomes(v) \cup Kind(K[v], "income")
    <3>1. Incomes(v)' = Incomes(v) \cup IncomeKeys(paid, v)
      BY <1>1 DEF Incomes, IncomeKeys
    <3>2. v = u => IncomeKeys(paid, v) = {}
      BY <1>3 DEF IncomeKeys
    <3> HIDE DEF K
    <3> QED BY <2>2, <3>1, <3>2
  <2> HIDE DEF K
  <2> QED BY <1>7, <2>1, <2>2, <2>3, <2>4, Shapes, AgreesAfter
<1>9. RowsShape'
  BY <1>1, <1>2 DEF BooksInv, AgreeInv, RowsShape
<1> QED BY <1>1, <1>7, <1>8, <1>9, AgreeNow

\* Every step keeps the books.
LEMMA BooksStep == BooksInv /\ [Next]_vars => BooksInv'
<1> SUFFICES ASSUME BooksInv, [Next]_vars PROVE BooksInv' OBVIOUS
<1>1. WalletInv' /\ UserFound' /\ NewRows' /\ OpenInv'
  BY WalletStep, UserFoundStep, NewRowsStep, OpenStep DEF BooksInv, AgreeInv, WalletInv
<1>2. AgreeInv'
  <2>1. CASE UNCHANGED books
    <3>1. UNCHANGED <<doc, financial, aiLedger, stale, bot, funds, entry, deposit>>
      BY <2>1 DEF books, incomeVars
    <3>2. RowsShape'
      BY <3>1 DEF BooksInv, AgreeInv, RowsShape
    <3> QED BY <3>1, <3>2, LedgersStay, Shapes, AgreeNow
  <2>2. CASE NetworkWrites /\ UNCHANGED depositVars
    BY <2>2, AnsweredBooks, UnconfirmedBooks, TransferBooks, BotBooks, ExpiryBooks, TradeBooks,
       FundBooks, RegisterBooks DEF NetworkWrites
  <2>3. CASE DepositWrites /\ UNCHANGED networkVars
    BY <2>3, CreationBooks, CommitBooks DEF DepositWrites
  <2> QED BY <2>1, <2>2, <2>3, Writers
<1> QED BY <1>1, <1>2 DEF BooksInv

\* New documents agree with empty tables.
LEMMA BooksInit == Init => BooksInv
<1> SUFFICES ASSUME Init PROVE BooksInv OBVIOUS
<1> USE DEF Init, LedgersInit, NetworkInit, DepositsInit
<1>1. RowsShape
  BY DEF RowsShape, NoRow
<1>2. NewRows
  BY DepositAssumption DEF NewRows, NoDeposit
<1>3. OpenInv
  BY DEF OpenInv, NoRegistration
<1>4. \A u \in Users : doc[u].ledger = {}
  BY DEF NewDocument
<1>5. LedgersAgree
  <2>1. ASSUME NEW u \in Users PROVE AgreesFor(u)
    <3>1. \A kind : Posted(u, kind) = {}
      BY <1>4 DEF Posted
    <3>2. Moved(u) = {} /\ Incomes(u) = {} /\ Funded(u) = {}
      BY DEF Moved, Incomes, Funded
    <3>3. Bought(u) = {} /\ Credited(u) = {}
      BY DEF Bought, Credited, NoDeposit
    <3>4. BoughtBelow(u) = {}
      <4>1. \A v \in Users : bot[v].bought = {}
        OBVIOUS
      <4>2. UNION {bot[v].bought : v \in {w \in Users : SponsorOf[w] = u}} = {}
        BY <4>1
      <4> QED BY <4>2 DEF BoughtBelow
    <3> QED BY <3>1, <3>2, <3>3, <3>4 DEF AgreesFor
  <2> QED BY <2>1, AgreesForAll
<1>6. MirrorIsExact
  BY DEF MirrorIsExact, NoRow
<1> QED BY <1>1, <1>2, <1>3, <1>5, <1>6, WalletInit DEF BooksInv, AgreeInv

\* Whatever the order of the writers, and however a registration or a deposit
\* was overtaken: the ledger in every document that was not overwritten by an
\* older one tells what the tables beside it tell, and the document mirrors the
\* Future wallet.  Transfers, income, bots, funds, trades and deposits all
\* rewrite the document, and the damage of an overtaken one does not spread.
THEOREM BooksStayTogether == Spec => [](LedgersAgree /\ MirrorIsExact)
<1>1. BooksInv /\ [Next]_vars => BooksInv'
  BY BooksStep
<1>2. BooksInv => LedgersAgree /\ MirrorIsExact
  BY DEF BooksInv, AgreeInv
<1> QED BY <1>1, <1>2, BooksInit, PTL DEF Spec
-----------------------------------------------------------------------------
(* The sums of the documents.                                              *)

\* What is added to a ledger adds its amounts to the sum.
LEMMA SumOfUnion ==
    ASSUME NEW A, IsFiniteSet(A), NEW B, IsFiniteSet(B), A \cap B = {},
           \A e \in A \cup B : e[2] \in Int
    PROVE  /\ IsFiniteSet(A \cup B) /\ Sum(A) \in Int /\ Sum(B) \in Int
           /\ Sum(A \cup B) = Sum(A) + Sum(B)
<1> DEFINE f == [e \in A \cup B |-> e[2]]
           g == [e \in A |-> e[2]]
           h == [e \in B |-> e[2]]
<1>1. /\ \A e \in A \cup B : f[e] \in Int
      /\ \A e \in A : g[e] = f[e] /\ g[e] \in Int
      /\ \A e \in B : h[e] = f[e] /\ h[e] \in Int
  OBVIOUS
<1>2. Sum(A) = SumFunctionOnSet(g, A) /\ Sum(B) = SumFunctionOnSet(h, B)
      /\ Sum(A \cup B) = SumFunctionOnSet(f, A \cup B)
  BY DEF Sum
<1> HIDE DEF f, g, h
<1>3. SumFunctionOnSet(f, A \cup B) = SumFunctionOnSet(f, A) + SumFunctionOnSet(f, B)
  BY <1>1, SumUnion
<1>4. SumFunctionOnSet(g, A) = SumFunctionOnSet(f, A)
  BY <1>1, SumSame
<1>5. SumFunctionOnSet(h, B) = SumFunctionOnSet(f, B)
  BY <1>1, SumSame
<1>6. SumFunctionOnSet(g, A) \in Int /\ SumFunctionOnSet(h, B) \in Int
  BY <1>1, SumType
<1>7. IsFiniteSet(A \cup B)
  BY FS_Union
<1> QED BY <1>2, <1>3, <1>4, <1>5, <1>6, <1>7

\* An empty ledger is worth nothing.
LEMMA SumOfNone == Sum({}) = 0
<1> DEFINE f == [e \in {} |-> e[2]]
<1>1. Sum({}) = SumFunctionOnSet(f, {})
  BY DEF Sum
<1> HIDE DEF f
<1> QED BY <1>1, SumEmpty

\* One entry is worth its amount.
LEMMA SumOfOne ==
    ASSUME NEW key, NEW n \in Int
    PROVE  IsFiniteSet({<<key, n>>}) /\ Sum({<<key, n>>}) = n
<1> DEFINE e == <<key, n>>
           f == [x \in {e} |-> x[2]]
<1>1. e[2] = n /\ f[e] = n
  OBVIOUS
<1>2. Sum({e}) = SumFunctionOnSet(f, {e})
  BY DEF Sum
<1> HIDE DEF e, f
<1>3. SumFunctionOnSet(f, {} \cup {e}) = SumFunctionOnSet(f, {}) + f[e]
  BY <1>1, FS_EmptySet, SumAdd
<1>4. {} \cup {e} = {e}
  OBVIOUS
<1>5. SumFunctionOnSet(f, {}) = 0
  BY SumEmpty
<1>6. IsFiniteSet({} \cup {e})
  BY FS_EmptySet, FS_AddElement
<1> QED BY <1>1, <1>2, <1>3, <1>4, <1>5, <1>6 DEF e

AddsUp(w, u) ==
    /\ DOMAIN w = Fields
    /\ IsFiniteSet(w.ledger) /\ \A e \in w.ledger : e[2] \in Int
    /\ w.spot = Opening[u] + Sum(w.ledger)

\* Income in a document was paid by a distribution.
Traced(w, u, paid) ==
    \A e \in w.ledger :
        e[1][1] = "income" =>
            \E x \in paid : x.recipient = u /\ e[1] = <<"income", x.source, x.kind, x.level>>

SumsOK(docs, paid) ==
    DOMAIN docs = Users /\ \A u \in Users : AddsUp(docs[u], u) /\ Traced(docs[u], u, paid)

\* New entries, added to balance and ledger together, leave the sum right.
LEMMA EntriesAddUp ==
    ASSUME NEW u \in Users, NEW w, AddsUp(w, u), NEW more, IsFiniteSet(more),
           \A e \in more : e[2] \in Int, w.ledger \cap more = {},
           NEW w2, DOMAIN w2 = Fields, w2.spot = w.spot + Sum(more),
           w2.ledger = w.ledger \cup more
    PROVE  AddsUp(w2, u)
<1>1. /\ IsFiniteSet(w.ledger \cup more) /\ Sum(w.ledger) \in Int /\ Sum(more) \in Int
      /\ Sum(w.ledger \cup more) = Sum(w.ledger) + Sum(more)
  BY SumOfUnion DEF AddsUp
<1>2. Opening[u] \in Int
  BY LedgerAssumption
<1>3. w2.spot = Opening[u] + Sum(w2.ledger)
  BY <1>1, <1>2 DEF AddsUp
<1> QED BY <1>1, <1>3 DEF AddsUp

\* Fields that are no money do not matter.
LEMMA SameMoney ==
    ASSUME NEW u \in Users, NEW paid, NEW w, NEW w2, AddsUp(w, u), Traced(w, u, paid),
           DOMAIN w2 = Fields, w2.spot = w.spot, w2.ledger = w.ledger
    PROVE  AddsUp(w2, u) /\ Traced(w2, u, paid)
BY DEF AddsUp, Traced

\* A posting is one new entry or none.
LEMMA PostingAddsUp ==
    ASSUME NEW u \in Users, NEW paid, NEW w, AddsUp(w, u), Traced(w, u, paid),
           NEW kind, kind # "income", NEW id, NEW n \in Int
    PROVE  LET w2 == PostSpot(w, <<kind, id>>, n)
           IN  AddsUp(w2, u) /\ Traced(w2, u, paid)
<1> DEFINE w2 == PostSpot(w, <<kind, id>>, n)
           e == <<<<kind, id>>, n>>
<1>1. e[1] = <<kind, id>> /\ e[1][1] = kind /\ e[2] = n
  OBVIOUS
<1>2. CASE hasProcessed(w, <<kind, id>>)
  <2>1. w2 = w
    BY <1>2 DEF PostSpot
  <2> QED BY <2>1
<1>3. CASE ~hasProcessed(w, <<kind, id>>)
  <2>1. /\ DOMAIN w2 = Fields /\ w2.spot = w.spot + n
        /\ w2.ledger = w.ledger \cup {e}
    BY <1>3 DEF PostSpot, AddsUp, Fields
  <2>2. e \notin w.ledger
    BY <1>1, <1>3 DEF hasProcessed
  <2>3. IsFiniteSet({e}) /\ Sum({e}) = n
    BY SumOfOne
  <2> HIDE DEF w2, e
  <2>4. AddsUp(w2, u)
    <3>1. w.ledger \cap {e} = {} /\ \A x \in {e} : x[2] \in Int
      BY <1>1, <2>2
    <3>2. w2.spot = w.spot + Sum({e})
      BY <2>1, <2>3
    <3> QED BY <2>1, <2>3, <3>1, <3>2, EntriesAddUp
  <2>5. Traced(w2, u, paid)
    BY <1>1, <2>1 DEF Traced
  <2> QED BY <2>4, <2>5 DEF w2
<1> QED BY <1>2, <1>3

\* The mirror moves no money.
LEMMA MirrorAddsUp ==
    ASSUME NEW u \in Users, NEW paid, NEW w, AddsUp(w, u), Traced(w, u, paid), NEW row
    PROVE  AddsUp(Mirrored(w, row), u) /\ Traced(Mirrored(w, row), u, paid)
<1> DEFINE w2 == Mirrored(w, row)
<1>1. DOMAIN w2 = Fields /\ w2.spot = w.spot /\ w2.ledger = w.ledger
  BY DEF Mirrored, AddsUp, Fields
<1> HIDE DEF w2
<1>2. AddsUp(w2, u) /\ Traced(w2, u, paid)
  BY <1>1, SameMoney
<1> QED BY <1>2 DEF w2

\* The rules give a number of stars that there are.
LEMMA StarExists ==
    ASSUME NEW N \in Nat, NEW S \in SUBSET (1 .. N)
    PROVE  \E n \in 0 .. N : (n > 0 => n \in S) /\ \A k \in S : ~(k > n)
<1> SUFFICES ASSUME \A n \in 0 .. N : (n > 0 => n \in S) => \E k \in S : k > n PROVE FALSE
  OBVIOUS
<1> DEFINE S0 == S \cup {0}
           T == {n \in Nat : \A k \in S0 : k + n <= N}
<1>1. 0 \in T
  OBVIOUS
<1>2. ASSUME NEW n \in T PROVE n + 1 \in T
  <2>1. ASSUME NEW k \in S0 PROVE k + (n + 1) <= N
    <3>1. k \in 0 .. N /\ (k > 0 => k \in S)
      OBVIOUS
    <3>2. PICK j \in S : j > k
      BY <3>1
    <3>3. j + n <= N /\ j \in Nat /\ k \in Nat /\ n \in Nat
      BY <3>1, <3>2
    <3> QED BY <3>2, <3>3
  <2> QED BY <2>1
<1>3. T = Nat
  <2> HIDE DEF T
  <2>1. T \in SUBSET Nat
    BY DEF T
  <2> QED BY <1>1, <1>2, <2>1, SetInduction
<1>4. N + 1 \in T
  <2> HIDE DEF T
  <2> QED BY <1>3
<1> QED BY <1>4

\* What the rules ask of the highest rank.
IsHighest(ms, u, capital, stars, n) ==
    /\ n > 0 => Meets(ms, u, n, capital, stars)
    /\ \A k \in DOMAIN Ranks : k > n => ~Meets(ms, u, k, capital, stars)

\* There is one such rank,
LEMMA HighestRank ==
    ASSUME NEW ms, NEW u, NEW capital, NEW stars
    PROVE  /\ highestRank(ms, u, capital, stars) \in 0 .. Len(Ranks)
           /\ IsHighest(ms, u, capital, stars, highestRank(ms, u, capital, stars))
<1> DEFINE S == {n \in DOMAIN Ranks : Meets(ms, u, n, capital, stars)}
           Is(n) == IsHighest(ms, u, capital, stars, n)
<1>1. Len(Ranks) \in Nat /\ DOMAIN Ranks = 1 .. Len(Ranks)
  BY RankAssumption
<1>2. PICK n \in 0 .. Len(Ranks) : (n > 0 => n \in S) /\ \A k \in S : ~(k > n)
  <2>1. S \in SUBSET (1 .. Len(Ranks))
    BY <1>1
  <2> HIDE DEF S
  <2> QED BY <1>1, <2>1, StarExists
<1>3. Is(n)
  BY <1>2 DEF IsHighest
<1>4. highestRank(ms, u, capital, stars) = CHOOSE k \in 0 .. Len(Ranks) : Is(k)
  BY DEF highestRank, IsHighest
<1> HIDE DEF Is
<1>5. /\ (CHOOSE k \in 0 .. Len(Ranks) : Is(k)) \in 0 .. Len(Ranks)
      /\ Is(CHOOSE k \in 0 .. Len(Ranks) : Is(k))
  BY <1>3
<1>6. Is(highestRank(ms, u, capital, stars))
  BY <1>4, <1>5
<1> QED BY <1>4, <1>5, <1>6 DEF Is

\* A ranking adds the rewards that were missing, and they are new.
LEMMA RecalculationAddsUp ==
    ASSUME NEW ms, NEW docs, NEW rows, NEW paid, NEW u \in Users,
           AddsUp(docs[u], u), Traced(docs[u], u, paid)
    PROVE  LET w2 == recalculateAuthoritativeNetwork(ms, docs, rows)[u]
           IN  AddsUp(w2, u) /\ Traced(w2, u, paid)
<1> DEFINE w == docs[u]
           w2 == recalculateAuthoritativeNetwork(ms, docs, rows)[u]
<1>1. CASE u \notin ms
  <2>1. w2 = w
    BY <1>1 DEF recalculateAuthoritativeNetwork
  <2> QED BY <2>1
<1>2. CASE u \in ms
  <2> DEFINE capital == Capital(ms, docs, rows)
             star == evaluateRankNetwork(ms, capital, [v \in ms |-> docs[v].star])
             rewarded == {n \in DOMAIN Ranks : hasProcessed(w, <<"reward", n>>)}
             missing == newRewardRanks(star[u], rewarded)
             rewards == {<<<<"reward", n>>, Ranks[n].reward>> : n \in missing}
  <2>1. w2 = [w EXCEPT !.principal = capital[u], !.star = star[u],
                       !.spot = @ + Sum(rewards), !.ledger = @ \cup rewards]
    BY <1>2 DEF recalculateAuthoritativeNetwork
  <2>2. star[u] \in 0 .. Len(Ranks)
    BY <1>2, HighestRank DEF evaluateRankNetwork, Pass
  <2>3. /\ missing = (1 .. star[u]) \ rewarded
        /\ rewards = {<<<<"reward", n>>, Ranks[n].reward>> : n \in missing}
    BY DEF newRewardRanks
  <2>4. \A n \in DOMAIN Ranks : n \notin rewarded => ~hasProcessed(w, <<"reward", n>>)
    OBVIOUS
  <2> HIDE DEF missing, rewarded, star, capital, rewards, w2
  <2>5. /\ missing \subseteq DOMAIN Ranks /\ IsFiniteSet(missing)
        /\ \A n \in missing : Ranks[n].reward \in Int /\ ~hasProcessed(w, <<"reward", n>>)
    <3>1. DOMAIN Ranks = 1 .. Len(Ranks) /\ \A n \in DOMAIN Ranks : Ranks[n].reward \in Int
      <4> DEFINE Rank == [team : Nat \ {0}, directs : Nat, directStar : Nat, reward : Nat]
      <4>1. Ranks \in Seq(Rank)
        BY RankAssumption
      <4>2. \A x \in Rank : x.reward \in Int
        OBVIOUS
      <4> HIDE DEF Rank
      <4> QED BY <4>1, <4>2
    <3>2. missing \in SUBSET (1 .. star[u]) /\ star[u] \in Int
      BY <2>2, <2>3
    <3>3. IsFiniteSet(missing)
      <4>1. IsFiniteSet(1 .. star[u])
        BY <3>2, FS_Interval
      <4> QED BY <3>2, <4>1, FS_Subset
    <3>4. missing \subseteq DOMAIN Ranks
      BY <2>2, <3>1, <3>2
    <3> QED BY <2>3, <2>4, <3>1, <3>3, <3>4
  <2>6. IsFiniteSet(rewards)
    <3> DEFINE r == [n \in missing |-> <<<<"reward", n>>, Ranks[n].reward>>]
    <3>1. r \in Surjection(missing, rewards)
      BY <2>3 DEF Surjection
    <3> HIDE DEF r
    <3> QED BY <2>5, <3>1, FS_Surjection
  <2>7. \A e \in rewards : \E n \in missing : e[1] = <<"reward", n>> /\ e[2] = Ranks[n].reward
    BY <2>3
  <2>8. w.ledger \cap rewards = {} /\ \A e \in rewards : e[2] \in Int /\ e[1][1] = "reward"
    BY <2>5, <2>7 DEF hasProcessed
  <2>9. DOMAIN w2 = Fields /\ w2.spot = w.spot + Sum(rewards) /\ w2.ledger = w.ledger \cup rewards
    BY <2>1 DEF AddsUp, Fields
  <2>10. AddsUp(w2, u)
    BY <2>6, <2>8, <2>9, EntriesAddUp
  <2>11. Traced(w2, u, paid)
    BY <2>8, <2>9 DEF Traced
  <2> QED BY <2>10, <2>11 DEF w2
<1> QED BY <1>1, <1>2

\* So a ranking leaves all the sums right,
LEMMA RecalculationSums ==
    ASSUME NEW ms, NEW docs, NEW rows, NEW paid, SumsOK(docs, paid)
    PROVE  SumsOK(recalculateAuthoritativeNetwork(ms, docs, rows), paid)
<1> DEFINE docs2 == recalculateAuthoritativeNetwork(ms, docs, rows)
<1>1. DOMAIN docs2 = Users
  BY DEF recalculateAuthoritativeNetwork
<1>2. ASSUME NEW u \in Users PROVE AddsUp(docs2[u], u) /\ Traced(docs2[u], u, paid)
  BY RecalculationAddsUp DEF SumsOK
<1> HIDE DEF docs2
<1>3. SumsOK(docs2, paid)
  BY <1>1, <1>2 DEF SumsOK
<1> QED BY <1>3 DEF docs2

\* What one share of a plan is.
Share(u, n, kind, level) ==
    [source |-> u, recipient |-> Above(u, level), kind |-> kind, level |-> level,
     amount |-> Percent(n, IF kind = "referral" THEN 5 ELSE 1)]

\* A plan has finitely many shares, and one for each kind and level.
LEMMA PlanShares ==
    ASSUME NEW u, NEW n \in Int
    PROVE  /\ IsFiniteSet(Plan(u, n))
           /\ \A e \in Plan(u, n) : e = Share(u, n, e.kind, e.level) /\ e.amount \in Int
<1> DEFINE levels == {Share(u, n, "level", k) : k \in 1 .. MaxLevel}
           all == levels \cup {Share(u, n, "referral", 1)}
<1>1. Plan(u, n) \in SUBSET all
  BY DEF Plan, Share
<1>2. ASSUME NEW kind, NEW level, NEW e, e = Share(u, n, kind, level)
      PROVE  e = Share(u, n, e.kind, e.level) /\ e.amount \in Int
  <2>1. e.kind = kind /\ e.level = level
        /\ e.amount = Percent(n, IF kind = "referral" THEN 5 ELSE 1)
    BY <1>2 DEF Share
  <2>2. \A i \in {1, 5} : Percent(n, i) \in Int
    BY DEF Percent
  <2> QED BY <1>2, <2>1, <2>2
<1>3. IsFiniteSet(levels)
  <2> DEFINE f == [k \in 1 .. MaxLevel |-> Share(u, n, "level", k)]
  <2>1. f \in Surjection(1 .. MaxLevel, levels)
    BY DEF Surjection
  <2>2. IsFiniteSet(1 .. MaxLevel)
    <3>1. 1 \in Int /\ MaxLevel \in Int
      BY NetworkAssumption
    <3> QED BY <3>1, FS_Interval
  <2> HIDE DEF f, levels
  <2> QED BY <2>1, <2>2, FS_Surjection
<1>4. \A e \in all : e = Share(u, n, e.kind, e.level) /\ e.amount \in Int
  BY <1>2
<1>5. IsFiniteSet(all)
  <2> HIDE DEF levels
  <2> QED BY <1>3, FS_AddElement
<1> HIDE DEF all
<1>6. IsFiniteSet(Plan(u, n))
  BY <1>1, <1>5, FS_Subset
<1> QED BY <1>1, <1>4, <1>6

\* Income that was never paid before is added to a document with its amounts.
LEMMA IncomeAddsUp ==
    ASSUME NEW docs, NEW u \in Users, NEW before, NEW paid,
           AddsUp(docs[u], u), Traced(docs[u], u, before),
           IsFiniteSet(paid), \A x \in paid : x.amount \in Int,
           \A x \in paid, y \in before :
               <<x.source, x.kind, x.level>> # <<y.source, y.kind, y.level>>
    PROVE  LET w2 == WithIncome(docs, paid)[u]
           IN  AddsUp(w2, u) /\ Traced(w2, u, before \cup paid)
<1> DEFINE w == docs[u]
           own == {x \in paid : x.recipient = u}
           mine == {<<<<"income", e.source, e.kind, e.level>>, e.amount>> : e \in own}
           w2 == WithIncome(docs, paid)[u]
<1>1. w2 = [w EXCEPT !.spot = @ + Sum(mine), !.ledger = @ \cup mine]
  BY DEF WithIncome
<1>2. \A e \in mine : \E x \in own :
          e[1] = <<"income", x.source, x.kind, x.level>> /\ e[2] = x.amount /\ e[1][1] = "income"
  OBVIOUS
<1>3. IsFiniteSet(mine)
  <2> DEFINE f == [e \in own |-> <<<<"income", e.source, e.kind, e.level>>, e.amount>>]
  <2>1. f \in Surjection(own, mine)
    BY DEF Surjection
  <2>2. own \in SUBSET paid
    OBVIOUS
  <2> HIDE DEF f, own, mine
  <2>3. IsFiniteSet(own)
    BY <2>2, FS_Subset
  <2> QED BY <2>1, <2>3, FS_Surjection
<1>4. own \subseteq paid /\ \A x \in own : x.recipient = u
  OBVIOUS
<1> HIDE DEF mine, own, w2
<1>5. /\ DOMAIN w2 = Fields /\ w2.spot = w.spot + Sum(mine)
      /\ w2.ledger = w.ledger \cup mine
  BY <1>1 DEF AddsUp, Fields
<1>6. w.ledger \cap mine = {}
  <2> SUFFICES ASSUME NEW e \in w.ledger, e \in mine PROVE FALSE
    OBVIOUS
  <2>1. PICK x \in own : e[1] = <<"income", x.source, x.kind, x.level>> /\ e[1][1] = "income"
    BY <1>2
  <2>2. PICK y \in before : e[1] = <<"income", y.source, y.kind, y.level>>
    BY <2>1 DEF Traced
  <2>3. x.source = y.source /\ x.kind = y.kind /\ x.level = y.level
    BY <2>1, <2>2
  <2> QED BY <1>4, <2>3
<1>7. \A e \in mine : e[2] \in Int
  BY <1>2, <1>4
<1>8. AddsUp(w2, u)
  BY <1>3, <1>5, <1>6, <1>7, EntriesAddUp
<1>9. Traced(w2, u, before \cup paid)
  <2> SUFFICES ASSUME NEW e \in w2.ledger, e[1][1] = "income"
               PROVE  \E x \in before \cup paid :
                        x.recipient = u /\ e[1] = <<"income", x.source, x.kind, x.level>>
    BY DEF Traced
  <2>1. CASE e \in w.ledger
    BY <2>1 DEF Traced
  <2>2. CASE e \in mine
    BY <1>2, <1>4, <2>2
  <2> QED BY <1>5, <2>1, <2>2
<1> QED BY <1>8, <1>9 DEF w2

\* What a first transfer pays was not paid before.
LEMMA PayableIsNew ==
    ASSUME WalletInv, NEW u \in Users, NEW n \in Int
    PROVE  /\ IsFiniteSet(Payable(u, n)) /\ \A x \in Payable(u, n) : x.amount \in Int
           /\ \A x \in Payable(u, n), y \in entry :
                  <<x.source, x.kind, x.level>> # <<y.source, y.kind, y.level>>
<1> DEFINE decided == IF distribution[u] >= 0 THEN distribution[u] ELSE n
<1>1. distribution[u] \in Int /\ decided \in Int
  BY DEF WalletInv, IncomeInv
<1>2. Payable(u, n) \in SUBSET Plan(u, decided)
  BY DEF Payable
<1>3. \A x \in Payable(u, n) : x \notin entry
  BY DEF Payable
<1>4. IsFiniteSet(Payable(u, n)) /\ \A x \in Payable(u, n) : x.amount \in Int
  <2> HIDE DEF decided
  <2> QED BY <1>1, <1>2, PlanShares, FS_Subset
<1>5. ASSUME NEW x \in Payable(u, n), NEW y \in entry,
             x.source = y.source, x.kind = y.kind, x.level = y.level
      PROVE  FALSE
  <2>1. x.source = u
    BY <1>1, <1>2, PlanOf
  <2>2. y \in Plan(u, distribution[u])
    BY <1>5, <2>1 DEF WalletInv, IncomeInv, IncomeFollowsFirst
  <2>3. decided = distribution[u]
    BY <1>1, <2>2, PlanOf
  <2>4. x = Share(u, decided, x.kind, x.level) /\ y = Share(u, decided, y.kind, y.level)
    BY <1>1, <1>2, <2>2, <2>3, PlanShares
  <2>5. x = y
    BY <1>5, <2>4
  <2> QED BY <1>3, <2>5
<1> QED BY <1>4, <1>5

\* Income is only added.
LEMMA OlderSums ==
    ASSUME NEW docs, NEW paid, NEW paid2, SumsOK(docs, paid), paid \subseteq paid2
    PROVE  SumsOK(docs, paid2)
BY DEF SumsOK, Traced

\* a posting does,
LEMMA PostedSums ==
    ASSUME NEW docs, NEW paid, SumsOK(docs, paid), NEW u \in Users,
           NEW kind, kind # "income", NEW id, NEW n \in Int
    PROVE  SumsOK([docs EXCEPT ![u] = PostSpot(docs[u], <<kind, id>>, n)], paid)
<1> DEFINE w2 == PostSpot(docs[u], <<kind, id>>, n)
<1>1. AddsUp(w2, u) /\ Traced(w2, u, paid)
  BY PostingAddsUp DEF SumsOK
<1> HIDE DEF w2
<1>2. SumsOK([docs EXCEPT ![u] = w2], paid)
  BY <1>1 DEF SumsOK
<1> QED BY <1>2 DEF w2

\* and the mirror.
LEMMA MirroredSums ==
    ASSUME NEW docs, NEW paid, SumsOK(docs, paid), NEW u \in Users, NEW row
    PROVE  SumsOK([docs EXCEPT ![u] = Mirrored(docs[u], row)], paid)
<1> DEFINE w2 == Mirrored(docs[u], row)
<1>1. AddsUp(w2, u) /\ Traced(w2, u, paid)
  BY MirrorAddsUp DEF SumsOK
<1> HIDE DEF w2
<1>2. SumsOK([docs EXCEPT ![u] = w2], paid)
  BY <1>1 DEF SumsOK
<1> QED BY <1>2 DEF w2

\* The document of the user who transfers, before the ranks.
LEMMA TransferOwnSums ==
    ASSUME NEW u \in Users, NEW paid, NEW w, AddsUp(w, u), Traced(w, u, paid),
           NEW row, NEW from, NEW n \in Int, NEW fee \in Int, NEW key, NEW row2
    PROVE  LET w2 == Mirrored(transferBetweenWallets(Mirrored(w, row), from, n, fee, key), row2)
           IN  AddsUp(w2, u) /\ Traced(w2, u, paid)
<1> DEFINE w1 == Mirrored(w, row)
           amount == IF from = "spot" THEN -n ELSE n - fee
           w2 == PostSpot(w1, <<"transfer", key>>, amount)
           w3 == transferBetweenWallets(w1, from, n, fee, key)
<1>1. AddsUp(w1, u) /\ Traced(w1, u, paid)
  BY MirrorAddsUp
<1>2. amount \in Int
  OBVIOUS
<1>3. AddsUp(w2, u) /\ Traced(w2, u, paid)
  <2> HIDE DEF w1, amount
  <2> QED BY <1>1, <1>2, PostingAddsUp
<1>4. w3 = [w2 EXCEPT !.consumed = w2.consumed \/ from = "spot", !.star = 0]
  BY DEF transferBetweenWallets
<1> HIDE DEF w1, w2, w3, amount
<1>5. DOMAIN w3 = Fields /\ w3.spot = w2.spot /\ w3.ledger = w2.ledger
  BY <1>3, <1>4 DEF AddsUp, Fields
<1>6. AddsUp(w3, u) /\ Traced(w3, u, paid)
  BY <1>3, <1>5, SameMoney
<1>7. AddsUp(Mirrored(w3, row2), u) /\ Traced(Mirrored(w3, row2), u, paid)
  BY <1>6, MirrorAddsUp
<1> QED BY <1>7 DEF w1, w3

\* A transfer leaves every sum right.
LEMMA TransferSums ==
    ASSUME WalletInv, SumsOK(doc, entry), NEW u \in Users, Transfer(u)
    PROVE  SumsOK(doc', entry') /\ entry \subseteq entry'
<1> DEFINE f == form[u]
           paid == IF f.sent = "spot" /\ ~Wallet(u).consumed THEN Payable(u, f.amount) ELSE {}
           own == transferBetweenWallets(Wallet(u), f.sent, f.amount, FeeOf(u), f.key)
           row == TransferRow(u)
           before == [WithIncome(doc, paid) EXCEPT ![u] = Mirrored(own, row)]
<1>1. /\ doc' = recalculateAuthoritativeNetwork(members, before, financial')
      /\ entry' = entry \cup paid
  BY DEF Transfer, TransferRow
<1>2. f.amount \in Int /\ FeeOf(u) \in Int
  <2>1. f.amount \in Nat
    BY DEF WalletInv, FormsOK
  <2> QED BY <2>1 DEF FeeOf, Percent
<1>3. /\ IsFiniteSet(paid) /\ \A x \in paid : x.amount \in Int
      /\ \A x \in paid, y \in entry :
             <<x.source, x.kind, x.level>> # <<y.source, y.kind, y.level>>
  <2>1. CASE paid = {}
    BY <2>1, FS_EmptySet
  <2>2. CASE paid = Payable(u, f.amount)
    BY <1>2, <2>2, PayableIsNew
  <2> QED BY <2>1, <2>2
<1>4. SumsOK(doc, entry')
  BY <1>1, OlderSums
<1>5. AddsUp(Mirrored(own, row), u) /\ Traced(Mirrored(own, row), u, entry')
  <2> HIDE DEF row
  <2>1. AddsUp(doc[u], u) /\ Traced(doc[u], u, entry')
    BY <1>4 DEF SumsOK
  <2> QED BY <1>2, <2>1, TransferOwnSums DEF Wallet
<1> HIDE DEF own, row, paid
<1>6. ASSUME NEW v \in Users \ {u}
      PROVE  AddsUp(before[v], v) /\ Traced(before[v], v, entry')
  <2>0. DOMAIN WithIncome(doc, paid) = Users
    BY DEF WithIncome
  <2>1. before[v] = WithIncome(doc, paid)[v]
    BY <2>0
  <2>2. AddsUp(doc[v], v) /\ Traced(doc[v], v, entry)
    BY DEF SumsOK
  <2> HIDE DEF before
  <2> QED BY <1>1, <1>3, <2>1, <2>2, IncomeAddsUp
<1>7. before[u] = Mirrored(own, row) /\ DOMAIN before = Users
  BY DEF WithIncome
<1> HIDE DEF before
<1>8. SumsOK(before, entry')
  BY <1>5, <1>6, <1>7 DEF SumsOK
<1> QED BY <1>1, <1>8, RecalculationSums

\* A repeated transfer leaves every sum right.
LEMMA AnsweredSums ==
    ASSUME WalletInv, SumsOK(doc, entry), NEW u \in Users, TransferAnswered(u)
    PROVE  SumsOK(doc', entry') /\ entry \subseteq entry'
<1>1. PICK paid : /\ doc' = WithIncome(doc, paid) /\ entry' = entry \cup paid
                  /\ paid = {} \/ paid = Payable(u, form[u].amount)
  BY AnsweredIncome
<1>2. form[u].amount \in Int
  BY DEF WalletInv, FormsOK
<1>3. /\ IsFiniteSet(paid) /\ \A x \in paid : x.amount \in Int
      /\ \A x \in paid, y \in entry :
             <<x.source, x.kind, x.level>> # <<y.source, y.kind, y.level>>
  <2>1. CASE paid = {}
    BY <2>1, FS_EmptySet
  <2>2. CASE paid = Payable(u, form[u].amount)
    BY <1>2, <2>2, PayableIsNew
  <2> QED BY <1>1, <2>1, <2>2
<1>4. ASSUME NEW v \in Users PROVE AddsUp(doc'[v], v) /\ Traced(doc'[v], v, entry')
  <2>1. AddsUp(doc[v], v) /\ Traced(doc[v], v, entry)
    BY DEF SumsOK
  <2> QED BY <1>1, <1>3, <2>1, IncomeAddsUp
<1>5. DOMAIN doc' = Users
  BY <1>1 DEF WithIncome
<1> QED BY <1>1, <1>4, <1>5 DEF SumsOK

\* A deposit's commit leaves every sum right, although it writes back the
\* document it read.
LEMMA CommitSums ==
    ASSUME WalletInv, NEW c \in Calls, SaveCommit(c), SumsOK(doc, entry),
           AddsUp(call[c].wallet, Depositor), Traced(call[c].wallet, Depositor, entry)
    PROVE  SumsOK(doc', entry)
<1> DEFINE p == call[c].payment
           n == call[c].report.paid
           w == call[c].wallet
           w2 == PostSpot(w, <<"deposit", p>>, n)
<1>1. doc' = doc \/ doc' = [doc EXCEPT ![Depositor] = w2]
  BY DEF SaveCommit
<1>2. n \in Int
  BY DEF WalletInv, DepositInv, CallsOK, CallOK, ReportRow
<1>3. Depositor \in Users
  BY DepositAssumption
<1>4. AddsUp(w2, Depositor) /\ Traced(w2, Depositor, entry)
  <2>1. AddsUp(w, Depositor) /\ Traced(w, Depositor, entry)
    OBVIOUS
  <2> HIDE DEF w, n, p
  <2> QED BY <1>2, <1>3, <2>1, PostingAddsUp
<1> HIDE DEF w2
<1> QED BY <1>1, <1>3, <1>4 DEF SumsOK

\* The documents, those that open transactions hold, and the amount in the
\* administrator's form.
SumsInv ==
    /\ desk.delta \in Int
    /\ SumsOK(doc, entry)
    /\ \A c \in Calls :
         call[c].pc = "commit" =>
             AddsUp(call[c].wallet, Depositor) /\ Traced(call[c].wallet, Depositor, entry)
    /\ open.user # Nobody => SumsOK(open.docs, entry)

\* The administrator fills in one of the grants.
LEMMA DeltaStep ==
    ASSUME UserFound, desk.delta \in Int, [Next]_vars
    PROVE  desk'.delta \in Int
<1>1. CASE UNCHANGED desk
  BY <1>1
<1>2. CASE DeskStep
  <2>1. DOMAIN desk = {"pc", "user", "delta", "key", "posted"}
    BY DEF UserFound
  <2>2. ASSUME NEW u \in members, SearchUser(u) PROVE desk'.delta \in Int
    BY <2>1, <2>2 DEF SearchUser
  <2>3. ASSUME NEW delta \in Grants, FillIn(delta) PROVE desk'.delta \in Int
    <3>1. delta \in Int
      BY NetworkAssumption
    <3> QED BY <2>1, <2>3, <3>1 DEF FillIn
  <2>4. CASE SubmitFund
    BY <2>1, <2>4 DEF SubmitFund
  <2>5. CASE FundAnswered
    BY <2>1, <2>5 DEF FundAnswered
  <2>6. CASE FundRefused \/ FundFails \/ applyAdminFund
    BY <2>1, <2>6 DEF FundRefused, FundFails, applyAdminFund
  <2>7. CASE FundShown
    BY <2>1, <2>7 DEF FundShown, IdleDesk
  <2> QED BY <1>2, <2>2, <2>3, <2>4, <2>5, <2>6, <2>7 DEF DeskStep
<1>3. CASE UNCHANGED networkVars
  BY <1>1, <1>3 DEF networkVars
<1>4. ASSUME NEW u \in Users, TransferStep(u) PROVE UNCHANGED desk
  <2>1. ASSUME NEW from, NEW n, Submit(u, from, n) PROVE UNCHANGED desk
    BY <2>1 DEF Submit
  <2>2. CASE Confirm(u) \/ CloseConfirmation(u) \/ ChangeFrom(u) \/ AnswerArrives(u)
    BY <2>2 DEF Confirm, CloseConfirmation, ChangeFrom, AnswerArrives
  <2>3. CASE TransferAnswered(u) \/ TransferUnconfirmed(u) \/ TransferRefused(u) \/ Transfer(u) \/ TransferFails(u)
    BY <2>3 DEF TransferAnswered, TransferUnconfirmed, TransferRefused, Transfer, TransferFails
  <2> QED BY <1>4, <2>1, <2>2, <2>3 DEF TransferStep
<1>5. ASSUME NEW u \in Users,
             BuyBot(u) \/ ExpireBot(u) \/ TradeLocks(u) \/ TradeSettles(u) \/ RegisterRead(u)
      PROVE  UNCHANGED desk
  BY <1>5 DEF BuyBot, ExpireBot, TradeLocks, TradeSettles, RegisterRead
<1>6. CASE RegisterWrite \/ RegisterFails
  BY <1>1, <1>6 DEF RegisterWrite, RegisterFails
<1> QED BY <1>1, <1>2, <1>3, <1>4, <1>5, <1>6 DEF Next, NetworkNext, vars

\* Every step leaves the sums of the documents right.
LEMMA DocumentSums ==
    ASSUME WalletInv, UserFound, SumsInv, [Next]_vars
    PROVE  SumsOK(doc', entry') /\ entry \subseteq entry'
<1>1. SumsOK(doc, entry)
  BY DEF SumsInv
<1>2. CASE UNCHANGED books
  <2>1. UNCHANGED <<doc, entry>>
    BY <1>2 DEF books, incomeVars
  <2> QED BY <1>1, <2>1
<1>3. ASSUME NEW u \in Users, Transfer(u) PROVE SumsOK(doc', entry') /\ entry \subseteq entry'
  BY <1>1, <1>3, TransferSums
<1>4. ASSUME UNCHANGED incomeVars, SumsOK(doc', entry)
      PROVE  SumsOK(doc', entry') /\ entry \subseteq entry'
  BY <1>4 DEF incomeVars
<1>5. CASE NetworkWrites /\ UNCHANGED depositVars
  <2>6. ASSUME NEW u \in Users, TransferAnswered(u)
        PROVE  SumsOK(doc', entry') /\ entry \subseteq entry'
    BY <1>1, <2>6, AnsweredSums
  <2>1. ASSUME NEW u \in Users, TransferUnconfirmed(u) \/ ExpireBot(u)
        PROVE  UNCHANGED incomeVars /\ SumsOK(doc', entry)
    <3>1. UNCHANGED <<doc, incomeVars>>
      BY <2>1 DEF TransferUnconfirmed, ExpireBot, ledgerVars
    <3> QED BY <1>1, <3>1
  <2>2. ASSUME NEW u \in Users, BuyBot(u)
        PROVE  UNCHANGED incomeVars /\ SumsOK(doc', entry)
    <3> DEFINE paid == [doc EXCEPT ![u] = PostSpot(doc[u], <<"bot", ops'>>, -BotPrice)]
               sponsor == SponsorOf[u]
               share == Percent(BotPrice, 10)
    <3>1. UNCHANGED incomeVars
      BY <2>2 DEF BuyBot
    <3>2. -BotPrice \in Int /\ share \in Int
      BY NetworkAssumption DEF Percent
    <3>3. SumsOK(paid, entry)
      BY <1>1, <3>2, PostedSums
    <3>4. sponsor # Nobody => sponsor \in Users
      BY RankAssumption, NetworkAssumption
    <3>5. \/ doc' = paid
          \/ sponsor # Nobody /\ doc' = [paid EXCEPT ![sponsor] =
                 PostSpot(paid[sponsor], <<"botincome", ops'>>, share)]
      <4>1. DOMAIN paid = Users /\ DOMAIN doc = Users
        BY <1>1 DEF SumsOK
      <4> QED BY <2>2, <3>4, <4>1 DEF BuyBot
    <3> HIDE DEF paid, sponsor, share
    <3> QED BY <3>1, <3>2, <3>3, <3>4, <3>5, PostedSums
  <2>3. CASE applyAdminFund
    <3>1. desk.user \in Users /\ UNCHANGED incomeVars /\ desk.delta \in Int
      BY <2>3 DEF applyAdminFund, FundIsNew, UserFound, SumsInv
    <3>2. doc' = [doc EXCEPT ![desk.user] =
                     PostSpot(doc[desk.user], <<"fund", desk.key>>, desk.delta)]
      BY <1>1, <2>3, <3>1 DEF applyAdminFund, SumsOK
    <3>3. SumsOK(doc', entry)
      BY <1>1, <3>1, <3>2, PostedSums
    <3> QED BY <1>4, <3>1, <3>3
  <2>4. ASSUME NEW u \in Users, TradeLocks(u) \/ TradeSettles(u)
        PROVE  UNCHANGED incomeVars /\ SumsOK(doc', entry)
    <3>1. UNCHANGED incomeVars
      BY <2>4 DEF TradeLocks, TradeSettles
    <3>2. \E row : doc' = [doc EXCEPT ![u] = Mirrored(doc[u], row)]
      <4>1. DOMAIN doc = Users
        BY <1>1 DEF SumsOK
      <4>2. CASE TradeLocks(u)
        BY <4>1, <4>2 DEF TradeLocks
      <4>3. CASE TradeSettles(u)
        BY <4>1, <4>3 DEF TradeSettles
      <4> QED BY <2>4, <4>2, <4>3
    <3>3. PICK row : doc' = [doc EXCEPT ![u] = Mirrored(doc[u], row)]
      BY <3>2
    <3>4. SumsOK([doc EXCEPT ![u] = Mirrored(doc[u], row)], entry)
      BY <1>1, MirroredSums
    <3> QED BY <3>1, <3>3, <3>4
  <2>5. CASE RegisterWrite
    <3>1. SumsOK(open.docs, entry) /\ UNCHANGED incomeVars
      BY <2>5 DEF SumsInv, RegisterWrite
    <3>2. doc' = recalculateAuthoritativeNetwork(members', open.docs, open.rows)
      BY <2>5 DEF RegisterWrite
    <3> QED BY <1>4, <3>1, <3>2, RecalculationSums
  <2> QED BY <1>3, <1>4, <1>5, <2>1, <2>2, <2>3, <2>4, <2>5, <2>6 DEF NetworkWrites
<1>6. CASE DepositWrites /\ UNCHANGED networkVars
  <2>1. UNCHANGED incomeVars
    BY <1>6 DEF networkVars
  <2>2. CASE CreateSaves
    BY <1>1, <1>4, <2>1, <2>2 DEF CreateSaves, ledgerVars
  <2>3. ASSUME NEW c \in Calls, SaveCommit(c) PROVE SumsOK(doc', entry)
    <3>1. AddsUp(call[c].wallet, Depositor) /\ Traced(call[c].wallet, Depositor, entry)
      BY <2>3 DEF SumsInv, SaveCommit
    <3> QED BY <1>1, <2>3, <3>1, CommitSums
  <2> QED BY <1>4, <1>6, <2>1, <2>2, <2>3 DEF DepositWrites
<1> QED BY <1>2, <1>5, <1>6, Writers

\* Every step leaves the sums right, those in the held copies, too.
LEMMA SumsStep == WalletInv /\ UserFound /\ SumsInv /\ [Next]_vars => SumsInv'
<1> SUFFICES ASSUME WalletInv, UserFound, SumsInv, [Next]_vars PROVE SumsInv' OBVIOUS
<1>1. SumsOK(doc', entry') /\ entry \subseteq entry'
  BY DocumentSums
<1>2. desk'.delta \in Int
  BY DeltaStep DEF SumsInv
<1>3. \A docs : SumsOK(docs, entry) => SumsOK(docs, entry')
  BY <1>1, OlderSums
<1>4. SumsOK(doc, entry')
  BY <1>3 DEF SumsInv
<1>5. DepositInv
  BY DEF WalletInv
<1>6. ASSUME NEW c \in Calls, call'[c].pc = "commit"
      PROVE  /\ AddsUp(call'[c].wallet, Depositor)
             /\ Traced(call'[c].wallet, Depositor, entry')
  <2>1. \/ call'[c].wallet = doc[Depositor]
        \/ call[c].pc = "commit" /\ call'[c] = call[c]
    BY <1>5, <1>6, Snapshots
  <2>2. \A w : Traced(w, Depositor, entry) => Traced(w, Depositor, entry')
    BY <1>1 DEF Traced
  <2> QED BY <1>4, <2>1, <2>2, DepositAssumption DEF SumsInv, SumsOK
<1>7. open'.user # Nobody => SumsOK(open'.docs, entry')
  <2>1. open'.user # Nobody => (open'.docs = doc \/ open' = open)
    BY <1>5, Snapshots
  <2> QED BY <1>3, <1>4, <2>1 DEF SumsInv
<1> QED BY <1>1, <1>2, <1>6, <1>7 DEF SumsInv

\* New documents add up.
LEMMA SumsInit == Init => SumsInv
<1> SUFFICES ASSUME Init PROVE SumsInv OBVIOUS
<1> USE DEF Init, LedgersInit, NetworkInit, DepositsInit
<1>1. ASSUME NEW u \in Users PROVE AddsUp(NewDocument(u), u) /\ Traced(NewDocument(u), u, entry)
  <2>1. /\ DOMAIN NewDocument(u) = Fields /\ NewDocument(u).spot = Opening[u]
        /\ NewDocument(u).ledger = {}
    BY DEF NewDocument, Fields
  <2>2. Opening[u] = Opening[u] + 0
    BY LedgerAssumption
  <2> QED BY <2>1, <2>2, SumOfNone, FS_EmptySet DEF AddsUp, Traced
<1>2. SumsOK(doc, entry)
  BY <1>1 DEF SumsOK
<1>3. \A c \in Calls : call[c].pc = "idle"
  BY DEF IdleCall
<1>4. open.user = Nobody /\ desk.delta = 0
  BY DEF NoRegistration, IdleDesk
<1> QED BY <1>2, <1>3, <1>4 DEF SumsInv

\* Five features rewrite the document, two of them from a copy that may be out
\* of date: a Spot balance is always the opening balance and what the ledger in
\* the same document says.
THEOREM DocumentsAddUp == Spec => []DocumentAddsUp
<1>1. SumsInv => DocumentAddsUp
  BY DEF SumsInv, SumsOK, AddsUp, DocumentAddsUp
<1> QED BY <1>1, SumsInit, SumsStep, WalletInvariance, PTL DEF Spec

\* All the books of a member agree after every step, but for a member whose
\* document was overwritten by an older one, whose balance still adds up.
THEOREM AllBooksAgree == Spec => []BooksAgree
<1>1. DocumentAddsUp /\ LedgersAgree /\ MirrorIsExact => BooksAgree
  BY DEF BooksAgree
<1> QED BY <1>1, DocumentsAddUp, BooksStayTogether, PTL

-----------------------------------------------------------------------------
(* The fixed point of the ranks.                                           *)

\* Every member has a level from which the passes of the loop, with the look
\* behind it, reach the top.
Shallow ==
    \E level \in [Users -> 1 .. Passes + 1] :
        \A u \in Users : SponsorOf[u] # Nobody => level[SponsorOf[u]] < level[u]

\* There is only one highest rank.
LEMMA HighestIsOne ==
    ASSUME NEW ms, NEW u, NEW capital, NEW stars,
           NEW n \in 0 .. Len(Ranks), NEW m \in 0 .. Len(Ranks),
           IsHighest(ms, u, capital, stars, n), IsHighest(ms, u, capital, stars, m)
    PROVE  n = m
<1>1. Len(Ranks) \in Nat /\ DOMAIN Ranks = 1 .. Len(Ranks)
  BY RankAssumption
<1>2. ASSUME NEW i \in 0 .. Len(Ranks), NEW j \in 0 .. Len(Ranks), i < j,
             IsHighest(ms, u, capital, stars, i), IsHighest(ms, u, capital, stars, j)
      PROVE  FALSE
  <2>1. j \in DOMAIN Ranks /\ j > 0 /\ j > i
    BY <1>1, <1>2
  <2> QED BY <1>2, <2>1 DEF IsHighest
<1>3. n < m \/ m < n \/ n = m
  BY <1>1
<1> QED BY <1>2, <1>3

\* A rank looks at the stars of the direct referrals only.
LEMMA SameStars ==
    ASSUME NEW ms, NEW u, NEW capital, NEW s1, NEW s2,
           \A v \in ms \ {u} : SponsorOf[v] = u => s1[v] = s2[v]
    PROVE  highestRank(ms, u, capital, s1) = highestRank(ms, u, capital, s2)
<1>1. ASSUME NEW star PROVE DirectRanks(ms, u, s1, star) = DirectRanks(ms, u, s2, star)
  <2>1. {v \in ms \ {u} : SponsorOf[v] = u /\ s1[v] >= star}
           = {v \in ms \ {u} : SponsorOf[v] = u /\ s2[v] >= star}
    OBVIOUS
  <2> QED BY <2>1 DEF DirectRanks
<1>2. ASSUME NEW n PROVE Meets(ms, u, n, capital, s1) <=> Meets(ms, u, n, capital, s2)
  BY <1>1 DEF Meets
<1>3. \A n : IsHighest(ms, u, capital, s1, n) <=> IsHighest(ms, u, capital, s2, n)
  BY <1>2 DEF IsHighest
<1> QED BY <1>3, HighestRank, HighestIsOne

\* The passes of the loop, one after the other.
LEMMA PassesExist ==
    ASSUME NEW ms, NEW capital, NEW stars
    PROVE  \E after : /\ after[0] = stars
                      /\ \A k \in 1 .. Passes : after[k] = Pass(ms, capital, after[k - 1])
                      /\ evaluateRankNetwork(ms, capital, stars) = Pass(ms, capital, after[Passes])
<1> DEFINE Is(a, n) ==
             a = [k \in 0 .. n |-> IF k = 0 THEN stars ELSE Pass(ms, capital, a[k - 1])]
           T == {n \in Nat : \E a : Is(a, n)}
<1>1. 0 \in T
  <2> DEFINE a == [k \in 0 .. 0 |-> stars]
  <2>1. Is(a, 0)
    OBVIOUS
  <2> QED BY <2>1
<1>2. ASSUME NEW n \in T PROVE n + 1 \in T
  <2>1. PICK a : Is(a, n)
    OBVIOUS
  <2> DEFINE b == [k \in 0 .. n + 1 |-> IF k = n + 1 THEN Pass(ms, capital, a[n]) ELSE a[k]]
  <2>2. n \in Nat
    OBVIOUS
  <2>3. \A k \in 0 .. n : a[k] = IF k = 0 THEN stars ELSE Pass(ms, capital, a[k - 1])
    BY <2>1
  <2>4. /\ \A k \in 0 .. n : b[k] = a[k]
        /\ b[n + 1] = Pass(ms, capital, a[n])
        /\ DOMAIN b = 0 .. n + 1 /\ b = [k \in 0 .. n + 1 |-> b[k]]
    BY <2>2
  <2> HIDE DEF b
  <2>5. \A k \in 0 .. n + 1 : b[k] = IF k = 0 THEN stars ELSE Pass(ms, capital, b[k - 1])
    <3> TAKE k \in 0 .. n + 1
    <3>1. CASE k = n + 1
      <4>1. k # 0 /\ k - 1 = n /\ n \in 0 .. n
        BY <2>2, <3>1
      <4> QED BY <2>4, <3>1, <4>1
    <3>2. CASE k \in 0 .. n /\ k # 0
      <4>1. k - 1 \in 0 .. n
        BY <2>2, <3>2
      <4> QED BY <2>3, <2>4, <3>2, <4>1
    <3>3. CASE k = 0
      <4>1. 0 \in 0 .. n
        BY <2>2
      <4> QED BY <2>3, <2>4, <3>3, <4>1
    <3> QED BY <2>2, <3>1, <3>2, <3>3
  <2>6. Is(b, n + 1)
    BY <2>4, <2>5
  <2> HIDE DEF Is
  <2> QED BY <2>2, <2>6
<1>3. Passes \in T
  <2>1. T \in SUBSET Nat
    OBVIOUS
  <2> HIDE DEF T
  <2> QED BY <1>1, <1>2, <2>1, SetInduction, RankAssumption
<1> DEFINE after == CHOOSE a : Is(a, Passes)
<1>4. Is(after, Passes)
  <2> HIDE DEF Is
  <2> QED BY <1>3
<1>5. evaluateRankNetwork(ms, capital, stars) = Pass(ms, capital, after[Passes])
  BY DEF evaluateRankNetwork
<1>6. Passes \in Nat
  BY RankAssumption
<1> HIDE DEF after
<1>7. \A k \in 0 .. Passes : after[k] = IF k = 0 THEN stars ELSE Pass(ms, capital, after[k - 1])
  BY <1>4
<1>8. after[0] = stars /\ \A k \in 1 .. Passes : after[k] = Pass(ms, capital, after[k - 1])
  BY <1>6, <1>7
<1> QED BY <1>5, <1>8

\* From whatever stars they start, the passes reach the ranks that no further
\* pass would change: after k of them, those of the k lowest levels are final.
LEMMA FixedPoint ==
    ASSUME Shallow, NEW ms \in SUBSET Users, NEW capital, NEW stars
    PROVE  LET star == evaluateRankNetwork(ms, capital, stars)
           IN  star = Pass(ms, capital, star)
<1>1. PICK level \in [Users -> 1 .. Passes + 1] :
          \A u \in Users : SponsorOf[u] # Nobody => level[SponsorOf[u]] < level[u]
  BY DEF Shallow
<1>2. PICK after : /\ after[0] = stars
                   /\ \A k \in 1 .. Passes : after[k] = Pass(ms, capital, after[k - 1])
                   /\ evaluateRankNetwork(ms, capital, stars) = Pass(ms, capital, after[Passes])
  BY PassesExist
<1> DEFINE N == Passes + 1
           Next1(s) == Pass(ms, capital, s)
           last(k) == IF k = N THEN Next1(after[Passes]) ELSE after[k]
           Final(s, k) == \A u \in ms : level[u] > N - k => Next1(s)[u] = s[u]
           T == {k \in Nat : k <= N => Final(last(k), k)}
<1>3. N \in Nat \ {0} /\ Passes \in Nat /\ \A u \in ms : u \in Users /\ level[u] \in 1 .. N
  BY <1>1, RankAssumption
<1>4. 0 \in T
  <2>1. \A u \in ms : ~(level[u] > N - 0)
    BY <1>3
  <2> QED BY <2>1
<1>5. \A s : \A u \in ms : Next1(s)[u] = highestRank(ms, u, capital, s)
  BY DEF Pass
<1>6. \A k \in Nat : k + 1 <= N => last(k + 1) = Next1(last(k))
  <2> SUFFICES ASSUME NEW k \in Nat, k + 1 <= N PROVE last(k + 1) = Next1(last(k))
    OBVIOUS
  <2>1. CASE k = Passes
    BY <1>3, <2>1
  <2>2. CASE k # Passes
    <3>1. k + 1 \in 1 .. Passes /\ k # N /\ k + 1 # N /\ (k + 1) - 1 = k
      BY <1>3, <2>2
    <3>2. after[k + 1] = Next1(after[k])
      BY <1>2, <3>1
    <3> QED BY <3>1, <3>2
  <2> QED BY <2>1, <2>2
<1> HIDE DEF Next1, last, N
<1>7. ASSUME NEW k \in T PROVE k + 1 \in T
  <2> SUFFICES ASSUME k + 1 <= N, NEW u \in ms, level[u] > N - (k + 1)
               PROVE  Next1(last(k + 1))[u] = last(k + 1)[u]
    OBVIOUS
  <2>1. k \in Nat /\ k <= N /\ last(k + 1) = Next1(last(k))
    BY <1>3, <1>6
  <2>2. \A v \in ms : level[v] > N - k => Next1(last(k))[v] = last(k)[v]
    BY <2>1
  <2>3. ASSUME NEW v \in ms \ {u}, SponsorOf[v] = u PROVE last(k + 1)[v] = last(k)[v]
    <3>1. level[u] < level[v] /\ level[u] \in Int /\ level[v] \in Int
      <4>1. u # Nobody
        BY <1>3, RankAssumption, NetworkAssumption
      <4> QED BY <1>1, <1>3, <2>3, <4>1
    <3>2. level[v] > N - k
      BY <1>3, <2>1, <3>1
    <3> QED BY <2>1, <2>2, <3>2
  <2>4. highestRank(ms, u, capital, last(k + 1)) = highestRank(ms, u, capital, last(k))
    BY <2>3, SameStars
  <2> QED BY <1>5, <2>1, <2>4
<1>8. N \in T
  <2>1. T \in SUBSET Nat
    OBVIOUS
  <2> HIDE DEF T
  <2> QED BY <1>3, <1>4, <1>7, <2>1, SetInduction
<1>9. Final(last(N), N)
  BY <1>3, <1>8
<1>10. \A u \in ms : Next1(last(N))[u] = last(N)[u]
  <2>1. \A u \in ms : level[u] > N - N
    BY <1>3
  <2> QED BY <1>9, <2>1
<1>11. last(N) = evaluateRankNetwork(ms, capital, stars)
  BY <1>2 DEF last, Next1
<1>12. last(N) = [u \in ms |-> last(N)[u]] /\ Next1(last(N)) = [u \in ms |-> Next1(last(N))[u]]
  <2>1. \A s : Next1(s) = [u \in ms |-> Next1(s)[u]]
    BY DEF Next1, Pass
  <2>2. last(N) = Next1(after[Passes])
    BY DEF last
  <2> QED BY <2>1, <2>2
<1>13. Next1(last(N)) = last(N)
  <2> DEFINE s == last(N)
             t == Next1(last(N))
  <2>1. \A u \in ms : t[u] = s[u]
    BY <1>10
  <2>2. s = [u \in ms |-> s[u]] /\ t = [u \in ms |-> t[u]]
    BY <1>12
  <2> HIDE DEF s, t
  <2>3. s = t
    BY <2>1, <2>2
  <2> QED BY <2>3 DEF s, t
<1> QED BY <1>11, <1>13 DEF Next1

-----------------------------------------------------------------------------
(* The ranks follow every change of a principal.                           *)

RetainedOK(docs, rows, ledgers) ==
    \A u \in Users : /\ docs[u].principal \in Nat /\ rows[u].retained \in Nat
                     /\ ledgers[u] # {} => rows[u].open
RetainedInv == RetainedOK(doc, financial, aiLedger)

\* What a user's rank depends on stays as it is.
SameRank(u) ==
    /\ doc'[u].star = doc[u].star /\ doc'[u].principal \in Nat
    /\ financial'[u].retained \in Nat /\ (aiLedger'[u] # {} => financial'[u].open)
    /\ retainedFuturePrincipal(doc'[u], financial'[u])
         = retainedFuturePrincipal(doc[u], financial[u])

RanksInv == BooksInv /\ RetainedInv /\ StarsAreEarned

\* As long as no document was overwritten by an older one.
RanksHold == BooksInv /\ (stale = {} => RanksInv)

\* A principal that is not let fall below zero.
LEMMA MaxOfTwo ==
    ASSUME NEW n \in Int
    PROVE  Max({0, n}) \in Nat /\ (n \in Nat => Max({0, n}) = n)
<1> DEFINE Is(x) == x \in {0, n} /\ \A y \in {0, n} : x >= y
<1>1. \E x \in {0, n} : Is(x)
  <2>1. CASE n >= 0
    BY <2>1
  <2>2. CASE ~(n >= 0)
    BY <2>2
  <2> QED BY <2>1, <2>2
<1>2. Max({0, n}) = CHOOSE x \in {0, n} : \A y \in {0, n} : x >= y
  BY DEF Max
<1>3. Is(Max({0, n}))
  BY <1>1, <1>2
<1> HIDE DEF Max
<1> QED BY <1>3

\* Where nothing the ranks depend on changes, they stay right.
LEMMA RanksStay ==
    ASSUME UserFound, StarsAreEarned, UNCHANGED members, \A u \in Users : SameRank(u)
    PROVE  RetainedInv' /\ StarsAreEarned'
<1>1. RetainedInv'
  BY DEF SameRank, RetainedInv, RetainedOK
<1>2. members \subseteq Users
  BY DEF UserFound
<1>3. [u \in members |-> doc'[u].star] = [u \in members |-> doc[u].star]
  BY <1>2 DEF SameRank
<1>4. Capital(members, doc', financial') = Capital(members, doc, financial)
  <2>1. \A u \in members : retainedFuturePrincipal(doc'[u], financial'[u])
                             = retainedFuturePrincipal(doc[u], financial[u])
    BY <1>2 DEF SameRank
  <2> QED BY <2>1 DEF Capital
<1> QED BY <1>1, <1>3, <1>4 DEF StarsAreEarned

\* A recalculation settles the ranks for the principals it was given.
LEMMA RecalculationEarns ==
    ASSUME Shallow, NEW ms \in SUBSET Users, NEW docs, NEW rows, NEW ledgers,
           \A u \in Users : DOMAIN docs[u] = Fields
    PROVE  LET docs2 == recalculateAuthoritativeNetwork(ms, docs, rows)
               star == [u \in ms |-> docs2[u].star]
           IN  /\ star = Pass(ms, Capital(ms, docs2, rows), star)
               /\ RetainedOK(docs, rows, ledgers) => RetainedOK(docs2, rows, ledgers)
<1> DEFINE docs2 == recalculateAuthoritativeNetwork(ms, docs, rows)
           capital == Capital(ms, docs, rows)
           star == evaluateRankNetwork(ms, capital, [u \in ms |-> docs[u].star])
<1>1. star = Pass(ms, capital, star)
  <2> HIDE DEF capital
  <2> QED BY FixedPoint
<1>2. ASSUME NEW u \in ms PROVE docs2[u].star = star[u] /\ docs2[u].principal = capital[u]
  <2> DEFINE w == docs[u]
             rewarded == {n \in DOMAIN Ranks : hasProcessed(w, <<"reward", n>>)}
             rewards == {<<<<"reward", n>>, Ranks[n].reward>> :
                            n \in newRewardRanks(star[u], rewarded)}
  <2>1. u \in Users /\ DOMAIN docs[u] = Fields
    OBVIOUS
  <2>2. docs2[u] = [w EXCEPT !.principal = capital[u], !.star = star[u],
                        !.spot = @ + Sum(rewards), !.ledger = @ \cup rewards]
    BY <2>1 DEF recalculateAuthoritativeNetwork
  <2> HIDE DEF docs2, capital, star, rewards
  <2> QED BY <2>1, <2>2 DEF Fields
<1>3. \A u \in Users \ ms : docs2[u] = docs[u]
  BY DEF recalculateAuthoritativeNetwork
<1>4. \A u \in ms : capital[u] = IF rows[u].open THEN rows[u].retained ELSE docs[u].principal
  BY DEF Capital, retainedFuturePrincipal
<1> HIDE DEF docs2
<1>5. Capital(ms, docs2, rows) = capital
  <2>1. \A u \in ms : retainedFuturePrincipal(docs2[u], rows[u])
                        = retainedFuturePrincipal(docs[u], rows[u])
    <3> HIDE DEF capital, star
    <3> QED BY <1>2, <1>4 DEF retainedFuturePrincipal
  <2> QED BY <2>1 DEF Capital
<1> HIDE DEF capital
<1>6. [u \in ms |-> docs2[u].star] = star
  <2>1. star = [u \in ms |-> star[u]]
    <3> DEFINE s == star
    <3>1. s = Pass(ms, capital, s)
      BY <1>1
    <3> HIDE DEF s
    <3>2. s = [u \in ms |-> s[u]]
      BY <3>1 DEF Pass
    <3> QED BY <3>2 DEF s
  <2> HIDE DEF star
  <2> QED BY <1>2, <2>1
<1> HIDE DEF star
<1>7. ASSUME RetainedOK(docs, rows, ledgers) PROVE RetainedOK(docs2, rows, ledgers)
  <2>1. \A u \in Users : docs2[u].principal \in Nat
    BY <1>2, <1>3, <1>4, <1>7 DEF RetainedOK
  <2> QED BY <1>7, <2>1 DEF RetainedOK
<1> QED BY <1>1, <1>5, <1>6, <1>7 DEF docs2

\* A posting is none of the ranks' business.
LEMMA PostSpotRank ==
    ASSUME NEW w, NEW key, NEW n, DOMAIN w = Fields
    PROVE  LET w2 == PostSpot(w, key, n)
           IN  DOMAIN w2 = Fields /\ w2.star = w.star /\ w2.principal = w.principal
BY DEF PostSpot, Fields

\* Stars and principals of a user whose document and row are posted to only.
LEMMA SameDocument ==
    ASSUME RetainedInv, NEW u \in Users, doc'[u].star = doc[u].star,
           doc'[u].principal = doc[u].principal, financial'[u] = financial[u],
           aiLedger'[u] = aiLedger[u]
    PROVE  SameRank(u)
BY DEF RetainedInv, RetainedOK, SameRank, retainedFuturePrincipal

RowFields == {"available", "locked", "profit", "retained", "open"}

\* A lock and a settlement leave the retained principal.
LEMMA TradeRow ==
    ASSUME NEW row, DOMAIN row = RowFields, row.retained \in Nat,
           NEW a, NEW l, NEW p
    PROVE  LET row2 == Mutated(row, a, l, p, 0)
           IN  row2.retained = row.retained /\ row2.open = row.open
<1>1. Max({0, row.retained + 0}) = row.retained
  BY MaxOfTwo
<1> HIDE DEF Max
<1> QED BY <1>1 DEF Mutated, RowFields

\* The steps that post entries only,
LEMMA PostingRanks ==
    ASSUME RanksInv,
           \/ \E u \in Users : BuyBot(u) \/ ExpireBot(u)
           \/ applyAdminFund
    PROVE  UNCHANGED members /\ \A v \in Users : SameRank(v)
<1>1. /\ DOMAIN doc = Users /\ \A v \in Users : DOMAIN doc[v] = Fields
      /\ RetainedInv
  BY Shapes DEF RanksInv
<1>2. ASSUME UNCHANGED <<members, financial, aiLedger>>,
             \A v \in Users : doc'[v].star = doc[v].star /\ doc'[v].principal = doc[v].principal
      PROVE  UNCHANGED members /\ \A v \in Users : SameRank(v)
  BY <1>1, <1>2, SameDocument
<1>3. ASSUME NEW u \in Users, BuyBot(u) PROVE UNCHANGED members /\ \A v \in Users : SameRank(v)
  <2> DEFINE paid == [doc EXCEPT ![u] = PostSpot(doc[u], <<"bot", ops'>>, -BotPrice)]
             sponsor == SponsorOf[u]
             key == <<"botincome", ops'>>
             n == Percent(BotPrice, 10)
  <2>1. \A v \in Users : /\ DOMAIN paid[v] = Fields /\ paid[v].star = doc[v].star
                         /\ paid[v].principal = doc[v].principal
    <3> DEFINE w2 == PostSpot(doc[u], <<"bot", ops'>>, -BotPrice)
    <3>1. DOMAIN w2 = Fields /\ w2.star = doc[u].star /\ w2.principal = doc[u].principal
      BY <1>1, PostSpotRank
    <3>2. \A v \in Users : paid[v] = IF v = u THEN w2 ELSE doc[v]
      BY <1>1
    <3> HIDE DEF w2, paid
    <3> QED BY <1>1, <3>1, <3>2
  <2>2. DOMAIN paid = Users
    BY <1>1
  <2>3. sponsor = Nobody \/ sponsor \in Users
    BY RankAssumption, NetworkAssumption
  <2>4. \/ doc' = paid
        \/ sponsor \in Users /\ doc' = [paid EXCEPT ![sponsor] = PostSpot(paid[sponsor], key, n)]
    BY <1>3, <2>2, <2>3 DEF BuyBot
  <2> HIDE DEF paid, sponsor, key, n
  <2>5. \A v \in Users : doc'[v].star = doc[v].star /\ doc'[v].principal = doc[v].principal
    <3>1. CASE doc' = paid
      BY <2>1, <3>1
    <3>2. CASE sponsor \in Users
               /\ doc' = [paid EXCEPT ![sponsor] = PostSpot(paid[sponsor], key, n)]
      <4> DEFINE w2 == PostSpot(paid[sponsor], key, n)
      <4>1. w2.star = paid[sponsor].star /\ w2.principal = paid[sponsor].principal
        BY <2>1, <3>2, PostSpotRank
      <4>2. \A v \in Users : doc'[v] = IF v = sponsor THEN w2 ELSE paid[v]
        BY <2>2, <3>2
      <4> HIDE DEF w2
      <4> QED BY <2>1, <4>1, <4>2
    <3> QED BY <2>4, <3>1, <3>2
  <2>6. UNCHANGED <<members, financial, aiLedger>>
    BY <1>3 DEF BuyBot
  <2> QED BY <1>2, <2>5, <2>6
<1>4. ASSUME NEW u \in Users, ExpireBot(u)
      PROVE  UNCHANGED members /\ \A v \in Users : SameRank(v)
  <2>1. UNCHANGED <<members, financial, aiLedger, doc>>
    BY <1>4 DEF ExpireBot, ledgerVars
  <2> QED BY <1>2, <2>1
<1>5. CASE applyAdminFund
  <2> DEFINE u == desk.user
             w2 == PostSpot(doc[u], <<"fund", desk.key>>, desk.delta)
  <2>1. u \in Users
    BY <1>5 DEF applyAdminFund, FundIsNew, RanksInv, BooksInv, UserFound
  <2>2. w2.star = doc[u].star /\ w2.principal = doc[u].principal
    BY <1>1, <2>1, PostSpotRank
  <2>3. UNCHANGED <<members, financial, aiLedger>> /\ doc' = [doc EXCEPT ![u] = w2]
    BY <1>1, <1>5, <2>1 DEF applyAdminFund
  <2> HIDE DEF u, w2
  <2>4. \A v \in Users : doc'[v] = IF v = u THEN w2 ELSE doc[v]
    BY <1>1, <2>3
  <2> QED BY <1>2, <2>2, <2>3, <2>4
<1> QED BY <1>3, <1>4, <1>5

\* a deposit's credit, which enters it into the document that is there,
LEMMA CommitRanks ==
    ASSUME RanksInv, NEW c \in Calls, SaveCommit(c), UNCHANGED networkVars, stale' = {}
    PROVE  UNCHANGED members /\ \A v \in Users : SameRank(v)
<1> DEFINE w2 == PostSpot(doc[Depositor], <<"deposit", call[c].payment>>, call[c].report.paid)
<1>1. /\ DOMAIN doc = Users /\ \A v \in Users : DOMAIN doc[v] = Fields
      /\ RetainedInv /\ Depositor \in Users
  BY Shapes, DepositAssumption DEF RanksInv
<1>2. UNCHANGED <<members, financial, aiLedger>>
      /\ (doc' = doc \/ doc' = [doc EXCEPT ![Depositor] = w2])
  <2> DEFINE p == call[c].payment
             claimed == /\ Confirmed(call[c].report) /\ ~deposit[p].credited
                        /\ CreditStatus(call[c].record, call[c].report) = "CREDITED"
  <2>1. /\ UNCHANGED <<financial, aiLedger>>
        /\ claimed /\ call[c].wallet # doc[Depositor] => Depositor \in stale'
        /\ doc' = IF claimed THEN [doc EXCEPT ![Depositor] =
                      PostSpot(call[c].wallet, <<"deposit", p>>, call[c].report.paid)] ELSE doc
    BY DEF SaveCommit
  <2> HIDE DEF claimed
  <2> QED BY <2>1 DEF networkVars
<1>3. w2.star = doc[Depositor].star /\ w2.principal = doc[Depositor].principal
  BY <1>1, PostSpotRank
<1> HIDE DEF w2
<1>4. \A v \in Users : doc'[v].star = doc[v].star /\ doc'[v].principal = doc[v].principal
  <2>1. CASE doc' = doc
    BY <2>1
  <2>2. CASE doc' = [doc EXCEPT ![Depositor] = w2]
    <3>1. \A v \in Users : doc'[v] = IF v = Depositor THEN w2 ELSE doc[v]
      BY <1>1, <2>2
    <3> QED BY <1>3, <3>1
  <2> QED BY <1>2, <2>1, <2>2
<1> QED BY <1>1, <1>2, <1>4, SameDocument

\* a transfer to be confirmed, which leaves the row behind,
LEMMA UnconfirmedRanks ==
    ASSUME RanksInv, NEW u \in Users, TransferUnconfirmed(u)
    PROVE  UNCHANGED members /\ \A v \in Users : SameRank(v)
<1>1. /\ UNCHANGED <<members, aiLedger, doc>>
      /\ financial' = [financial EXCEPT ![u] = Row(u)]
  BY DEF TransferUnconfirmed
<1>2. /\ financial[u].open => Row(u) = financial[u]
      /\ ~financial[u].open => Row(u).open = TRUE /\ Row(u).retained = doc[u].principal
  BY DEF Row, Ensured
<1>3. \A v \in Users : financial'[v] = IF v = u THEN Row(u) ELSE financial[v]
  BY <1>1 DEF RanksInv, BooksInv, AgreeInv, RowsShape
<1>4. SameRank(u)
  BY <1>1, <1>2, <1>3 DEF SameRank, RanksInv, RetainedInv, RetainedOK, retainedFuturePrincipal
<1>5. \A v \in Users : v # u => SameRank(v)
  BY <1>1, <1>3, SameDocument DEF RanksInv
<1> QED BY <1>1, <1>4, <1>5

\* a repeated one, which may add income,
LEMMA AnsweredRanks ==
    ASSUME RanksInv, NEW u \in Users, TransferAnswered(u)
    PROVE  UNCHANGED members /\ \A v \in Users : SameRank(v)
<1>1. PICK paid : doc' = WithIncome(doc, paid)
  BY AnsweredIncome DEF RanksInv, BooksInv
<1>2. UNCHANGED <<members, aiLedger>> /\ financial' = [financial EXCEPT ![u] = Row(u)]
  BY DEF TransferAnswered
<1>3. ASSUME NEW v \in Users
      PROVE  doc'[v].star = doc[v].star /\ doc'[v].principal = doc[v].principal
  <2>1. DOMAIN doc[v] = Fields
    BY Shapes DEF RanksInv
  <2> QED BY <1>1, <2>1 DEF WithIncome, Fields
<1>4. /\ financial[u].open => Row(u) = financial[u]
      /\ ~financial[u].open => Row(u).open = TRUE /\ Row(u).retained = doc[u].principal
  BY DEF Row, Ensured
<1>5. \A v \in Users : financial'[v] = IF v = u THEN Row(u) ELSE financial[v]
  BY <1>2 DEF RanksInv, BooksInv, AgreeInv, RowsShape
<1>6. SameRank(u)
  BY <1>2, <1>3, <1>4, <1>5 DEF SameRank, RanksInv, RetainedInv, RetainedOK,
                                retainedFuturePrincipal
<1>7. \A v \in Users : v # u => SameRank(v)
  BY <1>2, <1>3, <1>5, SameDocument DEF RanksInv
<1> QED BY <1>2, <1>6, <1>7

\* and the steps of a trade.
LEMMA TradeRanks ==
    ASSUME RanksInv, NEW u \in Users, TradeLocks(u) \/ TradeSettles(u)
    PROVE  UNCHANGED members /\ \A v \in Users : SameRank(v)
<1>1. /\ DOMAIN doc = Users /\ \A v \in Users : DOMAIN doc[v] = Fields
      /\ DOMAIN financial = Users /\ DOMAIN financial[u] = RowFields
      /\ DOMAIN aiLedger = Users /\ financial[u].retained \in Nat
      /\ UNCHANGED members
  BY Shapes DEF RanksInv, BooksInv, AgreeInv, RowsShape, RetainedInv, RetainedOK, RowFields,
                TradeLocks, TradeSettles
<1>2. financial[u].open
  <2>1. CASE TradeLocks(u)
    BY <2>1 DEF TradeLocks, HasOpening
  <2>2. CASE TradeSettles(u)
    BY <2>2 DEF TradeSettles, RanksInv, RetainedInv, RetainedOK
  <2> QED BY <2>1, <2>2
<1>3. PICK row : /\ financial' = [financial EXCEPT ![u] = row]
                 /\ doc' = [doc EXCEPT ![u] = Mirrored(doc[u], row)]
                 /\ row.retained = financial[u].retained /\ row.open = financial[u].open
                 /\ \A v \in Users : v # u => aiLedger'[v] = aiLedger[v]
  <2>1. CASE TradeLocks(u)
    <3> DEFINE row == Mutated(financial[u], -Stake, Stake, 0, 0)
    <3>1. row.retained = financial[u].retained /\ row.open = financial[u].open
      BY <1>1, TradeRow
    <3>2. /\ financial' = [financial EXCEPT ![u] = row]
          /\ doc' = [doc EXCEPT ![u] = Mirrored(doc[u], row)]
          /\ \A v \in Users : v # u => aiLedger'[v] = aiLedger[v]
      BY <1>1, <2>1 DEF TradeLocks
    <3> HIDE DEF row
    <3> QED BY <3>1, <3>2
  <2>2. CASE TradeSettles(u)
    <3> DEFINE row == Mutated(financial[u], Stake + Profit, -Stake, Profit, 0)
    <3>1. row.retained = financial[u].retained /\ row.open = financial[u].open
      BY <1>1, TradeRow
    <3>2. /\ financial' = [financial EXCEPT ![u] = row]
          /\ doc' = [doc EXCEPT ![u] = Mirrored(doc[u], row)]
          /\ \A v \in Users : v # u => aiLedger'[v] = aiLedger[v]
      BY <1>1, <2>2 DEF TradeSettles
    <3> HIDE DEF row
    <3> QED BY <3>1, <3>2
  <2> QED BY <2>1, <2>2
<1> DEFINE w2 == Mirrored(doc[u], row)
<1>4. w2.star = doc[u].star /\ w2.principal = row.retained
  BY <1>1 DEF Mirrored, Fields
<1>5. doc'[u] = w2 /\ financial'[u] = row
      /\ \A v \in Users : v # u => doc'[v] = doc[v] /\ financial'[v] = financial[v]
  BY <1>1, <1>3
<1> HIDE DEF w2
<1>6. SameRank(u)
  BY <1>1, <1>2, <1>3, <1>4, <1>5 DEF SameRank, retainedFuturePrincipal
<1>7. \A v \in Users : v # u => SameRank(v)
  BY <1>3, <1>5, SameDocument DEF RanksInv
<1> QED BY <1>1, <1>6, <1>7

\* A row as a transfer changes it.
LEMMA RetainedRow ==
    ASSUME NEW row, NEW w, DOMAIN row = RowFields, row.retained \in Nat, w.principal \in Nat,
           NEW n \in Int
    PROVE  LET row2 == Mutated(Ensured(row, w), n, 0, 0, n)
           IN  row2.retained \in Nat /\ row2.open
<1> DEFINE r == Ensured(row, w)
<1>1. DOMAIN r = RowFields /\ r.retained \in Nat /\ r.open
  BY DEF Ensured, RowFields
<1> HIDE DEF r
<1>2. Max({0, r.retained + n}) \in Nat
  BY <1>1, MaxOfTwo
<1> HIDE DEF Max
<1>3. Mutated(r, n, 0, 0, n).retained \in Nat /\ Mutated(r, n, 0, 0, n).open
  BY <1>1, <1>2 DEF Mutated, RowFields
<1> QED BY <1>3 DEF r

\* A transfer evaluates the ranks of documents that have the shape of documents.
LEMMA TransferBefore ==
    ASSUME BooksInv, NEW u \in Users, Transfer(u)
    PROVE  /\ UNCHANGED members /\ members \in SUBSET Users
           /\ \E before :
                 /\ \A v \in Users : DOMAIN before[v] = Fields
                 /\ doc' = recalculateAuthoritativeNetwork(members, before, financial')
                 /\ RetainedInv => RetainedOK(before, financial', aiLedger')
<1> DEFINE f == form[u]
           delta == IF f.sent = "spot" THEN f.amount ELSE -f.amount
           paid == IF f.sent = "spot" /\ ~Wallet(u).consumed THEN Payable(u, f.amount) ELSE {}
           own == transferBetweenWallets(Wallet(u), f.sent, f.amount, FeeOf(u), f.key)
           row == TransferRow(u)
           before == [WithIncome(doc, paid) EXCEPT ![u] = Mirrored(own, row)]
<1>1. /\ UNCHANGED members /\ financial' = [financial EXCEPT ![u] = row]
      /\ \A v \in Users : v # u => aiLedger'[v] = aiLedger[v]
      /\ doc' = recalculateAuthoritativeNetwork(members, before, financial')
  BY DEF Transfer, TransferRow, BooksInv, AgreeInv, RowsShape
<1>2. /\ \A v \in Users : DOMAIN doc[v] = Fields
      /\ DOMAIN financial = Users /\ DOMAIN financial[u] = RowFields
      /\ members \in SUBSET Users /\ f.amount \in Nat
  BY Shapes DEF BooksInv, AgreeInv, RowsShape, RowFields, UserFound, WalletInv, FormsOK
<1>3. ASSUME RetainedInv PROVE row.retained \in Nat /\ row.open
  <2>1. delta \in Int
    BY <1>2
  <2>2. financial[u].retained \in Nat /\ doc[u].principal \in Nat
    BY <1>3 DEF RetainedInv, RetainedOK
  <2>3. Row(u).retained \in Nat /\ Row(u).open
    BY <2>2 DEF Row, Ensured
  <2>4. Mutated(Row(u), delta, 0, 0, delta).retained \in Nat
        /\ Mutated(Row(u), delta, 0, 0, delta).open
    <3> HIDE DEF delta
    <3> QED BY <1>2, <2>1, <2>2, RetainedRow DEF Row
  <2> QED BY <2>3, <2>4 DEF TransferRow
<1>4. DOMAIN own = Fields
  <2> DEFINE w1 == Mirrored(doc[u], Row(u))
             w2 == PostSpot(w1, <<"transfer", f.key>>,
                            IF f.sent = "spot" THEN -f.amount ELSE f.amount - FeeOf(u))
  <2>1. DOMAIN w1 = Fields
    BY <1>2, MirroredGrows
  <2> HIDE DEF w1
  <2>2. DOMAIN w2 = Fields
    BY <2>1, PostSpotRank
  <2>3. own = [w2 EXCEPT !.consumed = w2.consumed \/ f.sent = "spot", !.star = 0]
    BY DEF transferBetweenWallets, Wallet, w1
  <2> HIDE DEF w2, own
  <2> QED BY <2>2, <2>3 DEF Fields
<1> HIDE DEF f, delta, paid, own, row
<1>5. LET w == Mirrored(own, row) IN DOMAIN w = Fields /\ w.principal = row.retained
  BY <1>4 DEF Mirrored, Fields
<1>6. ASSUME NEW v \in Users
      PROVE  LET w == WithIncome(doc, paid)[v]
             IN  DOMAIN w = Fields /\ w.principal = doc[v].principal
  <2>1. DOMAIN WithIncome(doc, paid)[v] = Fields /\ SameMirror(doc[v], WithIncome(doc, paid)[v])
    BY <1>2, IncomeGrows
  <2> QED BY <2>1 DEF SameMirror
<1>7. \A v \in Users : before[v] = IF v = u THEN Mirrored(own, row) ELSE WithIncome(doc, paid)[v]
  <2>1. DOMAIN WithIncome(doc, paid) = Users
    BY DEF WithIncome
  <2> QED BY <2>1
<1>8. \A v \in Users : financial'[v] = IF v = u THEN row ELSE financial[v]
  BY <1>1, <1>2
<1> HIDE DEF before
<1>9. \A v \in Users : DOMAIN before[v] = Fields
  BY <1>5, <1>6, <1>7
<1>10. ASSUME RetainedInv PROVE RetainedOK(before, financial', aiLedger')
  <2>1. \A v \in Users : before[v].principal \in Nat
    BY <1>2, <1>3, <1>5, <1>6, <1>7, <1>10 DEF RetainedInv, RetainedOK
  <2> QED BY <1>1, <1>2, <1>3, <1>8, <1>10, <2>1 DEF RetainedInv, RetainedOK
<1> QED BY <1>1, <1>2, <1>9, <1>10

\* It settles the ranks, whatever stars and principals were stored, and
LEMMA TransferHeals ==
    ASSUME Shallow, BooksInv, NEW u \in Users, Transfer(u)
    PROVE  StarsAreEarned' /\ (RetainedInv => RetainedInv')
<1>1. PICK before :
        /\ \A v \in Users : DOMAIN before[v] = Fields
        /\ doc' = recalculateAuthoritativeNetwork(members, before, financial')
        /\ RetainedInv => RetainedOK(before, financial', aiLedger')
  BY TransferBefore
<1>2. UNCHANGED members /\ members \in SUBSET Users
  BY TransferBefore
<1>3. LET docs2 == recalculateAuthoritativeNetwork(members, before, financial')
          star == [v \in members |-> docs2[v].star]
      IN  /\ star = Pass(members, Capital(members, docs2, financial'), star)
          /\ RetainedOK(before, financial', aiLedger') => RetainedOK(docs2, financial', aiLedger')
  BY <1>1, <1>2, RecalculationEarns
<1>4. LET star == [v \in members |-> doc'[v].star]
      IN  star = Pass(members, Capital(members, doc', financial'), star)
  BY <1>1, <1>3
<1>5. RetainedInv => RetainedOK(doc', financial', aiLedger')
  BY <1>1, <1>3
<1> QED BY <1>2, <1>4, <1>5 DEF StarsAreEarned, RetainedInv

\* so does a registration that found the documents as they are.
LEMMA RegisterRanks ==
    ASSUME Shallow, RanksInv, RegisterWrite, stale' = {}
    PROVE  RetainedInv' /\ StarsAreEarned'
<1>0. members' \in SUBSET Users
  BY DEF RegisterWrite, RanksInv, BooksInv, UserFound
<1>1. /\ UNCHANGED <<financial, aiLedger>> /\ members' = members \cup {open.user}
      /\ doc' = recalculateAuthoritativeNetwork(members', doc, financial)
  <2> DEFINE ms == members'
  <2>1. /\ UNCHANGED <<financial, aiLedger>> /\ members' = members \cup {open.user}
        /\ doc' = recalculateAuthoritativeNetwork(ms, open.docs, open.rows)
        /\ stale' = stale \cup {u \in Users : open.docs[u] # doc[u]} /\ open.user # Nobody
    BY DEF RegisterWrite
  <2>2. ASSUME NEW u \in Users
        PROVE  /\ open.docs[u] = doc[u] /\ u \notin stale
               /\ retainedFuturePrincipal(open.docs[u], open.rows[u])
                    = retainedFuturePrincipal(doc[u], financial[u])
    <3>1. open.docs[u] = doc[u] /\ u \notin stale
      BY <2>1
    <3>2. retainedFuturePrincipal(open.docs[u], open.rows[u]) = doc[u].principal
      BY <2>1, <3>1 DEF RanksInv, BooksInv, OpenInv
    <3>3. retainedFuturePrincipal(doc[u], financial[u]) = doc[u].principal
      BY <3>1, Shapes DEF RanksInv, Mirrors, retainedFuturePrincipal
    <3> QED BY <3>1, <3>2, <3>3
  <2>3. ms \subseteq Users
    BY <1>0
  <2> HIDE DEF ms
  <2>4. /\ Capital(ms, open.docs, open.rows) = Capital(ms, doc, financial)
        /\ [u \in ms |-> open.docs[u].star] = [u \in ms |-> doc[u].star]
    BY <2>2, <2>3 DEF Capital
  <2>5. recalculateAuthoritativeNetwork(ms, open.docs, open.rows)
          = recalculateAuthoritativeNetwork(ms, doc, financial)
    BY <2>2, <2>4 DEF recalculateAuthoritativeNetwork
  <2> QED BY <2>1, <2>5 DEF ms
<1>3. (\A v \in Users : DOMAIN doc[v] = Fields) /\ RetainedOK(doc, financial, aiLedger)
  BY Shapes DEF RanksInv, RetainedInv
<1>4. LET docs2 == recalculateAuthoritativeNetwork(members', doc, financial)
          star == [v \in members' |-> docs2[v].star]
      IN  /\ star = Pass(members', Capital(members', docs2, financial), star)
          /\ RetainedOK(docs2, financial, aiLedger)
  <2> DEFINE ms == members'
  <2>1. ms \in SUBSET Users
    BY <1>0
  <2> HIDE DEF ms
  <2>2. LET docs2 == recalculateAuthoritativeNetwork(ms, doc, financial)
            star == [v \in ms |-> docs2[v].star]
        IN  /\ star = Pass(ms, Capital(ms, docs2, financial), star)
            /\ RetainedOK(docs2, financial, aiLedger)
    BY <1>3, <2>1, RecalculationEarns
  <2> QED BY <2>2 DEF ms
<1>5. RetainedOK(doc', financial', aiLedger')
  BY <1>1, <1>4
<1>6. LET star == [v \in members' |-> doc'[v].star]
      IN  star = Pass(members', Capital(members', doc', financial'), star)
  BY <1>1, <1>4
<1> QED BY <1>5, <1>6 DEF StarsAreEarned, RetainedInv

\* Every step leaves the ranks settled, if it overwrites nothing.
LEMMA RanksStep ==
    ASSUME Shallow PROVE RanksHold /\ [Next]_vars => RanksHold'
<1> SUFFICES ASSUME RanksHold, [Next]_vars, stale' = {} PROVE RanksInv'
  BY BooksStep DEF RanksHold
<1>0. RanksInv
  BY StaleGrows DEF RanksHold
<1>1. BooksInv'
  BY BooksStep DEF RanksHold
<1>2. UserFound /\ StarsAreEarned /\ RetainedInv /\ BooksInv
  BY <1>0 DEF RanksInv, BooksInv
<1>3. ASSUME UNCHANGED members, \A v \in Users : SameRank(v)
      PROVE  RetainedInv' /\ StarsAreEarned'
  BY <1>2, <1>3, RanksStay
<1>4. CASE UNCHANGED <<members, books>>
  <2>1. UNCHANGED <<members, doc, financial, aiLedger>>
    BY <1>4 DEF books
  <2>2. \A v \in Users : SameRank(v)
    BY <1>0, <2>1, SameDocument DEF RanksInv
  <2> QED BY <1>1, <1>3, <2>1, <2>2 DEF RanksInv
<1>5. CASE NetworkWrites
  <2>1. RetainedInv' /\ StarsAreEarned'
    BY <1>0, <1>2, <1>3, <1>5, PostingRanks, AnsweredRanks, UnconfirmedRanks, TradeRanks,
       TransferHeals, RegisterRanks DEF NetworkWrites
  <2> QED BY <1>1, <2>1 DEF RanksInv
<1>6. CASE DepositWrites /\ UNCHANGED networkVars
  <2>1. CASE CreateSaves
    <3>1. UNCHANGED <<members, doc, financial, aiLedger>>
      BY <1>6, <2>1 DEF CreateSaves, ledgerVars, networkVars
    <3>2. \A v \in Users : SameRank(v)
      BY <1>0, <3>1, SameDocument DEF RanksInv
    <3> QED BY <1>1, <1>3, <3>1, <3>2 DEF RanksInv
  <2>2. ASSUME NEW c \in Calls, SaveCommit(c) PROVE RanksInv'
    <3>1. UNCHANGED members /\ \A v \in Users : SameRank(v)
      BY <1>0, <1>6, <2>2, CommitRanks
    <3> QED BY <1>1, <1>3, <3>1 DEF RanksInv
  <2> QED BY <1>6, <2>1, <2>2 DEF DepositWrites
<1>7. UNCHANGED books => UNCHANGED members \/ RegisterWrite
  <2>1. CASE UNCHANGED networkVars
    BY <2>1 DEF networkVars
  <2>2. ASSUME NEW v \in Users, TransferStep(v) PROVE UNCHANGED members
    <3>1. ASSUME NEW from, NEW n, Submit(v, from, n) PROVE UNCHANGED members
      BY <3>1 DEF Submit
    <3>2. CASE Confirm(v) \/ CloseConfirmation(v) \/ ChangeFrom(v) \/ AnswerArrives(v)
      BY <3>2 DEF Confirm, CloseConfirmation, ChangeFrom, AnswerArrives
    <3>3. CASE TransferAnswered(v) \/ TransferUnconfirmed(v) \/ TransferRefused(v) \/ Transfer(v) \/ TransferFails(v)
      BY <3>3 DEF TransferAnswered, TransferUnconfirmed, TransferRefused, Transfer, TransferFails
    <3> QED BY <2>2, <3>1, <3>2, <3>3 DEF TransferStep
  <2>3. ASSUME NEW v \in Users, BuyBot(v) \/ ExpireBot(v) \/ TradeLocks(v) \/ TradeSettles(v)
                                  \/ RegisterRead(v)
        PROVE  UNCHANGED members
    BY <2>3 DEF BuyBot, ExpireBot, TradeLocks, TradeSettles, RegisterRead
  <2>4. ASSUME DeskStep PROVE UNCHANGED members
    <3>1. ASSUME NEW v, SearchUser(v) \/ FillIn(v) PROVE UNCHANGED members
      BY <3>1 DEF SearchUser, FillIn
    <3>2. SubmitFund => UNCHANGED members
      BY DEF SubmitFund
    <3>3. FundAnswered \/ FundRefused \/ applyAdminFund => UNCHANGED members
      BY DEF FundAnswered, FundRefused, applyAdminFund
    <3>4. FundFails \/ FundShown => UNCHANGED members
      BY DEF FundFails, FundShown
    <3> QED BY <2>4, <3>1, <3>2, <3>3, <3>4 DEF DeskStep
  <2>5. RegisterFails => UNCHANGED members
    BY DEF RegisterFails
  <2> QED BY <2>1, <2>2, <2>3, <2>4, <2>5 DEF Next, NetworkNext, vars
<1> QED BY <1>4, <1>5, <1>6, <1>7, Writers DEF NetworkWrites

\* Every rank asks for a team, so that nobody has one without principals.
LEMMA NobodyRanked ==
    ASSUME NEW ms, NEW u, NEW capital, NEW stars, \A v \in ms : capital[v] = 0
    PROVE  highestRank(ms, u, capital, stars) = 0
<1>1. /\ Len(Ranks) \in Nat /\ DOMAIN Ranks = 1 .. Len(Ranks)
      /\ \A n \in 1 .. Len(Ranks) : Ranks[n].team \in Nat \ {0}
  <2> DEFINE R == [team : Nat \ {0}, directs : Nat, directStar : Nat, reward : Nat]
  <2>1. \A r \in R : r.team \in Nat \ {0}
    OBVIOUS
  <2>2. Ranks \in Seq(R)
    BY RankAssumption
  <2> HIDE DEF R
  <2> QED BY <2>1, <2>2
<1>2. Team(ms, u, capital) = 0
  <2>1. ASSUME NEW v \in Downline(ms, u) PROVE ~isCapitalQualified(capital[v])
    <3>1. v \in ms
      BY DEF Downline
    <3>2. ~(0 >= Qualifying)
      BY RankAssumption
    <3> QED BY <3>1, <3>2 DEF isCapitalQualified
  <2>2. {v \in Downline(ms, u) : isCapitalQualified(capital[v])} = {}
    BY <2>1
  <2> QED BY <2>2, FS_EmptySet DEF Team
<1>3. ASSUME NEW n \in DOMAIN Ranks PROVE ~Meets(ms, u, n, capital, stars)
  <2>1. Ranks[n].team \in Nat \ {0} /\ ~(0 >= Ranks[n].team)
    BY <1>1
  <2> QED BY <1>2, <2>1 DEF Meets
<1> DEFINE n == highestRank(ms, u, capital, stars)
<1>4. n \in 0 .. Len(Ranks) /\ IsHighest(ms, u, capital, stars, n)
  BY HighestRank
<1> HIDE DEF n
<1>5. n = 0
  BY <1>1, <1>3, <1>4 DEF IsHighest
<1> QED BY <1>5 DEF n

\* So nobody has one to begin with.
LEMMA RanksInit == Init => RanksHold
<1> SUFFICES ASSUME Init PROVE RanksHold OBVIOUS
<1> USE DEF Init, LedgersInit, NetworkInit, DepositsInit
<1>1. \A u \in Users : doc[u].star = 0 /\ doc[u].principal = 0 /\ financial[u] = NoRow
                        /\ aiLedger[u] = {}
  BY DEF NewDocument
<1>2. RetainedInv
  BY <1>1 DEF RetainedInv, RetainedOK, NoRow
<1>3. StarsAreEarned
  <2> DEFINE capital == Capital(members, doc, financial)
             star == [u \in members |-> doc[u].star]
  <2>1. members \subseteq Users /\ \A u \in members : capital[u] = 0
    BY <1>1 DEF Capital, retainedFuturePrincipal, NoRow
  <2>2. star = [u \in members |-> 0]
    BY <1>1
  <2> HIDE DEF star
  <2> HIDE DEF capital
  <2>3. \A u \in members : highestRank(members, u, capital, star) = 0
    BY <2>1, NobodyRanked
  <2>4. Pass(members, capital, star) = star
    BY <2>2, <2>3 DEF Pass
  <2> QED BY <2>4 DEF StarsAreEarned, star, capital
<1> QED BY <1>2, <1>3, BooksInit DEF RanksHold, RanksInv

\* Only a transfer moves a transfer in the Future wallet's ledger.
LEMMA TransfersMove ==
    ASSUME BooksInv, [Next]_vars, NEW u \in Users,
           NEW e \in aiLedger'[u] \ aiLedger[u], e[1][1] = "transfer"
    PROVE  \E v \in Users : Transfer(v)
<1>1. DOMAIN aiLedger = Users
  BY DEF BooksInv, AgreeInv, RowsShape
<1>2. CASE UNCHANGED books
  BY <1>2 DEF books
<1>3. ASSUME NEW v \in Users, TradeLocks(v) PROVE FALSE
  <2> DEFINE x == <<<<"lock", ops'>>, -Stake>>
  <2>1. x[1][1] = "lock"
    OBVIOUS
  <2>2. aiLedger' = [aiLedger EXCEPT ![v] = aiLedger[v] \cup {x}]
    BY <1>1, <1>3 DEF TradeLocks
  <2> HIDE DEF x
  <2> QED BY <1>1, <2>1, <2>2
<1>4. ASSUME NEW v \in Users, TradeSettles(v) PROVE FALSE
  <2> DEFINE returned(i) == <<<<"return", i>>, Stake>>
             profit(i) == <<<<"profit", i>>, Profit>>
  <2>1. \A i : returned(i)[1][1] = "return" /\ profit(i)[1][1] = "profit"
    OBVIOUS
  <2>2. PICK i : aiLedger' = [aiLedger EXCEPT ![v] = aiLedger[v] \cup {returned(i), profit(i)}]
    <3>1. PICK x : aiLedger' = [aiLedger EXCEPT ![v] =
                                  aiLedger[v] \cup {returned(x[1][2]), profit(x[1][2])}]
      BY <1>1, <1>4 DEF TradeSettles
    <3> HIDE DEF returned, profit
    <3> QED BY <3>1
  <2> HIDE DEF returned, profit
  <2> QED BY <1>1, <2>1, <2>2
<1>5. CASE NetworkWrites
  <2>1. ASSUME NEW v \in Users,
               TransferAnswered(v) \/ TransferUnconfirmed(v) \/ BuyBot(v) \/ ExpireBot(v)
        PROVE  aiLedger' = aiLedger
    BY <2>1 DEF TransferAnswered, TransferUnconfirmed, BuyBot, ExpireBot, ledgerVars
  <2>2. applyAdminFund \/ RegisterWrite => aiLedger' = aiLedger
    BY DEF applyAdminFund, RegisterWrite
  <2> QED BY <1>3, <1>4, <1>5, <2>1, <2>2 DEF NetworkWrites
<1>6. CASE DepositWrites
  BY <1>6 DEF DepositWrites, CreateSaves, SaveCommit, ledgerVars
<1> QED BY <1>2, <1>5, <1>6, Writers

\* Where the passes reach from the lowest level to the top, every member's stars
\* are those the rules give for the principals and stars of now, after every
\* step of a history in which no document was overwritten by an older one; and
\* in every history every rank up to them was rewarded.
THEOREM RanksSettle == ASSUME Shallow PROVE Spec => []RanksAreRight
<1>1. RanksHold /\ [Next]_vars => RanksHold'
  BY RanksStep
<1>2. RanksHold => (stale = {} => StarsAreEarned)
  BY DEF RanksHold, RanksInv
<1>3. (stale = {} => StarsAreEarned) /\ StarsAreRewarded => RanksAreRight
  BY DEF RanksAreRight
<1> QED BY <1>1, <1>2, <1>3, RanksInit, StarsCarryRewards, PTL DEF Spec

\* In any history a transfer puts everybody's rank right, also the ranks that an
\* overtaken registration or deposit has set back.
THEOREM TransfersHealRanks == ASSUME Shallow PROVE Spec => RanksHeal
<1>1. BooksInv /\ [Next]_vars => BooksInv'
  BY BooksStep
<1>2. BooksInv /\ [Next]_vars =>
        [\A u \in Users :
           (\E e \in aiLedger'[u] \ aiLedger[u] : e[1][1] = "transfer") => StarsAreEarned']_vars
  BY TransfersMove, TransferHeals
<1> QED BY <1>1, <1>2, BooksInit, PTL DEF Spec, RanksHeal

-----------------------------------------------------------------------------
(* The deductions the dialog showed.                                       *)

\* The entries of transfers in a document.
Transfers(w) == {e \in w.ledger : e[1][1] = "transfer"}

\* Entries of other kinds are no transfers.
LEMMA OtherKinds ==
    ASSUME NEW w, NEW w2, NEW kind, Extends(w, w2, kind), kind # "transfer"
    PROVE  Transfers(w2) \subseteq Transfers(w)
BY DEF Extends, Transfers

\* What a document that is right may be extended to.
LEMMA NoTransfers ==
    ASSUME NEW u \in Users, NEW docs, NEW rep, NEW dist, DocOK(docs[u], u, rep, dist)
    PROVE  /\ \A row : Transfers(Mirrored(docs[u], row)) \subseteq Transfers(docs[u])
           /\ \A kind, id, n : kind # "transfer" =>
                Transfers(PostSpot(docs[u], <<kind, id>>, n)) \subseteq Transfers(docs[u])
           /\ \A paid : Transfers(WithIncome(docs, paid)[u]) \subseteq Transfers(docs[u])
           /\ \A ms, rows :
                Transfers(recalculateAuthoritativeNetwork(ms, docs, rows)[u])
                    \subseteq Transfers(docs[u])
<1>1. DOMAIN docs[u] = Fields /\ \A n \in 1 .. docs[u].star : hasProcessed(docs[u], <<"reward", n>>)
  BY DEF DocOK
<1>2. ASSUME NEW row PROVE Transfers(Mirrored(docs[u], row)) \subseteq Transfers(docs[u])
  <2>1. Extends(docs[u], Mirrored(docs[u], row), "mirror")
    BY <1>1, MirroredExtends
  <2> QED BY <2>1, OtherKinds
<1>3. ASSUME NEW kind, NEW id, NEW n, kind # "transfer"
      PROVE  Transfers(PostSpot(docs[u], <<kind, id>>, n)) \subseteq Transfers(docs[u])
  <2>1. Extends(docs[u], PostSpot(docs[u], <<kind, id>>, n), kind)
    BY <1>1, PostSpotExtends
  <2> QED BY <1>3, <2>1, OtherKinds
<1>4. ASSUME NEW paid PROVE Transfers(WithIncome(docs, paid)[u]) \subseteq Transfers(docs[u])
  <2>1. Extends(docs[u], WithIncome(docs, paid)[u], "income")
    BY <1>1, IncomeExtends
  <2> QED BY <2>1, OtherKinds
<1>5. ASSUME NEW ms, NEW rows
      PROVE  Transfers(recalculateAuthoritativeNetwork(ms, docs, rows)[u]) \subseteq Transfers(docs[u])
  <2>1. Extends(docs[u], recalculateAuthoritativeNetwork(ms, docs, rows)[u], "reward")
    BY <1>1, RecalculationExtends
  <2> QED BY <2>1, OtherKinds
<1> QED BY <1>2, <1>3, <1>4, <1>5

Deducted(u) ==
    <<<<"transfer", form[u].key>>,
      IF form[u].sent = "spot" THEN -form[u].amount ELSE form[u].amount - FeeOf(u)>>

\* A transfer enters itself, and no other.
LEMMA TransferEnters ==
    ASSUME WalletInv, NEW u \in Users, Transfer(u)
    PROVE  /\ Transfers(doc'[u]) \subseteq Transfers(doc[u]) \cup {Deducted(u)}
           /\ \A v \in Users \ {u} : Transfers(doc'[v]) \subseteq Transfers(doc[v])
<1> DEFINE f == form[u]
           paid == IF f.sent = "spot" /\ ~Wallet(u).consumed THEN Payable(u, f.amount) ELSE {}
           w1 == Wallet(u)
           w2 == PostSpot(w1, <<"transfer", f.key>>,
                          IF f.sent = "spot" THEN -f.amount ELSE f.amount - FeeOf(u))
           own == transferBetweenWallets(w1, f.sent, f.amount, FeeOf(u), f.key)
           row == TransferRow(u)
           before == [WithIncome(doc, paid) EXCEPT ![u] = Mirrored(own, row)]
<1>1. doc' = recalculateAuthoritativeNetwork(members, before, financial')
  BY DEF Transfer, TransferRow
<1>2. /\ DocsOK(doc, reported, distribution)
      /\ \A v \in Users : distribution[v] >= 0 => distribution'[v] >= 0
      /\ f.sent = "spot" => distribution'[u] >= 0
  BY TransferIncome DEF WalletInv, DocsInv
<1>3. DocOK(doc[u], u, reported, distribution)
  BY <1>2 DEF DocsOK
<1>4. Transfers(w2) \subseteq Transfers(doc[u]) \cup {Deducted(u)} /\ DOMAIN w2 = Fields
  <2>1. Transfers(w1) \subseteq Transfers(doc[u]) /\ DOMAIN w1 = Fields
    BY <1>3, NoTransfers, MirroredGrows DEF Wallet, DocOK
  <2> HIDE DEF w1
  <2>2. DOMAIN w2 = Fields /\ w2.ledger \subseteq w1.ledger \cup {Deducted(u)}
    BY <2>1 DEF PostSpot, Fields, Deducted
  <2> HIDE DEF w2
  <2> QED BY <2>1, <2>2 DEF Transfers
<1>5. DOMAIN own = Fields /\ own.ledger = w2.ledger
  <2>1. own = [w2 EXCEPT !.consumed = w2.consumed \/ f.sent = "spot", !.star = 0]
    BY DEF transferBetweenWallets
  <2> HIDE DEF w2, own
  <2> QED BY <1>4, <2>1 DEF Fields
<1>6. DocOK(Mirrored(own, row), u, reported, distribution')
  <2>1. f.amount \in Nat /\ FeeOf(u) \in 0 .. f.amount
    BY FeeRange DEF WalletInv, FormsOK
  <2> HIDE DEF row
  <2> QED BY <1>2, <1>3, <2>1, TransferOwn DEF Wallet
<1>7. Mirrored(own, row).ledger = own.ledger
  <2> HIDE DEF own, row
  <2> QED BY <1>5 DEF Mirrored, Fields
<1> HIDE DEF own, row, paid, w2, w1
<1>8. DOMAIN WithIncome(doc, paid) = Users
  BY DEF WithIncome
<1>9. /\ before[u] = Mirrored(own, row)
      /\ \A v \in Users : v # u => before[v] = WithIncome(doc, paid)[v]
  BY <1>8
<1> HIDE DEF before
<1>10. Transfers(before[u]) \subseteq Transfers(doc[u]) \cup {Deducted(u)}
  BY <1>4, <1>5, <1>7, <1>9 DEF Transfers
<1>11. Transfers(doc'[u]) \subseteq Transfers(before[u])
  <2>1. DocOK(before[u], u, reported, distribution')
    BY <1>6, <1>9
  <2> QED BY <1>1, <2>1, NoTransfers
<1>12. ASSUME NEW v \in Users \ {u} PROVE Transfers(doc'[v]) \subseteq Transfers(doc[v])
  <2>1. DocsOK(doc, reported, distribution')
    BY <1>2, OlderOK
  <2>2. DocOK(doc[v], v, reported, distribution') /\ before[v] = WithIncome(doc, paid)[v]
    BY <1>9, <2>1 DEF DocsOK
  <2>3. Extends(doc[v], before[v], "income")
    BY <2>2, IncomeExtends DEF DocOK
  <2>4. DocOK(before[v], v, reported, distribution')
    BY <2>2, <2>3, ExtendsOK
  <2>5. Transfers(doc'[v]) \subseteq Transfers(before[v])
    BY <1>1, <2>4, NoTransfers
  <2>6. Transfers(before[v]) \subseteq Transfers(doc[v])
    BY <2>2, NoTransfers
  <2> QED BY <2>5, <2>6
<1> QED BY <1>10, <1>11, <1>12

\* An entry of a transfer was in a document before, or in a copy of it, or is
\* the one this step enters.
Remembered(v, e) ==
    \/ e \in Transfers(doc[v])
    \/ open.user # Nobody /\ e \in Transfers(open.docs[v])
    \/ v = Depositor /\ \E c \in Calls : call[c].pc = "commit" /\ e \in Transfers(call[c].wallet)

\* So no entry of a transfer comes from anywhere else.
LEMMA TransferEntries ==
    ASSUME WalletInv, UserFound, [Next]_vars, NEW v \in Users, NEW e \in Transfers(doc'[v])
    PROVE  Remembered(v, e) \/ (Transfer(v) /\ e = Deducted(v))
<1> SUFFICES ASSUME ~(Transfer(v) /\ e = Deducted(v)) PROVE Remembered(v, e) OBVIOUS
<1>1. DocsOK(doc, reported, distribution)
  BY DEF WalletInv, DocsInv
<1>2. DOMAIN doc = Users /\ DocOK(doc[v], v, reported, distribution)
  BY <1>1 DEF DocsOK
<1>3. Transfers(doc'[v]) \subseteq Transfers(doc[v]) => Remembered(v, e)
  BY DEF Remembered
<1>4. UNCHANGED doc => Remembered(v, e)
  BY <1>3
<1>5. ASSUME NEW u \in Users, Transfer(u) PROVE Remembered(v, e)
  BY <1>3, <1>5, TransferEnters DEF Remembered
<1>6. ASSUME NEW u \in Users, BuyBot(u) PROVE Remembered(v, e)
  <2> DEFINE paid == [doc EXCEPT ![u] = PostSpot(doc[u], <<"bot", ops'>>, -BotPrice)]
             sponsor == SponsorOf[u]
             n == Percent(BotPrice, 10)
  <2>1. sponsor # Nobody => sponsor \in Users
    BY RankAssumption, NetworkAssumption
  <2>2. DocsOK(paid, reported, distribution)
    BY <1>1, PostedDocument
  <2>3. Transfers(paid[v]) \subseteq Transfers(doc[v])
    <3>1. Transfers(PostSpot(doc[v], <<"bot", ops'>>, -BotPrice)) \subseteq Transfers(doc[v])
      BY <1>2, NoTransfers
    <3>2. paid[v] = IF v = u THEN PostSpot(doc[v], <<"bot", ops'>>, -BotPrice) ELSE doc[v]
      BY <1>2
    <3> HIDE DEF paid
    <3> QED BY <3>1, <3>2
  <2>4. DOMAIN paid = Users /\ DocOK(paid[v], v, reported, distribution)
    BY <2>2 DEF DocsOK
  <2>5. \/ doc' = paid
        \/ sponsor # Nobody /\ doc' = [paid EXCEPT ![sponsor] =
               PostSpot(paid[sponsor], <<"botincome", ops'>>, n)]
    BY <1>2, <1>6, <2>1, <2>4 DEF BuyBot
  <2> HIDE DEF paid, sponsor, n
  <2>6. \/ doc'[v] = paid[v]
        \/ doc'[v] = PostSpot(paid[v], <<"botincome", ops'>>, n)
    BY <2>1, <2>4, <2>5
  <2>7. Transfers(PostSpot(paid[v], <<"botincome", ops'>>, n)) \subseteq Transfers(paid[v])
    BY <2>4, NoTransfers
  <2> QED BY <1>3, <2>3, <2>6, <2>7
<1>7. CASE applyAdminFund
  <2> DEFINE w == PostSpot(doc[v], <<"fund", desk.key>>, desk.delta)
  <2>1. desk.user \in Users
    BY <1>7 DEF applyAdminFund, FundIsNew, UserFound
  <2>2. doc'[v] = IF v = desk.user THEN w ELSE doc[v]
    BY <1>2, <1>7, <2>1 DEF applyAdminFund
  <2>3. Transfers(w) \subseteq Transfers(doc[v])
    BY <1>2, NoTransfers
  <2> HIDE DEF w
  <2> QED BY <1>3, <2>2, <2>3
<1>8. ASSUME NEW u \in Users, TradeLocks(u) \/ TradeSettles(u) PROVE Remembered(v, e)
  <2>1. \E row : doc' = [doc EXCEPT ![u] = Mirrored(doc[u], row)]
    <3>1. CASE TradeLocks(u)
      BY <1>2, <3>1 DEF TradeLocks
    <3>2. CASE TradeSettles(u)
      BY <1>2, <3>2 DEF TradeSettles
    <3> QED BY <1>8, <3>1, <3>2
  <2>2. PICK row : doc' = [doc EXCEPT ![u] = Mirrored(doc[u], row)]
    BY <2>1
  <2>3. doc'[v] = doc[v] \/ doc'[v] = Mirrored(doc[v], row)
    BY <1>2, <2>2
  <2>4. Transfers(Mirrored(doc[v], row)) \subseteq Transfers(doc[v])
    BY <1>2, NoTransfers
  <2> QED BY <1>3, <2>3, <2>4
<1>9. CASE RegisterWrite
  <2>1. open.user # Nobody /\ DocOK(open.docs[v], v, reported, distribution)
    BY <1>9 DEF RegisterWrite, WalletInv, DocsInv, DocsOK
  <2>2. doc'[v] = recalculateAuthoritativeNetwork(members', open.docs, open.rows)[v]
    BY <1>9 DEF RegisterWrite
  <2>3. Transfers(doc'[v]) \subseteq Transfers(open.docs[v])
    BY <2>1, <2>2, NoTransfers
  <2> QED BY <2>1, <2>3 DEF Remembered
<1>10. ASSUME NEW c \in Calls, SaveCommit(c) PROVE Remembered(v, e)
  <2> DEFINE p == call[c].payment
             n == call[c].report.paid
             w == call[c].wallet
             w2 == PostSpot(w, <<"deposit", p>>, n)
  <2>1. call[c].pc = "commit" /\ DocOK(w, Depositor, reported, distribution)
    BY <1>10 DEF SaveCommit, WalletInv, DocsInv
  <2>2. doc' = doc \/ doc' = [doc EXCEPT ![Depositor] = w2]
    BY <1>10 DEF SaveCommit
  <2>3. Transfers(w2) \subseteq Transfers(w)
    <3> DEFINE docs == [x \in Users |-> w]
    <3>1. docs[Depositor] = w
      BY DepositAssumption
    <3> HIDE DEF docs, w
    <3>2. DocOK(docs[Depositor], Depositor, reported, distribution)
      BY <2>1, <3>1
    <3>3. Transfers(PostSpot(docs[Depositor], <<"deposit", p>>, n)) \subseteq Transfers(docs[Depositor])
      BY <3>2, NoTransfers, DepositAssumption
    <3> QED BY <3>1, <3>3
  <2> HIDE DEF w2
  <2>4. e \in Transfers(doc[v]) \/ (v = Depositor /\ e \in Transfers(w2))
    BY <1>2, <2>2
  <2> QED BY <2>1, <2>3, <2>4 DEF Remembered
<1>11. CASE UNCHANGED books
  BY <1>4, <1>11 DEF books
<1>12. ASSUME NEW u \in Users, TransferUnconfirmed(u) \/ ExpireBot(u) PROVE Remembered(v, e)
  BY <1>4, <1>12 DEF TransferUnconfirmed, ExpireBot, ledgerVars
<1>14. ASSUME NEW u \in Users, TransferAnswered(u) PROVE Remembered(v, e)
  <2>1. PICK paid : doc' = WithIncome(doc, paid)
    BY <1>14, AnsweredIncome
  <2> QED BY <1>2, <1>3, <2>1, NoTransfers
<1>13. CASE CreateSaves
  BY <1>4, <1>13 DEF CreateSaves, ledgerVars
<1> QED BY <1>5, <1>6, <1>7, <1>8, <1>9, <1>10, <1>11, <1>12, <1>13, <1>14, Writers
        DEF NetworkWrites, DepositWrites

\* What a form shows to confirm is a fifth of its amount.
FormShows(f, n) ==
    /\ f.key \in Nat /\ f.key <= n
    /\ f.pending \/ f.pc = "confirm" => f.shown = Percent(f.amount, 20)

\* An entry a form has asked for, with a deduction, is one it has shown.
Shown(f, e, n) ==
    /\ e[1][2] \in Nat /\ e[1][2] <= n /\ e[2] \in Int
    /\ e[1][2] = f.key /\ e[2] > 0 /\ e[2] < f.amount
          => f.pending /\ f.shown = f.amount - e[2]

FeeInv ==
    /\ ops \in Nat /\ \A u \in Users : FormShows(form[u], ops)
    /\ \A u \in Users : \A e : Remembered(u, e) => Shown(form[u], e, ops)

\* A form keeps what it has shown, or starts again under a key of its own.
Later(f, f2, n) ==
    \/ f2.amount = 0
    \/ f2.key > n
    \/ /\ f2.key = f.key /\ f2.amount = f.amount
       /\ f.pending => f2.pending /\ f2.shown = f.shown

\* Requests are counted upwards.
LEMMA OpsGrow ==
    ASSUME ops \in Nat, [Next]_vars PROVE ops' = ops \/ ops' = ops + 1
<1>1. CASE UNCHANGED vars
  BY <1>1 DEF vars
<1>2. ASSUME NEW u \in Users, TransferStep(u) PROVE ops' = ops \/ ops' = ops + 1
  <2>1. ASSUME NEW from, NEW n, Submit(u, from, n) PROVE ops' = ops + 1
    BY <2>1 DEF Submit, Begun
  <2>2. CASE Confirm(u) \/ CloseConfirmation(u) \/ ChangeFrom(u) \/ AnswerArrives(u)
    BY <2>2 DEF Confirm, CloseConfirmation, ChangeFrom, AnswerArrives
  <2>3. CASE TransferAnswered(u) \/ TransferUnconfirmed(u) \/ TransferRefused(u) \/ Transfer(u) \/ TransferFails(u)
    BY <2>3 DEF TransferAnswered, TransferUnconfirmed, TransferRefused, Transfer, TransferFails
  <2> QED BY <1>2, <2>1, <2>2, <2>3 DEF TransferStep
<1>3. ASSUME NEW u \in Users, BuyBot(u) \/ TradeLocks(u) PROVE ops' = ops + 1
  BY <1>3 DEF BuyBot, TradeLocks, Begun
<1>4. ASSUME NEW u \in Users, ExpireBot(u) \/ TradeSettles(u) \/ RegisterRead(u)
      PROVE  ops' = ops
  BY <1>4 DEF ExpireBot, TradeSettles, RegisterRead
<1>5. RegisterWrite \/ RegisterFails => ops' = ops
  BY DEF RegisterWrite, RegisterFails
<1>6. ASSUME DeskStep PROVE ops' = ops \/ ops' = ops + 1
  <2>1. ASSUME NEW v, SearchUser(v) \/ FillIn(v) PROVE ops' = ops \/ ops' = ops + 1
    BY <2>1 DEF SearchUser, FillIn, Begun
  <2>2. SubmitFund => ops' = ops \/ ops' = ops + 1
    BY DEF SubmitFund, Begun
  <2>3. FundAnswered \/ FundRefused \/ applyAdminFund => ops' = ops
    BY DEF FundAnswered, FundRefused, applyAdminFund
  <2>4. FundFails \/ FundShown => ops' = ops
    BY DEF FundFails, FundShown
  <2> QED BY <1>6, <2>1, <2>2, <2>3, <2>4 DEF DeskStep
<1>7. ASSUME DepositNext PROVE ops' = ops \/ ops' = ops + 1
  <2>1. ASSUME NEW p \in Payments, ProviderStep(p) PROVE ops' = ops
    BY <2>1 DEF ProviderStep
  <2>2. CreateBegins \/ ProviderCreates \/ CreateSaves \/ CreateFails
           => ops' = ops \/ ops' = ops + 1
    BY DEF CreateBegins, ProviderCreates, CreateSaves, CreateFails, Begun
  <2>3. ASSUME NEW c \in Calls, CallStep(c) PROVE ops' = ops \/ ops' = ops + 1
    <3>1. ASSUME NEW p \in Payments, IpnArrives(c, p) \/ RefreshBegins(c, p)
          PROVE  ops' = ops + 1
      <4>1. IpnArrives(c, p) => Begun
        BY DEF IpnArrives
      <4>2. RefreshBegins(c, p) => Begun
        BY DEF RefreshBegins
      <4> QED BY <3>1, <4>1, <4>2 DEF Begun
    <3>2. getPaymentStatus(c) \/ SaveRead(c) \/ SaveUpdate(c) => ops' = ops
      BY DEF getPaymentStatus, SaveRead, SaveUpdate
    <3>3. SaveCommit(c) \/ CallFails(c) => ops' = ops
      BY DEF SaveCommit, CallFails
    <3> QED BY <2>3, <3>1, <3>2, <3>3 DEF CallStep
  <2> QED BY <1>7, <2>1, <2>2, <2>3 DEF DepositNext
<1> QED BY <1>1, <1>2, <1>3, <1>4, <1>5, <1>6, <1>7 DEF Next, NetworkNext

\* A step changes one form at most, and as forms are changed.
LEMMA OneForm ==
    ASSUME FormsOK, ops \in Nat, ops' \in Nat, ops <= ops',
           \A v \in Users : FormShows(form[v], ops),
           NEW u \in Users, NEW x, form' = [form EXCEPT ![u] = x],
           FormShows(x, ops'), Later(form[u], x, ops)
    PROVE  \A v \in Users : FormShows(form'[v], ops') /\ Later(form[v], form'[v], ops)
<1>1. \A v \in Users : form'[v] = IF v = u THEN x ELSE form[v]
  BY DEF FormsOK
<1>2. \A v \in Users : FormShows(form[v], ops') /\ Later(form[v], form[v], ops)
  BY DEF FormShows, Later
<1> QED BY <1>1, <1>2

\* So do all the steps there are.
LEMMA FormMoves ==
    ASSUME FormsOK, ops \in Nat, \A u \in Users : FormShows(form[u], ops), [Next]_vars
    PROVE  \A v \in Users : FormShows(form'[v], ops') /\ Later(form[v], form'[v], ops)
<1> DEFINE Moves == \A v \in Users : FormShows(form'[v], ops') /\ Later(form[v], form'[v], ops)
<1> SUFFICES Moves OBVIOUS
<1>1. ops' \in Nat /\ ops <= ops'
  BY OpsGrow
<1>2. UNCHANGED form => Moves
  BY <1>1 DEF FormShows, Later
<1>3. FormShows(IdleForm, ops') /\ IdleForm.amount = 0
  BY <1>1 DEF IdleForm, FormShows
<1>4. ASSUME NEW u \in Users, NEW x, form' = [form EXCEPT ![u] = x],
             FormShows(x, ops'), Later(form[u], x, ops)
      PROVE  Moves
  BY <1>1, <1>4, OneForm
<1> HIDE DEF Moves
<1>5. ASSUME NEW u \in Users, TransferStep(u) PROVE Moves
  <2> DEFINE f == form[u]
  <2>1. /\ DOMAIN f = {"pc", "from", "sent", "amount", "key", "pending", "shown"}
        /\ f.key \in Nat /\ f.key <= ops'
        /\ f.pending \/ f.pc = "confirm" => f.shown = Percent(f.amount, 20)
    BY <1>1 DEF FormsOK, FormShows
  <2>2. ASSUME NEW from \in {"spot", "future"}, NEW n \in Amounts[u], Submit(u, from, n)
        PROVE  Moves
    <3> DEFINE x == [IdleForm EXCEPT !.pc = "sent", !.from = from, !.sent = from,
                                     !.amount = n, !.key = ops']
    <3>1. /\ x.pc = "sent" /\ x.key = ops' /\ x.pending = FALSE
          /\ form' = [form EXCEPT ![u] = x] /\ ops' = ops + 1
      BY <2>2 DEF Submit, IdleForm, Begun
    <3> HIDE DEF x
    <3>2. FormShows(x, ops') /\ Later(form[u], x, ops)
      BY <1>1, <3>1 DEF FormShows, Later
    <3> QED BY <1>4, <3>1, <3>2
  <2> DEFINE Asked(a, b, d) == [f EXCEPT !.pc = a, !.sent = b, !.from = d]
  <2>3. ASSUME NEW a, NEW b, NEW d, form' = [form EXCEPT ![u] = Asked(a, b, d)],
               a = "confirm" => f.pending \/ f.pc = "confirm"
        PROVE  Moves
    <3> DEFINE x == Asked(a, b, d)
    <3>1. /\ x.pc = a /\ x.key = f.key /\ x.amount = f.amount /\ x.pending = f.pending
          /\ x.shown = f.shown
      BY <2>1
    <3>2. form' = [form EXCEPT ![u] = x]
      BY <2>3
    <3> HIDE DEF x, f
    <3>3. FormShows(x, ops')
      BY <2>1, <2>3, <3>1 DEF FormShows
    <3>4. Later(form[u], x, ops)
      BY <3>1 DEF Later, f
    <3> QED BY <1>4, <3>2, <3>3, <3>4
  <2>4. ASSUME NEW a, a # "confirm", Answer(u, a) PROVE Moves
    <3>1. form' = [form EXCEPT ![u] = Asked(a, f.sent, f.from)]
      BY <2>1, <2>4 DEF Answer, FormsOK
    <3> HIDE DEF f, Asked
    <3> QED BY <2>3, <2>4, <3>1
  <2>5. CASE Confirm(u)
    <3>1. form' = [form EXCEPT ![u] = Asked("sent", f.from, f.from)]
      BY <2>1, <2>5 DEF Confirm, FormsOK
    <3> HIDE DEF f, Asked
    <3>2. "sent" # "confirm"
      OBVIOUS
    <3> QED BY <2>3, <3>1, <3>2
  <2>6. CASE ChangeFrom(u)
    <3> DEFINE d == IF f.from = "spot" THEN "future" ELSE "spot"
    <3>1. f.pc = "confirm"
          /\ form' = [form EXCEPT ![u] = Asked(f.pc, f.sent, d)]
      BY <2>1, <2>6 DEF ChangeFrom, FormsOK
    <3> HIDE DEF f, d, Asked
    <3> QED BY <2>3, <3>1
  <2>7. CASE CloseConfirmation(u)
    <3>1. form' = [form EXCEPT ![u] = IdleForm]
      BY <2>7 DEF CloseConfirmation
    <3> QED BY <1>3, <1>4, <3>1 DEF Later
  <2>8. CASE AnswerArrives(u)
    <3> DEFINE x == [f EXCEPT !.pc = "idle", !.pending = TRUE]
    <3>1. form' = [form EXCEPT ![u] = IdleForm] => Moves
      BY <1>3, <1>4 DEF Later
    <3>2. ASSUME f.pc = "confirm" \/ f.pending, form' = [form EXCEPT ![u] = x] PROVE Moves
      <4>1. /\ x.pc = "idle" /\ x.key = f.key /\ x.amount = f.amount /\ x.pending = TRUE
            /\ x.shown = f.shown
        BY <2>1
      <4> HIDE DEF x
      <4>2. FormShows(x, ops')
        BY <2>1, <3>2, <4>1 DEF FormShows
      <4>3. Later(form[u], x, ops)
        BY <4>1 DEF Later
      <4> QED BY <1>4, <3>2, <4>2, <4>3
    <3>3. \/ form' = [form EXCEPT ![u] = IdleForm]
          \/ (f.pc = "confirm" \/ f.pending) /\ form' = [form EXCEPT ![u] = x]
      BY <2>8 DEF AnswerArrives, FormsOK
    <3> QED BY <3>1, <3>2, <3>3
  <2>9. CASE TransferUnconfirmed(u)
    <3> DEFINE x == [f EXCEPT !.pc = "confirm", !.shown = FeeOf(u)]
    <3>1. ASSUME FeeOf(u) > 0, ~f.pending, form' = [form EXCEPT ![u] = x] PROVE Moves
      <4>1. FeeOf(u) = Percent(f.amount, 20)
        BY <3>1 DEF FeeOf
      <4>2. /\ x.key = f.key /\ x.amount = f.amount /\ x.pending = f.pending
            /\ x.shown = FeeOf(u)
        BY <2>1
      <4> HIDE DEF x
      <4>3. FormShows(x, ops')
        BY <2>1, <4>1, <4>2 DEF FormShows
      <4>4. Later(form[u], x, ops)
        BY <3>1, <4>2 DEF Later
      <4> QED BY <1>4, <3>1, <4>3, <4>4
    <3>2. FeeOf(u) > 0 /\ ~f.pending /\ form' = [form EXCEPT ![u] = x]
      BY <2>9 DEF TransferUnconfirmed, FormsOK
    <3> QED BY <3>1, <3>2
  <2>10. CASE TransferAnswered(u) \/ TransferRefused(u) \/ TransferFails(u) \/ Transfer(u)
    <3>1. Answer(u, "error") \/ Answer(u, "ok")
      BY <2>10 DEF TransferAnswered, TransferRefused, TransferFails, Transfer
    <3> QED BY <2>4, <3>1
  <2> QED BY <1>5, <2>2, <2>5, <2>6, <2>7, <2>8, <2>9, <2>10 DEF TransferStep
<1>6. ASSUME NEW u \in Users,
             BuyBot(u) \/ ExpireBot(u) \/ TradeLocks(u) \/ TradeSettles(u) \/ RegisterRead(u)
      PROVE  UNCHANGED form
  BY <1>6 DEF BuyBot, ExpireBot, TradeLocks, TradeSettles, RegisterRead
<1>7. ASSUME DeskStep \/ RegisterWrite \/ RegisterFails PROVE UNCHANGED form
  <2>1. ASSUME NEW v, SearchUser(v) \/ FillIn(v) PROVE UNCHANGED form
    BY <2>1 DEF SearchUser, FillIn
  <2>2. SubmitFund \/ FundAnswered => UNCHANGED form
    BY DEF SubmitFund, FundAnswered
  <2>3. FundRefused \/ applyAdminFund => UNCHANGED form
    BY DEF FundRefused, applyAdminFund
  <2>4. FundFails \/ FundShown => UNCHANGED form
    BY DEF FundFails, FundShown
  <2>5. RegisterWrite \/ RegisterFails => UNCHANGED form
    BY DEF RegisterWrite, RegisterFails
  <2> QED BY <1>7, <2>1, <2>2, <2>3, <2>4, <2>5 DEF DeskStep
<1>8. CASE UNCHANGED networkVars
  BY <1>2, <1>8 DEF networkVars
<1> QED BY <1>2, <1>5, <1>6, <1>7, <1>8 DEF Next, NetworkNext, vars

\* What was shown stays shown, as long as the form asks for it.
LEMMA StillShown ==
    ASSUME NEW f, NEW f2, NEW e, NEW n \in Nat, NEW n2 \in Nat, n <= n2,
           Shown(f, e, n), Later(f, f2, n)
    PROVE  Shown(f2, e, n2)
<1>1. e[1][2] \in Nat /\ e[1][2] <= n /\ e[1][2] <= n2 /\ e[2] \in Int
  BY DEF Shown
<1>2. CASE f2.amount = 0
  BY <1>1, <1>2 DEF Shown
<1>3. CASE f2.key > n
  <2>1. e[1][2] # f2.key
    BY <1>1, <1>3
  <2> QED BY <1>1, <2>1 DEF Shown
<1>4. CASE f2.key = f.key /\ f2.amount = f.amount /\ (f.pending => f2.pending /\ f2.shown = f.shown)
  BY <1>1, <1>4 DEF Shown
<1> QED BY <1>2, <1>3, <1>4 DEF Later

\* A transfer takes the deduction it has shown, or none.
LEMMA DeductedShown ==
    ASSUME FormsOK, ops \in Nat, NEW u \in Users, FormShows(form[u], ops), Transfer(u)
    PROVE  Shown(form[u], Deducted(u), ops)
<1> DEFINE f == form[u]
           n == IF f.sent = "spot" THEN -f.amount ELSE f.amount - FeeOf(u)
<1>1. Deducted(u) = <<<<"transfer", f.key>>, n>>
  BY DEF Deducted
<1>2. Deducted(u)[1][2] = f.key /\ Deducted(u)[2] = n
  BY <1>1
<1>3. f.amount \in Nat /\ f.key \in Nat /\ f.key <= ops
      /\ (f.pending => f.shown = Percent(f.amount, 20))
  BY DEF FormsOK, FormShows
<1>4. FeeOf(u) = 0 \/ (f.pending /\ FeeOf(u) = Percent(f.amount, 20))
  BY DEF Transfer, Proceeds, FeeOf
<1>5. Percent(f.amount, 20) \in Int
  BY <1>3 DEF Percent
<1> HIDE DEF f
<1>6. n \in Int /\ (n > 0 /\ n < f.amount => f.pending /\ f.shown = f.amount - n)
  BY <1>3, <1>4, <1>5
<1> HIDE DEF n
<1> QED BY <1>2, <1>3, <1>6 DEF Shown, f

\* Every step keeps what forms have shown and documents say.
LEMMA FeeStep == WalletInv /\ UserFound /\ FeeInv /\ [Next]_vars => FeeInv'
<1> SUFFICES ASSUME WalletInv, UserFound, FeeInv, [Next]_vars PROVE FeeInv' OBVIOUS
<1>1. FormsOK /\ DepositInv /\ ops \in Nat /\ \A u \in Users : FormShows(form[u], ops)
  BY DEF WalletInv, FeeInv
<1>2. ops' \in Nat /\ ops <= ops'
  BY <1>1, OpsGrow
<1>3. \A u \in Users : FormShows(form'[u], ops') /\ Later(form[u], form'[u], ops)
  BY <1>1, FormMoves
<1>4. ASSUME NEW u \in Users, NEW e, e \in Transfers(doc'[u]) PROVE Shown(form[u], e, ops)
  <2>1. Remembered(u, e) \/ (Transfer(u) /\ e = Deducted(u))
    BY <1>4, TransferEntries
  <2> QED BY <1>1, <2>1, DeductedShown DEF FeeInv
<1>5. ASSUME NEW u \in Users, NEW e, Remembered(u, e)' PROVE Shown(form[u], e, ops)
  <2>1. CASE e \in Transfers(doc'[u])
    BY <1>4, <2>1
  <2>2. CASE open'.user # Nobody /\ e \in Transfers(open'.docs[u])
    <3>1. Remembered(u, e)
      BY <1>1, <2>2, Snapshots DEF Remembered
    <3> QED BY <3>1 DEF FeeInv
  <2>3. ASSUME NEW c \in Calls, call'[c].pc = "commit", u = Depositor,
               e \in Transfers(call'[c].wallet)
        PROVE  Shown(form[u], e, ops)
    <3>1. Remembered(u, e)
      BY <1>1, <2>3, Snapshots DEF Remembered
    <3> QED BY <3>1 DEF FeeInv
  <2> QED BY <1>5, <2>1, <2>2, <2>3 DEF Remembered
<1>6. ASSUME NEW u \in Users, NEW e, Remembered(u, e)' PROVE Shown(form'[u], e, ops')
  BY <1>1, <1>2, <1>3, <1>5, <1>6, StillShown
<1> QED BY <1>2, <1>3, <1>6 DEF FeeInv

\* Nothing is shown and nothing entered to begin with.
LEMMA FeeInit == Init => FeeInv
<1> SUFFICES ASSUME Init PROVE FeeInv OBVIOUS
<1> USE DEF Init, LedgersInit, NetworkInit, DepositsInit
<1>1. ops = 0 /\ \A u \in Users : FormShows(form[u], ops)
  BY DEF IdleForm, FormShows
<1>2. open.user = Nobody /\ \A c \in Calls : call[c].pc = "idle"
  BY DEF NoRegistration, IdleCall
<1>3. \A u \in Users : Transfers(doc[u]) = {}
  BY DEF NewDocument, Transfers
<1> QED BY <1>1, <1>2, <1>3 DEF FeeInv, Remembered

\* Whatever the user selects while a request runs, and whatever became of the
\* answers: a transfer takes no deduction but the one its dialog has shown.
THEOREM DeductionsAreShown == Spec => FeeWasShown
<1>1. WalletInv /\ UserFound /\ FeeInv /\ [Next]_vars
        => [\A u \in Users : \A e \in doc'[u].ledger \ doc[u].ledger :
              e[1] = <<"transfer", form[u].key>> /\ e[2] > 0 /\ e[2] < form[u].amount
                 => form[u].shown = form[u].amount - e[2]]_vars
  <2> SUFFICES ASSUME WalletInv, UserFound, FeeInv, [Next]_vars, NEW u \in Users,
                      NEW e \in doc'[u].ledger, e[1] = <<"transfer", form[u].key>>,
                      e[2] > 0, e[2] < form[u].amount
               PROVE  form[u].shown = form[u].amount - e[2]
    OBVIOUS
  <2>1. e \in Transfers(doc'[u]) /\ e[1][2] = form[u].key
    BY DEF Transfers
  <2>2. Remembered(u, e) \/ (Transfer(u) /\ e = Deducted(u))
    BY <2>1, TransferEntries
  <2>3. Shown(form[u], e, ops)
    BY <2>2, DeductedShown DEF FeeInv, WalletInv
  <2> QED BY <2>1, <2>3 DEF Shown
<1> QED BY <1>1, FeeInit, FeeStep, WalletInvariance, PTL DEF Spec, FeeWasShown
=============================================================================
