---------------------- MODULE WithdrawalRequestProofs ----------------------
(***************************************************************************)
(* Theorems about WithdrawalRequest for any number of calls, users and     *)
(* requests, any limits and any clock.                                     *)
(***************************************************************************)
EXTENDS WithdrawalRequest, SetSums

\* A job belongs to the automatic mode, a hash an administrator recorded to the
\* fallback mode: no withdrawal has both, and a row that does not exist neither.
ModeInv ==
    \A w \in Calls :
        /\ job[w] => processingMode[w] = "AUTOMATIC"
        /\ txHash[w] # NoHash => processingMode[w] = "ADMIN_FALLBACK"
        /\ status[w] = "none" => txHash[w] = NoHash

\* The inductive invariant.
IInv == TypeOK /\ ModeInv /\ OneWithdrawal /\ RejectedIsRefunded

\* A date computed from the clock is an integer.
LEMMA DateType ==
    ASSUME NEW u \in Users, NEW t \in Int
    PROVE  LocalDate(u, t) \in Int
<1>1. t + Offset[u] \in Int /\ DayLength \in Nat \ {0}
  BY ClockAssumption
<1> QED BY <1>1 DEF LocalDate

\* A first status is one of the statuses, QUEUED only in automatic mode.
LEMMA FirstStatusType ==
    ASSUME NEW c \in Calls
    PROVE  /\ FirstStatus(c) \in {"QUEUED", "PENDING_ADMIN_REVIEW", "MANUAL_REVIEW"}
           /\ FirstStatus(c) = "QUEUED" => automatic[c]
BY DEF FirstStatus

\* The inductive invariant holds at the start,
LEMMA InitInv == Init => IInv
<1> SUFFICES ASSUME Init PROVE IInv OBVIOUS
<1>1. TypeOK BY BalanceAssumption DEF Init, TypeOK, RowStatus, NoDate
<1>2. ModeInv /\ OneWithdrawal /\ RejectedIsRefunded
  BY DEF Init, ModeInv, OneWithdrawal, RejectedIsRefunded, Created
<1> QED BY <1>1, <1>2 DEF IInv

\* Steps that leave the rows alone keep the invariants over the rows.
LEMMA RowsFrame ==
    ASSUME ModeInv, OneWithdrawal, RejectedIsRefunded, UNCHANGED rows,
           \A h \in Hashes : outcome[h] = "reverted" => outcome'[h] = "reverted",
           TypeOK
    PROVE  ModeInv' /\ OneWithdrawal' /\ RejectedIsRefunded'
BY DEF ModeInv, OneWithdrawal, RejectedIsRefunded, Created, rows, wd, TypeOK

\* A refund of a withdrawal that was not refunded, by someone entitled to it.
LEMMA RefundKeeps ==
    ASSUME IInv, NEW w \in Calls, Refund(w), status[w] # "none",
           txHash[w] # NoHash => outcome[txHash[w]] = "reverted",
           UNCHANGED <<processingMode, userLocalDate, createdAt, txHash, job, moved, calls, env>>
    PROVE  IInv'
<1> USE DEF IInv, Refund, calls, locals, env
<1>1. TypeOK'
  <2>1. wallet' \in [Users -> Nat]
    <3>1. ReqUser[w] \in Users /\ ReqAmount[w] \in Nat /\ wallet \in [Users -> Nat]
      BY ArgumentAssumption DEF TypeOK
    <3>2. wallet[ReqUser[w]] + ReqAmount[w] \in Nat
      BY <3>1
    <3> QED BY <3>1, <3>2
  <2>2. status' \in [Calls -> RowStatus] /\ refunded' \in [Calls -> BOOLEAN]
    BY DEF TypeOK, RowStatus
  <2>3. \A v \in Calls :
          status'[v] \in {"BROADCASTED", "CONFIRMING"} => txHash'[v] \in Hashes \/ job'[v]
    BY DEF TypeOK
  <2> QED BY <2>1, <2>2, <2>3 DEF TypeOK
<1>2. ModeInv' BY DEF ModeInv, TypeOK
<1>3. OneWithdrawal'
  <2>1. Created' = Created BY DEF Created, TypeOK
  <2> QED BY <2>1 DEF OneWithdrawal
<1>4. RejectedIsRefunded' BY DEF RejectedIsRefunded, TypeOK
<1> QED BY <1>1, <1>2, <1>3, <1>4

\* A step that moves a withdrawal to another status but REJECTED; one that was
\* refunded only to CONFIRMING.
LEMMA MoveKeeps ==
    ASSUME IInv, NEW w \in Calls, NEW s \in RowStatus \ {"none", "REJECTED"},
           status[w] # "none", refunded[w] => s = "CONFIRMING",
           status' = [status EXCEPT ![w] = s],
           s \in {"BROADCASTED", "CONFIRMING"} => txHash[w] \in Hashes \/ job[w],
           UNCHANGED <<processingMode, userLocalDate, createdAt, txHash, job,
                       refunded, wallet, moved, calls, env>>
    PROVE  IInv'
<1> USE DEF IInv, calls, locals, env
<1>1. TypeOK' BY DEF TypeOK
<1>2. ModeInv' BY DEF ModeInv, TypeOK
<1>3. OneWithdrawal'
  <2>1. Created' = Created BY DEF Created, TypeOK
  <2> QED BY <2>1 DEF OneWithdrawal
<1>4. RejectedIsRefunded' BY DEF RejectedIsRefunded, TypeOK
<1> QED BY <1>1, <1>2, <1>3, <1>4

\* The invariant is inductive.
LEMMA NextInv == IInv /\ [Next]_vars => IInv'
<1> SUFFICES ASSUME IInv, [Next]_vars PROVE IInv' OBVIOUS
<1>1. ASSUME NEW c \in Calls, Begin(c) PROVE IInv'
  <2>1. ASSUME Duplicates(c) = {} PROVE TypeOK'
    BY <1>1, <2>1 DEF IInv, TypeOK, Begin, Goto, rows, wd, env, locals
  <2>2. ASSUME Duplicates(c) # {} PROVE TypeOK'
    <3>1. Answer(c, "ok") /\ UNCHANGED <<rows, env>>
      BY <1>1, <2>2 DEF Begin
    <3> QED BY <3>1 DEF IInv, TypeOK, Goto, Answer, NoDate, RowStatus, rows, wd, env
  <2>3. TypeOK' BY <2>1, <2>2
  <2> QED BY <2>3, <1>1, RowsFrame DEF IInv, Begin, env
<1>2. ASSUME NEW c \in Calls, ReadMode(c) PROVE IInv'
  <2>1. TypeOK'
    BY <1>2 DEF IInv, TypeOK, ReadMode, Goto, rows, wd, env
  <2> QED BY <2>1, <1>2, RowsFrame DEF IInv, ReadMode, env
<1>3. ASSUME NEW c \in Calls, CommitDuplicate(c) PROVE IInv'
  <2>1. PICK w \in Calls : result' = [result EXCEPT ![c] = w] /\ seen' = [seen EXCEPT ![c] = status[w]]
    BY <1>3 DEF CommitDuplicate, Duplicates, Created
  <2>2. TypeOK'
    BY <1>3, <2>1 DEF IInv, TypeOK, CommitDuplicate, Goto, rows, wd, env
  <2> QED BY <2>2, <1>3, RowsFrame DEF IInv, CommitDuplicate, env
<1>4. ASSUME NEW c \in Calls, CommitRefused(c) PROVE IInv'
  <2>1. TypeOK'
    BY <1>4 DEF IInv, TypeOK, CommitRefused, Goto, Answer, NoDate, RowStatus, rows, wd, env
  <2> QED BY <2>1, <1>4, RowsFrame DEF IInv, CommitRefused, env
<1>5. ASSUME NEW c \in Calls, CommitNew(c) PROVE IInv'
  <2>1. status[c] = "none"
    BY <1>5 DEF CommitNew, Duplicates, Created, SameRequest
  <2>2. Created' = Created \cup {c}
    BY <1>5, FirstStatusType DEF CommitNew, Created, IInv, TypeOK
  <2>3. userLocalDate' = [userLocalDate EXCEPT ![c] = LocalDate(ReqUser[c], taken[c])]
          /\ LocalDate(ReqUser[c], taken[c]) \in Int
    BY <1>5, DateType, ArgumentAssumption DEF CommitNew, IInv, TypeOK
  <2>4. wallet' \in [Users -> Nat]
    <3>1. ReqUser[c] \in Users /\ ReqAmount[c] \in Nat /\ wallet \in [Users -> Nat]
      BY ArgumentAssumption DEF IInv, TypeOK
    <3>2. wallet[ReqUser[c]] - ReqAmount[c] \in Nat
      BY <1>5, <3>1 DEF CommitNew, Covered
    <3> QED BY <1>5, <3>1, <3>2 DEF CommitNew
  <2>5. status' = [status EXCEPT ![c] = FirstStatus(c)] /\ FirstStatus(c) \in RowStatus
          /\ FirstStatus(c) \notin {"none", "REJECTED", "BROADCASTED", "CONFIRMING"}
    BY <1>5, FirstStatusType DEF CommitNew, RowStatus
  <2>6. UNCHANGED <<refunded, txHash, moved, automatic, taken, answer, env>>
    BY <1>5 DEF CommitNew
  <2>7. job' = [job EXCEPT ![c] = FirstStatus(c) = "QUEUED"]
          /\ processingMode' = [processingMode EXCEPT ![c] = IF automatic[c] THEN "AUTOMATIC" ELSE "ADMIN_FALLBACK"]
    BY <1>5 DEF CommitNew
  <2>8. TypeOK'
    <3>1. createdAt' \in [Calls -> Int] /\ result' \in [Calls -> Calls \cup {NoCall}]
            /\ pc' \in [Calls -> {"begin", "mode", "commit", "notify", "answered"}]
      BY <1>5 DEF CommitNew, Goto, IInv, TypeOK
    <3>2. seen' \in [Calls -> RowStatus]
      BY <1>5, <2>5 DEF CommitNew, IInv, TypeOK
    <3>3. job' \in [Calls -> BOOLEAN]
      BY <2>7 DEF IInv, TypeOK
    <3>4. processingMode' \in [Calls -> {"none", "AUTOMATIC", "ADMIN_FALLBACK"}]
      BY <2>7 DEF IInv, TypeOK
    <3>5. \A w \in Calls :
            status'[w] \in {"BROADCASTED", "CONFIRMING"} => txHash'[w] \in Hashes \/ job'[w]
      BY <2>5, <2>6, <2>7 DEF IInv, TypeOK
    <3> QED BY <3>1, <3>2, <3>3, <3>4, <3>5, <2>3, <2>4, <2>5, <2>6 DEF IInv, TypeOK, env
  <2>9. ModeInv'
    <3>1. txHash[c] = NoHash
      BY <2>1 DEF IInv, ModeInv
    <3>2. job'[c] => processingMode'[c] = "AUTOMATIC"
      BY <2>7, FirstStatusType DEF IInv, TypeOK
    <3>3. \A w \in Calls \ {c} : UNCHANGED <<job[w], processingMode[w], status[w]>>
      BY <2>5, <2>7 DEF IInv, TypeOK
    <3> QED BY <2>6, <3>1, <3>2, <3>3 DEF IInv, ModeInv
  <2>10. OneWithdrawal'
    <3>1. \A w \in Created : w # c => userLocalDate'[w] = userLocalDate[w]
      BY <2>3 DEF IInv, TypeOK, Created
    <3>2. userLocalDate'[c] = LocalDate(ReqUser[c], taken[c])
      BY <2>3 DEF IInv, TypeOK
    <3>3. \A w \in Created : ~SameRequest(w, c) /\ w # c
      BY <1>5, <2>1 DEF CommitNew, Duplicates, Created
    <3>4. \A w \in Created : ReqUser[w] = ReqUser[c] =>
            userLocalDate[w] # LocalDate(ReqUser[c], taken[c])
      BY <1>5 DEF CommitNew, DailyKeyTaken
    <3> QED BY <2>2, <3>1, <3>2, <3>3, <3>4 DEF IInv, OneWithdrawal, SameRequest
  <2>11. RejectedIsRefunded'
    BY <2>1, <2>5, <2>6 DEF IInv, RejectedIsRefunded, TypeOK, env
  <2> QED BY <2>8, <2>9, <2>10, <2>11 DEF IInv
<1>6. ASSUME NEW c \in Calls, Notify(c) PROVE IInv'
  <2>1. TypeOK'
    BY <1>6 DEF IInv, TypeOK, Notify, Goto, Answer, NoDate, RowStatus, rows, wd, env
  <2> QED BY <2>1, <1>6, RowsFrame DEF IInv, Notify, env
<1>7. ASSUME NEW c \in Calls, CallLost(c) PROVE IInv'
  <2>1. TypeOK'
    BY <1>7 DEF IInv, TypeOK, CallLost, Event, Goto, Answer, NoDate, RowStatus, rows, wd
  <2> QED BY <2>1, <1>7, RowsFrame DEF IInv, CallLost
<1>8. ASSUME NEW w \in Calls, NEW h \in Hashes, NEW target \in {"BROADCASTED", "COMPLETED"},
             approveAdminWithdrawal(w, h, target)
      PROVE IInv'
  <2>1. /\ status[w] = "PENDING_ADMIN_REVIEW" /\ processingMode[w] = "ADMIN_FALLBACK"
        /\ status' = [status EXCEPT ![w] = target]
        /\ txHash' = [txHash EXCEPT ![w] = h]
        /\ UNCHANGED <<processingMode, userLocalDate, createdAt, job, refunded, wallet, moved, calls, env>>
    BY <1>8 DEF approveAdminWithdrawal, AwaitsReview
  <2>2. TypeOK' BY <2>1 DEF IInv, TypeOK, RowStatus, calls, locals, env
  <2>3. ModeInv' BY <2>1 DEF IInv, ModeInv, TypeOK
  <2>4. OneWithdrawal'
    <3>1. Created' = Created BY <2>1 DEF Created, IInv, TypeOK
    <3> QED BY <3>1, <2>1 DEF IInv, OneWithdrawal
  <2>5. RejectedIsRefunded'
    BY <2>1, NoneAssumption DEF IInv, RejectedIsRefunded, TypeOK, env
  <2> QED BY <2>2, <2>3, <2>4, <2>5 DEF IInv
<1>9. ASSUME NEW w \in Calls, rejectAdminWithdrawal(w) PROVE IInv'
  BY <1>9, RefundKeeps DEF rejectAdminWithdrawal, AwaitsReview
<1>10. ASSUME NEW w \in Calls, Settle(w) PROVE IInv'
  <2>1. CASE Refund(w) /\ outcome[txHash[w]] = "reverted"
    BY <1>10, <2>1, RefundKeeps DEF Settle
  <2>2. CASE /\ outcome[txHash[w]] # "reverted"
             /\ \E s \in {"CONFIRMING", "COMPLETED"} : status' = [status EXCEPT ![w] = s]
             /\ UNCHANGED <<refunded, wallet>>
    <3>1. PICK s \in {"CONFIRMING", "COMPLETED"} :
            status' = [status EXCEPT ![w] = s] /\ UNCHANGED <<refunded, wallet>>
      BY <2>2
    <3>2. s \in RowStatus \ {"none", "REJECTED"} /\ txHash[w] \in Hashes /\ status[w] # "none"
      BY <1>10 DEF Settle, RowStatus, IInv, TypeOK
    <3>3. refunded[w] => s = "CONFIRMING"
      BY <1>10, <2>2, <3>1, <3>2 DEF Settle, IInv, RejectedIsRefunded
    <3> QED BY <1>10, <3>1, <3>2, <3>3, MoveKeeps DEF Settle
  <2> QED BY <1>10, <2>1, <2>2 DEF Settle
<1>11. ASSUME NEW w \in Calls, Payout(w) PROVE IInv'
  <2>1. txHash[w] = NoHash
    BY <1>11 DEF Payout, IInv, ModeInv
  <2>2. CASE Refund(w)
    BY <1>11, <2>1, <2>2, RefundKeeps DEF Payout
  <2>3. CASE \E s \in {"COMPLETED", "MANUAL_REVIEW"} :
            status' = [status EXCEPT ![w] = s] /\ UNCHANGED <<refunded, wallet>>
    <3>1. ~refunded[w]
      BY <1>11 DEF Payout, IInv, RejectedIsRefunded
    <3> QED BY <1>11, <2>3, <3>1, MoveKeeps DEF Payout, RowStatus
  <2> QED BY <1>11, <2>2, <2>3 DEF Payout
<1>16. ASSUME NEW w \in Calls, SetConfirming(w) PROVE IInv'
  <2>1. txHash[w] \in Hashes \/ job[w]
    BY <1>16 DEF SetConfirming, IInv, TypeOK
  <2>2. "CONFIRMING" \in RowStatus \ {"none", "REJECTED"}
    BY DEF RowStatus
  <2> QED BY <1>16, <2>1, <2>2, MoveKeeps DEF SetConfirming
<1>12. ASSUME Tick \/ Heartbeat \/ \E u \in Users : Suspend(u) PROVE IInv'
  <2>1. ASSUME Tick PROVE TypeOK'
    BY <2>1 DEF IInv, TypeOK, Tick, rows, wd, calls, locals
  <2>2. ASSUME Heartbeat PROVE TypeOK'
    BY <2>2 DEF IInv, TypeOK, Heartbeat, Event, rows, wd, calls, locals
  <2>3. ASSUME NEW u \in Users, Suspend(u) PROVE TypeOK'
    BY <2>3 DEF IInv, TypeOK, Suspend, Event, rows, wd, calls, locals
  <2>4. TypeOK' BY <1>12, <2>1, <2>2, <2>3
  <2> QED BY <2>4, <1>12, RowsFrame DEF IInv, Tick, Heartbeat, Suspend
<1>13. ASSUME NEW u \in Users, Transfer(u) PROVE IInv'
  <2>1. PICK sum \in {-1, 1} : /\ wallet[u] + sum >= 0
                               /\ wallet' = [wallet EXCEPT ![u] = @ + sum]
                               /\ moved' = [moved EXCEPT ![u] = @ + sum]
    BY <1>13 DEF Transfer
  <2>2. UNCHANGED <<wd, job, refunded, calls, now, signer, suspended, outcome>> /\ events' \in Nat
    BY <1>13 DEF Transfer, Event, IInv, TypeOK
  <2>3. TypeOK'
    BY <2>1, <2>2 DEF IInv, TypeOK, wd, calls, locals
  <2>4. ModeInv' /\ RejectedIsRefunded' /\ OneWithdrawal'
    BY <2>2 DEF IInv, ModeInv, RejectedIsRefunded, OneWithdrawal, Created, wd
  <2> QED BY <2>3, <2>4 DEF IInv
<1>14. ASSUME NEW h \in Hashes, Execute(h) PROVE IInv'
  <2>1. TypeOK'
    BY <1>14 DEF IInv, TypeOK, Execute, rows, wd, calls, locals
  <2>2. \A g \in Hashes : outcome[g] = "reverted" => outcome'[g] = "reverted"
    BY <1>14 DEF Execute, IInv, TypeOK
  <2> QED BY <2>1, <2>2, <1>14, RowsFrame DEF IInv, Execute
<1>15. CASE UNCHANGED vars
  <2>1. TypeOK'
    BY <1>15 DEF IInv, TypeOK, vars, rows, wd, calls, locals, env
  <2> QED BY <2>1, <1>15, RowsFrame DEF IInv, vars, env
<1> QED BY <1>1, <1>2, <1>3, <1>4, <1>5, <1>6, <1>7, <1>8, <1>9, <1>10, <1>11, <1>12,
           <1>13, <1>14, <1>15, <1>16 DEF Next, createWithdrawal, Review

\* and in every state.
LEMMA Invariance == Spec => []IInv
BY InitInv, NextInv, PTL DEF Spec

\* Type correctness.
THEOREM TypeCorrect == Spec => []TypeOK
BY Invariance, PTL DEF IInv

\* One withdrawal per request and per user and local day.
THEOREM OnePerRequestAndDay == Spec => []OneWithdrawal
BY Invariance, PTL DEF IInv

\* A withdrawal of the fallback mode never gets a job.
THEOREM NeverAdopted == Spec => []FallbackHasNoJob
<1>1. IInv => FallbackHasNoJob BY DEF IInv, ModeInv, FallbackHasNoJob, Created
<1> QED BY <1>1, Invariance, PTL

\* A withdrawal shown as REJECTED has its money back, and one that has it back is
\* never shown as paid nor still able to pay, also after the operator's script has
\* moved it on.
THEOREM RefundsRejectedOnly == Spec => []RejectedIsRefunded
BY Invariance, PTL DEF IInv

-----------------------------------------------------------------------------
ContractStep ==
    \/ Contract!Next
    \/ UNCHANGED <<wallet, moved>> /\ \A w \in Calls : Phase(w)' = Phase(w)

\* The refund of a held withdrawal is the contract's Refund.
LEMMA RefundMaps ==
    ASSUME IInv, NEW w \in Calls, Refund(w), Phase(w) = "held", ~refunded[w], UNCHANGED moved
    PROVE  ContractStep
<1>1. status' = [status EXCEPT ![w] = "REJECTED"] /\ refunded' = [refunded EXCEPT ![w] = TRUE]
        /\ wallet' = [wallet EXCEPT ![ReqUser[w]] = @ + ReqAmount[w]]
  BY DEF Refund
<1>2. Phase(w)' = "refunded" /\ \A v \in Calls \ {w} : Phase(v)' = Phase(v)
  BY <1>1 DEF Phase, IInv, TypeOK
<1>3. Contract!Refund(w)
  BY <1>1, <1>2 DEF Contract!Refund
<1> QED BY <1>3 DEF ContractStep, Contract!Next

\* A new status of a held withdrawal that returns no money: paid, or still held.
LEMMA StatusMaps ==
    ASSUME IInv, NEW w \in Calls, Phase(w) = "held", ~refunded[w],
           NEW s \in RowStatus \ {"none", "REJECTED"},
           status' = [status EXCEPT ![w] = s], UNCHANGED <<refunded, wallet, moved>>
    PROVE  ContractStep
<1>1. \A v \in Calls \ {w} : Phase(v)' = Phase(v)
  BY DEF Phase, IInv, TypeOK
<1>2. CASE s = "COMPLETED"
  <2>1. Phase(w)' = "paid" BY <1>2 DEF Phase, IInv, TypeOK
  <2>2. Contract!Pay(w) BY <1>1, <2>1 DEF Contract!Pay
  <2> QED BY <2>2 DEF ContractStep, Contract!Next
<1>3. CASE s # "COMPLETED"
  <2>1. Phase(w)' = "held" BY <1>3 DEF Phase, IInv, TypeOK
  <2> QED BY <1>1, <2>1 DEF ContractStep
<1> QED BY <1>2, <1>3

\* Every step is a step of the contract or a stutter.
LEMMA StepsKeepContract == IInv /\ [Next]_vars => ContractStep
<1> SUFFICES ASSUME IInv, [Next]_vars PROVE ContractStep OBVIOUS
<1>1. ASSUME UNCHANGED rows PROVE ContractStep
  BY <1>1 DEF ContractStep, Phase, rows, wd
<1>2. ASSUME NEW c \in Calls, CommitNew(c) PROVE ContractStep
  <2>1. status[c] = "none"
    BY <1>2 DEF CommitNew, Duplicates, Created, SameRequest
  <2>2. status' = [status EXCEPT ![c] = FirstStatus(c)] /\ UNCHANGED moved
          /\ wallet' = [wallet EXCEPT ![ReqUser[c]] = @ - ReqAmount[c]]
          /\ ReqAmount[c] <= wallet[ReqUser[c]]
    BY <1>2 DEF CommitNew, Covered
  <2>3. ~refunded[c] /\ refunded' = refunded
    BY <1>2, <2>1 DEF CommitNew, IInv, RejectedIsRefunded
  <2>7. Phase(c) = "absent" /\ Phase(c)' = "held"
    BY <2>1, <2>2, <2>3, FirstStatusType DEF Phase, IInv, TypeOK
  <2>4. \A v \in Calls \ {c} : Phase(v)' = Phase(v)
    BY <2>2, <2>3 DEF Phase, IInv, TypeOK
  <2>5. Contract!Hold(c)
    BY <2>2, <2>4, <2>7 DEF Contract!Hold
  <2> QED BY <2>5 DEF ContractStep, Contract!Next
<1>3. ASSUME NEW w \in Calls, NEW h \in Hashes, NEW target \in {"BROADCASTED", "COMPLETED"},
             approveAdminWithdrawal(w, h, target)
      PROVE ContractStep
  <2>1. Phase(w) = "held"
    BY <1>3 DEF approveAdminWithdrawal, AwaitsReview, Phase, IInv, RejectedIsRefunded
  <2>2. ~refunded[w]
    BY <1>3 DEF approveAdminWithdrawal, AwaitsReview, IInv, RejectedIsRefunded
  <2> QED BY <1>3, <2>1, <2>2, StatusMaps DEF approveAdminWithdrawal, RowStatus
<1>4. ASSUME NEW w \in Calls, rejectAdminWithdrawal(w) PROVE ContractStep
  <2>1. Phase(w) = "held" /\ ~refunded[w]
    BY <1>4 DEF rejectAdminWithdrawal, AwaitsReview, Phase, IInv, RejectedIsRefunded
  <2> QED BY <1>4, <2>1, RefundMaps DEF rejectAdminWithdrawal
<1>5. ASSUME NEW w \in Calls, Settle(w) PROVE ContractStep
  <2>1. UNCHANGED moved /\ status[w] # "none" /\ txHash[w] # NoHash
        /\ (~refunded[w] => Phase(w) = "held")
    BY <1>5 DEF Settle, Phase
  <2>2. CASE Refund(w) /\ ~refunded[w]
    BY <2>1, <2>2, RefundMaps
  <2>3. CASE Refund(w) /\ refunded[w]
    BY <2>1, <2>3 DEF Refund, ContractStep, Phase
  <2>4. CASE /\ outcome[txHash[w]] # "reverted"
             /\ \E s \in {"CONFIRMING", "COMPLETED"} : status' = [status EXCEPT ![w] = s]
             /\ UNCHANGED <<refunded, wallet>>
    <3>1. PICK s \in {"CONFIRMING", "COMPLETED"} : status' = [status EXCEPT ![w] = s]
      BY <2>4
    <3>2. s \in RowStatus \ {"none", "REJECTED"} /\ ~refunded[w]
      BY <2>1, <2>4 DEF RowStatus, IInv, RejectedIsRefunded
    <3> QED BY <2>1, <2>4, <3>1, <3>2, StatusMaps
  <2> QED BY <1>5, <2>2, <2>3, <2>4 DEF Settle
<1>10. ASSUME NEW w \in Calls, SetConfirming(w) PROVE ContractStep
  <2>1. refunded[w] /\ UNCHANGED <<refunded, wallet, moved>> /\ status[w] # "none"
        /\ status' = [status EXCEPT ![w] = "CONFIRMING"]
    BY <1>10 DEF SetConfirming, IInv, RejectedIsRefunded
  <2>2. status[w] = "REJECTED"
    BY <1>10 DEF SetConfirming
  <2>3. Phase(w) = "refunded" /\ Phase(w)' = "refunded"
    BY <2>1, <2>2 DEF Phase, IInv, TypeOK
  <2>4. \A v \in Calls \ {w} : Phase(v)' = Phase(v)
    BY <2>1 DEF Phase, IInv, TypeOK
  <2> QED BY <2>1, <2>3, <2>4 DEF ContractStep
<1>6. ASSUME NEW w \in Calls, Payout(w) PROVE ContractStep
  <2>1. Phase(w) = "held" /\ ~refunded[w]
    BY <1>6 DEF Payout, Phase, IInv, RejectedIsRefunded
  <2>2. CASE Refund(w)
    BY <1>6, <2>1, <2>2, RefundMaps DEF Payout
  <2>3. CASE \E s \in {"COMPLETED", "MANUAL_REVIEW"} :
            status' = [status EXCEPT ![w] = s] /\ UNCHANGED <<refunded, wallet>>
    <3>1. PICK s \in {"COMPLETED", "MANUAL_REVIEW"} :
            status' = [status EXCEPT ![w] = s] /\ UNCHANGED <<refunded, wallet>>
      BY <2>3
    <3>2. s \in RowStatus \ {"none", "REJECTED"} /\ UNCHANGED moved
      BY <1>6 DEF Payout, RowStatus
    <3> QED BY <3>1, <3>2, <2>1, StatusMaps
  <2> QED BY <1>6, <2>2, <2>3 DEF Payout
<1>7. ASSUME NEW u \in Users, Transfer(u) PROVE ContractStep
  <2>1. PICK sum \in {-1, 1} : /\ wallet[u] + sum >= 0
                               /\ wallet' = [wallet EXCEPT ![u] = @ + sum]
                               /\ moved' = [moved EXCEPT ![u] = @ + sum]
    BY <1>7 DEF Transfer
  <2>2. \A w \in Calls : Phase(w)' = Phase(w)
    BY <1>7 DEF Transfer, wd, Phase
  <2>3. wallet'[u] = wallet[u] + sum /\ wallet'[u] \in Nat /\ moved'[u] = moved[u] + sum
    BY <2>1 DEF IInv, TypeOK
  <2>4. wallet' = [wallet EXCEPT ![u] = @ + moved'[u] - moved[u]]
    <3>1. wallet[u] \in Nat /\ moved[u] \in Int BY DEF IInv, TypeOK
    <3>2. wallet[u] + moved'[u] - moved[u] = wallet[u] + sum BY <2>3, <3>1
    <3> QED BY <2>1, <3>2
  <2>5. moved' = [moved EXCEPT ![u] = moved'[u]]
    BY <2>1 DEF IInv, TypeOK
  <2>6. Contract!Move(u)
    BY <2>2, <2>3, <2>4, <2>5 DEF Contract!Move
  <2> QED BY <2>6 DEF ContractStep, Contract!Next
<1>8. ASSUME NEW c \in Calls, Begin(c) \/ ReadMode(c) \/ CommitDuplicate(c)
             \/ CommitRefused(c) \/ Notify(c) \/ CallLost(c)
      PROVE UNCHANGED rows
  BY <1>8 DEF Begin, ReadMode, CommitDuplicate, CommitRefused, Notify, CallLost
<1>9. ASSUME Tick \/ Heartbeat \/ (\E u \in Users : Suspend(u))
             \/ (\E h \in Hashes : Execute(h)) \/ UNCHANGED vars
      PROVE UNCHANGED rows
  BY <1>9 DEF Tick, Heartbeat, Suspend, Execute, vars
<1> QED BY <1>1, <1>2, <1>3, <1>4, <1>5, <1>6, <1>7, <1>8, <1>9, <1>10
    DEF Next, createWithdrawal, Review

\* Submission and review implement the abstract withdrawal contract.
THEOREM HonoursContract == Spec => ImplementsContract
<1>1. Init => Contract!Init
  <2> SUFFICES ASSUME Init PROVE Contract!Init OBVIOUS
  <2>1. \A w \in Calls : Phase(w) = "absent"
    BY DEF Init, Phase
  <2>2. wallet \in [Users -> Nat] /\ moved = [u \in Users |-> 0]
    BY BalanceAssumption DEF Init
  <2> QED BY <2>1, <2>2 DEF Contract!Init
<1>2. IInv /\ [Next]_vars => [Contract!Next]_(Contract!contractVars)
  BY StepsKeepContract DEF ContractStep, Contract!contractVars
<1> QED BY <1>1, <1>2, Invariance, PTL DEF Spec, ImplementsContract, Contract!Spec

-----------------------------------------------------------------------------
(* The daily limits.  A commit compares its amount with sums over every row of *)
(* the day; what it puts on the queue is part of them, and a refund only       *)
(* lowers the user's own sum.                                                  *)

QueuedOn(day) == {w \in Created : job[w] /\ UtcDay(createdAt[w]) = day}
OwnQueuedOn(day, u) == {w \in QueuedOn(day) : ReqUser[w] = u /\ ~refunded[w]}

\* Every day, past or to come, is within its limits, and the rows can be counted.
LimitInv ==
    /\ IsFiniteSet(Created)
    /\ \A day \in Int :
        /\ SumFunctionOnSet(ReqAmount, QueuedOn(day)) <= MaxGlobalDaily
        /\ \A u \in Users : SumFunctionOnSet(ReqAmount, OwnQueuedOn(day, u)) <= MaxPerUserDaily

\* A sum over a part of the rows is a number, smaller than the whole.
LEMMA AmountSum ==
    ASSUME IsFiniteSet(Created), NEW S \in SUBSET Created, NEW T \in SUBSET S
    PROVE  /\ IsFiniteSet(S) /\ SumFunctionOnSet(ReqAmount, S) \in Nat
           /\ SumFunctionOnSet(ReqAmount, T) <= SumFunctionOnSet(ReqAmount, S)
<1>1. IsFiniteSet(S)
  BY FS_Subset
<1>2. \A w \in S : ReqAmount[w] \in Nat
  BY ArgumentAssumption DEF Created
<1> QED BY <1>1, <1>2, SumNonNegative, SumMonotone

\* A withdrawal of the day more adds its amount.
LEMMA AmountAdded ==
    ASSUME IsFiniteSet(Created), NEW S \in SUBSET Created, NEW c \in Calls \ Created
    PROVE  SumFunctionOnSet(ReqAmount, S \cup {c}) = SumFunctionOnSet(ReqAmount, S) + ReqAmount[c]
<1>1. IsFiniteSet(S) /\ c \notin S
  BY FS_Subset
<1>2. ReqAmount[c] \in Int /\ \A w \in S : ReqAmount[w] \in Int
  BY ArgumentAssumption DEF Created
<1> QED BY <1>1, <1>2, SumAdd

\* Nothing is queued at the start.
LEMMA LimitStart == Init => LimitInv
<1> SUFFICES ASSUME Init PROVE LimitInv OBVIOUS
<1>1. Created = {}
  BY DEF Init, Created
<1>2. \A day \in Int : QueuedOn(day) = {} /\ \A u \in Users : OwnQueuedOn(day, u) = {}
  BY <1>1 DEF QueuedOn, OwnQueuedOn
<1>3. SumFunctionOnSet(ReqAmount, {}) = 0
  BY SumEmpty
<1> QED BY <1>1, <1>2, <1>3, FS_EmptySet, LimitAssumption DEF LimitInv

\* No new row, and no refund is taken back.
LEMMA LimitFrame ==
    ASSUME LimitInv, Created' = Created, UNCHANGED <<job, createdAt>>,
           \A w \in Created : refunded[w] => refunded'[w]
    PROVE  LimitInv'
<1>1. \A day \in Int : QueuedOn(day)' = QueuedOn(day)
  BY DEF QueuedOn, UtcDay
<1>2. ASSUME NEW day \in Int, NEW u \in Users
      PROVE  SumFunctionOnSet(ReqAmount, OwnQueuedOn(day, u)') <= MaxPerUserDaily
  <2>1. OwnQueuedOn(day, u)' \subseteq OwnQueuedOn(day, u) /\ OwnQueuedOn(day, u) \subseteq Created
    BY <1>1 DEF OwnQueuedOn, QueuedOn
  <2> DEFINE old == OwnQueuedOn(day, u)
             new == OwnQueuedOn(day, u)'
  <2>2. SumFunctionOnSet(ReqAmount, old) <= MaxPerUserDaily /\ IsFiniteSet(Created)
    BY DEF LimitInv
  <2>3. new \subseteq old /\ old \subseteq Created
    BY <2>1
  <2> HIDE DEF old, new
  <2>4. /\ SumFunctionOnSet(ReqAmount, new) <= SumFunctionOnSet(ReqAmount, old)
        /\ SumFunctionOnSet(ReqAmount, old) \in Nat
    BY <2>2, <2>3, AmountSum
  <2>5. SumFunctionOnSet(ReqAmount, new) \in Nat
    BY <2>2, <2>3, AmountSum
  <2>6. SumFunctionOnSet(ReqAmount, new) <= MaxPerUserDaily
    BY <2>2, <2>4, <2>5, LimitAssumption
  <2> QED BY <2>6 DEF new
<1> QED BY <1>1, <1>2 DEF LimitInv

\* A commit puts a withdrawal on the queue only if the day's sums leave room.
LEMMA LimitCommit ==
    ASSUME TypeOK, RejectedIsRefunded, LimitInv, NEW c \in Calls, CommitNew(c)
    PROVE  LimitInv'
<1> DEFINE today == UtcDay(now)
<1>1. status[c] = "none" /\ c \notin Created
  BY DEF CommitNew, Duplicates, Created, SameRequest
<1>2. /\ status' = [status EXCEPT ![c] = FirstStatus(c)]
      /\ createdAt' = [createdAt EXCEPT ![c] = now]
      /\ job' = [job EXCEPT ![c] = FirstStatus(c) = "QUEUED"]
  BY DEF CommitNew
<1>3. Created' = Created \cup {c} /\ \A w \in Created : status'[w] = status[w]
  BY <1>1, <1>2, FirstStatusType DEF Created, TypeOK
<1>4. IsFiniteSet(Created) /\ IsFiniteSet(Created')
  BY <1>3, FS_AddElement DEF LimitInv
<1>5. \A w \in Created : job'[w] = job[w] /\ createdAt'[w] = createdAt[w]
  BY <1>1, <1>2 DEF TypeOK, Created
<1>6. createdAt'[c] = now /\ (job'[c] <=> FirstStatus(c) = "QUEUED")
  BY <1>2 DEF TypeOK
<1>7. \A day \in Int : QueuedOn(day)' =
        IF day = today /\ FirstStatus(c) = "QUEUED" THEN QueuedOn(day) \cup {c} ELSE QueuedOn(day)
  BY <1>3, <1>5, <1>6 DEF QueuedOn, UtcDay
<1>8. ~refunded'[c] /\ refunded' = refunded
  BY <1>1 DEF CommitNew, RejectedIsRefunded
<1>9. \A day \in Int, u \in Users : OwnQueuedOn(day, u)' =
        IF day = today /\ FirstStatus(c) = "QUEUED" /\ ReqUser[c] = u
        THEN OwnQueuedOn(day, u) \cup {c} ELSE OwnQueuedOn(day, u)
  BY <1>1, <1>3, <1>7, <1>8 DEF OwnQueuedOn, QueuedOn
<1>10. ASSUME FirstStatus(c) = "QUEUED"
       PROVE  /\ SumFunctionOnSet(ReqAmount, QueuedOn(today) \cup {c}) <= MaxGlobalDaily
              /\ SumFunctionOnSet(ReqAmount, OwnQueuedOn(today, ReqUser[c]) \cup {c}) <= MaxPerUserDaily
  <2> DEFINE a == ReqAmount[c]
             all == SumFunctionOnSet(ReqAmount, QueuedOn(today))
             own == SumFunctionOnSet(ReqAmount, OwnQueuedOn(today, ReqUser[c]))
             mine == {w \in CreatedToday : ReqUser[w] = ReqUser[c] /\ status[w] # "REJECTED"}
  <2>1. UserDaily(ReqUser[c]) + a <= MaxPerUserDaily /\ GlobalDaily + a <= MaxGlobalDaily
    <3>1. ~OverLimit(c)
      BY <1>10 DEF FirstStatus
    <3>2. a \in Nat
      BY ArgumentAssumption
    <3>3. CreatedToday \in SUBSET Created /\ mine \in SUBSET Created
      BY DEF CreatedToday
    <3>4. GlobalDaily \in Nat /\ UserDaily(ReqUser[c]) \in Nat
      BY <3>3, <1>4, AmountSum DEF GlobalDaily, UserDaily
    <3> HIDE DEF a
    <3>5. ~(UserDaily(ReqUser[c]) + a > MaxPerUserDaily) /\ ~(GlobalDaily + a > MaxGlobalDaily)
      BY <3>1 DEF OverLimit, a
    <3> QED BY <3>2, <3>4, <3>5, LimitAssumption
  <2>2. /\ QueuedOn(today) \subseteq CreatedToday /\ CreatedToday \subseteq Created
        /\ OwnQueuedOn(today, ReqUser[c]) \subseteq mine /\ mine \subseteq Created
    BY DEF QueuedOn, OwnQueuedOn, CreatedToday, Created, RejectedIsRefunded
  <2>3. all \in Nat /\ GlobalDaily \in Nat /\ all <= GlobalDaily
    BY <2>2, <1>4, AmountSum DEF GlobalDaily
  <2>4. own \in Nat /\ UserDaily(ReqUser[c]) \in Nat /\ own <= UserDaily(ReqUser[c])
    BY <2>2, <1>4, AmountSum DEF UserDaily
  <2>5. /\ SumFunctionOnSet(ReqAmount, QueuedOn(today) \cup {c}) = all + a
        /\ SumFunctionOnSet(ReqAmount, OwnQueuedOn(today, ReqUser[c]) \cup {c}) = own + a
    BY <1>1, <1>4, AmountAdded DEF QueuedOn, OwnQueuedOn
  <2>6. a \in Nat
    BY ArgumentAssumption
  <2>7. all + a <= MaxGlobalDaily
    <3> HIDE DEF all, a
    <3> QED BY <2>1, <2>3, <2>6, LimitAssumption
  <2>8. own + a <= MaxPerUserDaily
    <3> HIDE DEF own, a
    <3> QED BY <2>1, <2>4, <2>6, LimitAssumption
  <2> HIDE DEF all, own, a
  <2> QED BY <2>5, <2>7, <2>8
<1>11. ASSUME NEW day \in Int
       PROVE  /\ SumFunctionOnSet(ReqAmount, QueuedOn(day)') <= MaxGlobalDaily
              /\ \A u \in Users : SumFunctionOnSet(ReqAmount, OwnQueuedOn(day, u)') <= MaxPerUserDaily
  <2> HIDE DEF today
  <2>1. SumFunctionOnSet(ReqAmount, QueuedOn(day)') <= MaxGlobalDaily
    <3>1. CASE day = today /\ FirstStatus(c) = "QUEUED"
      <4>1. QueuedOn(day)' = QueuedOn(day) \cup {c}
        BY <1>7, <3>1
      <4> QED BY <4>1, <3>1, <1>10
    <3>2. CASE ~(day = today /\ FirstStatus(c) = "QUEUED")
      <4>1. QueuedOn(day)' = QueuedOn(day)
        BY <1>7, <3>2
      <4> QED BY <4>1 DEF LimitInv
    <3> QED BY <3>1, <3>2
  <2>2. ASSUME NEW u \in Users
        PROVE  SumFunctionOnSet(ReqAmount, OwnQueuedOn(day, u)') <= MaxPerUserDaily
    <3>1. CASE day = today /\ FirstStatus(c) = "QUEUED" /\ ReqUser[c] = u
      <4>1. OwnQueuedOn(day, u)' = OwnQueuedOn(day, u) \cup {c}
        BY <1>9, <3>1
      <4> QED BY <4>1, <3>1, <1>10
    <3>2. CASE ~(day = today /\ FirstStatus(c) = "QUEUED" /\ ReqUser[c] = u)
      <4>1. OwnQueuedOn(day, u)' = OwnQueuedOn(day, u)
        BY <1>9, <3>2
      <4> QED BY <4>1 DEF LimitInv
    <3> QED BY <3>1, <3>2
  <2> QED BY <2>1, <2>2
<1> QED BY <1>4, <1>11 DEF LimitInv

\* A commit adds to the day's sums only what it has checked against the limits.
LEMMA LimitKept == IInv /\ LimitInv /\ [Next]_vars => LimitInv'
<1> SUFFICES ASSUME IInv, LimitInv, [Next]_vars PROVE LimitInv' OBVIOUS
<1>1. ASSUME UNCHANGED <<status, job, createdAt, refunded>> PROVE LimitInv'
  BY <1>1, LimitFrame DEF Created
<1>2. ASSUME NEW w \in Calls, NEW s \in RowStatus \ {"none"}, status[w] # "none",
             status' \in {status, [status EXCEPT ![w] = s]},
             refunded' \in {refunded, [refunded EXCEPT ![w] = TRUE]}, UNCHANGED <<job, createdAt>>
      PROVE  LimitInv'
  <2>1. Created' = Created /\ \A v \in Created : refunded[v] => refunded'[v]
    BY <1>2 DEF Created, IInv, TypeOK
  <2> QED BY <1>2, <2>1, LimitFrame
<1>3. ASSUME NEW c \in Calls, Begin(c) \/ ReadMode(c) \/ CommitDuplicate(c)
             \/ CommitRefused(c) \/ Notify(c) \/ CallLost(c)
      PROVE LimitInv'
  <2>1. UNCHANGED <<status, job, createdAt, refunded>>
    BY <1>3 DEF Begin, ReadMode, CommitDuplicate, CommitRefused, Notify, CallLost, rows, wd
  <2> QED BY <2>1, <1>1
<1>4. ASSUME NEW c \in Calls, CommitNew(c) PROVE LimitInv'
  BY <1>4, LimitCommit DEF IInv
<1>5. ASSUME NEW w \in Calls, Review(w) PROVE LimitInv'
  <2>1. UNCHANGED <<job, createdAt>> /\ status[w] # "none"
    BY <1>5 DEF Review, approveAdminWithdrawal, rejectAdminWithdrawal, Settle, SetConfirming, Payout,
       AwaitsReview
  <2>2. Refund(w) => /\ status' \in {status, [status EXCEPT ![w] = "REJECTED"]}
                     /\ refunded' \in {refunded, [refunded EXCEPT ![w] = TRUE]}
    BY DEF Refund
  <2>3. PICK s \in RowStatus \ {"none"} :
          /\ status' \in {status, [status EXCEPT ![w] = s]}
          /\ refunded' \in {refunded, [refunded EXCEPT ![w] = TRUE]}
    BY <1>5, <2>2 DEF Review, approveAdminWithdrawal, rejectAdminWithdrawal, Settle, SetConfirming,
       Payout, RowStatus
  <2> QED BY <2>1, <2>3, <1>2
<1>6. ASSUME \/ Tick \/ Heartbeat \/ (\E u \in Users : Suspend(u) \/ Transfer(u))
             \/ (\E h \in Hashes : Execute(h)) \/ UNCHANGED vars
      PROVE LimitInv'
  <2>1. UNCHANGED <<status, job, createdAt, refunded>>
    BY <1>6 DEF Tick, Heartbeat, Suspend, Transfer, Execute, vars, rows, wd
  <2> QED BY <2>1, <1>1
<1> QED BY <1>3, <1>4, <1>5, <1>6 DEF Next, createWithdrawal

\* What is put on the queue stays within the limits of the user and of the whole
\* application on every day, for any limits, any requests at once and any time zone.
THEOREM LimitsRespected == Spec => []QueuedWithinLimits
<1>1. IInv /\ LimitInv => QueuedWithinLimits
  <2> SUFFICES ASSUME LimitInv, NEW day \in 0..UtcDay(now)
      PROVE  LET queued == {w \in Created : job[w] /\ UtcDay(createdAt[w]) = day} IN
             /\ SumFunctionOnSet(ReqAmount, queued) <= MaxGlobalDaily
             /\ \A u \in Users : SumFunctionOnSet(ReqAmount,
                    {w \in queued : ReqUser[w] = u /\ ~refunded[w]}) <= MaxPerUserDaily
    BY DEF QueuedWithinLimits
  <2>1. day \in Int
    OBVIOUS
  <2> QED BY <2>1 DEF LimitInv, QueuedOn, OwnQueuedOn
<1> QED BY <1>1, LimitStart, LimitKept, Invariance, PTL DEF Spec
=============================================================================
