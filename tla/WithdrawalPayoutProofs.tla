----------------------- MODULE WithdrawalPayoutProofs -----------------------
(***************************************************************************)
(* Theorems about WithdrawalPayout for any number of withdrawals, slots,   *)
(* confirmation cycles, failures and nonces.  They assume ~Overlap: BullMQ *)
(* redelivers a job only after the run that held its lock has ended (with  *)
(* Overlap the first theorem is false, see the run PayoutOverlap).         *)
(***************************************************************************)
EXTENDS WithdrawalPayout, TLAPS

Owned(w, n) == attOf[n] = w

\* No transaction was signed for w so far.
Unsigned(w) == \A n \in Nonces : Owned(w, n) => ~signed[n]

\* A slot that is at work holds the BullMQ lock of its job; so no two slots work
\* on the same withdrawal.
LockInv ==
    \A s \in Slots : pc[s] # "idle" => bull[cur[s]] = "active" /\ holder[cur[s]] = s

PollerInv ==
    \A p \in Pollers : pc[p] \in {"idle", "read", "ask", "write", "finish"}

\* Only signed transactions are sent; after the first signature of a withdrawal
\* no further nonce is reserved for it.
AttemptInv ==
    /\ \A n \in Nonces :
        /\ attOf[n] = NoWithdrawal => ~signed[n]
        /\ chain[n] # "unsent" => signed[n]
    /\ \A m, n \in Nonces :
        signed[m] /\ Owned(attOf[m], n) => n <= m

\* Stored hashes are those of signed transactions of the same withdrawal.
HashInv ==
    /\ \A n \in Nonces : attHash[n] # NoNonce => attHash[n] = n /\ signed[n]
    /\ \A w \in Withdrawals : txHash[w] # NoNonce =>
        Owned(w, txHash[w]) /\ signed[txHash[w]]

\* What a slot in the middle of processWithdrawal may rely on.
SlotInv ==
    \A s \in Slots :
        /\ pc[s] \in {"reserve", "prepare"} => Unsigned(cur[s])
        /\ pc[s] \in {"prepare", "send", "lookup", "record"} =>
            Owned(cur[s], nonce[s])
        /\ pc[s] = "prepare" => \A n \in Nonces : Owned(cur[s], n) => n <= nonce[s]
        /\ pc[s] \in {"send", "lookup", "record"} => signed[nonce[s]]
        /\ pc[s] = "send" => chain[nonce[s]] = "unsent"

\* The hash reconcileWithdrawal works with is the newest attempt's, and a receipt
\* it read still holds when it writes.
ReconcileInv ==
    \A a \in Actors :
        /\ pc[a] \in {"ask", "write"} =>
            /\ nonce[a] = hash[a]
            /\ Owned(cur[a], hash[a]) /\ signed[hash[a]]
        /\ pc[a] = "write" =>
            /\ rcpt[a] = "reverted" => chain[hash[a]] = "reverted"
            /\ rcpt[a] = "final" => chain[hash[a]] = "final"

RefundInv ==
    \A w \in Withdrawals : refunded[w] =>
        \E n \in Nonces : Owned(w, n) /\ chain[n] = "reverted"

CompletedInv ==
    \A w \in Withdrawals :
        (status[w] = "COMPLETED" \/ deep[w] \/ plan[w] = "set_completed") =>
            txHash[w] \in Nonces /\ chain[txHash[w]] = "final"

IInv ==
    /\ TypeOK
    /\ LockInv /\ PollerInv /\ AttemptInv /\ HashInv /\ SlotInv
    /\ ReconcileInv /\ RefundInv /\ CompletedInv /\ ClosedJobIsDecided

-----------------------------------------------------------------------------
(* Types                                                                   *)

\* The database rows keep their types.
LEMMA RowsTypeOKStep ==
    TypeOK /\ [Next]_vars => RowsTypeOK'
<1> SUFFICES ASSUME TypeOK, [Next]_vars PROVE RowsTypeOK' OBVIOUS
<1> USE OwnerAssumption, AmountAssumption, BoundAssumption DEF TypeOK, RowsTypeOK, rows, wd, job,
    att, Goto, NoNonce, Actors, tools
<1>1. ASSUME NEW s \in Slots, Record(s) PROVE RowsTypeOK'
  <2>1. CASE SuccessTaken(cur[s], nonce[s], nonce[s]) BY <2>1, <1>1 DEF Record, ActorTypeOK
  <2>2. ASSUME ~SuccessTaken(cur[s], nonce[s], nonce[s]) PROVE RowsTypeOK'
    <3>1. status' \in [Withdrawals -> WdStatus]
            /\ txHash' \in [Withdrawals -> Nonces \cup {NoNonce}]
            /\ attStatus' \in [Nonces -> AttStatus]
      BY <2>2, <1>1 DEF Record, ActorTypeOK, WdStatus, AttStatus
    <3>2. attHash' \in [Nonces -> Nonces \cup {NoNonce}] /\ success' \in [Nonces -> BOOLEAN]
      BY <2>2, <1>1 DEF Record, ActorTypeOK
    <3> QED BY <2>2, <3>1, <3>2, <1>1 DEF Record
  <2> QED BY <2>1, <2>2
<1>2. ASSUME NEW s \in Slots, retryOrReview(s) PROVE RowsTypeOK'
  <2>1. status' \in [Withdrawals -> WdStatus] /\ jobStatus' \in [Withdrawals -> JobStatus]
    BY <1>2 DEF retryOrReview, WdStatus, JobStatus
  <2>2. attempts' \in [Withdrawals -> Nat]
    <3>1. attempts' = [attempts EXCEPT ![cur[s]] = attempts[cur[s]] + 1]
      BY <1>2 DEF retryOrReview
    <3>2. cur[s] \in Withdrawals
      BY <1>2 DEF retryOrReview, ActorTypeOK
    <3> QED BY <3>1, <3>2
  <2>3. due' \in [Withdrawals -> BOOLEAN]
    <3>1. PICK b \in BOOLEAN : due' = [due EXCEPT ![cur[s]] = b]
      BY <1>2 DEF retryOrReview
    <3> QED BY <3>1
  <2> QED BY <2>1, <2>2, <2>3, <1>2 DEF retryOrReview
<1>3. ASSUME NEW a \in Actors, ReconcileRefund(a) PROVE RowsTypeOK'
  <2>1. CASE refunded[cur[a]] BY <2>1, <1>3 DEF ReconcileRefund
  <2>2. ASSUME ~refunded[cur[a]] PROVE RowsTypeOK'
    <3>1. status' \in [Withdrawals -> WdStatus] /\ jobStatus' \in [Withdrawals -> JobStatus]
      BY <2>2, <1>3 DEF ReconcileRefund, WdStatus, JobStatus
    <3>4. refunded' \in [Withdrawals -> BOOLEAN]
      BY <2>2, <1>3 DEF ReconcileRefund
    <3>2. wallet' = [wallet EXCEPT ![Owner[cur[a]]] = @ + Amount[cur[a]]]
      BY <2>2, <1>3 DEF ReconcileRefund
    <3>3. wallet' \in [Users -> Nat]
      <4>1. cur[a] \in Withdrawals BY <1>3 DEF ActorTypeOK, ReconcileRefund
      <4>2. Owner[cur[a]] \in Users /\ Amount[cur[a]] \in Nat BY <4>1
      <4>3. wallet[Owner[cur[a]]] + Amount[cur[a]] \in Nat BY <4>2
      <4> QED BY <3>2, <4>3
    <3> QED BY <2>2, <3>1, <3>3, <3>4, <1>3 DEF ReconcileRefund
  <2> QED BY <2>1, <2>2
<1>4. ASSUME NEW s \in Slots, Reserve(s) PROVE RowsTypeOK'
  <2>1. PICK k \in Nonces : attOf' = [attOf EXCEPT ![k] = cur[s]]
    BY <1>4 DEF Reserve
  <2>2. attOf' \in [Nonces -> Withdrawals \cup {NoWithdrawal}]
    BY <2>1 DEF ActorTypeOK
  <2>3. status' \in [Withdrawals -> WdStatus] /\ jobStatus' \in [Withdrawals -> JobStatus]
    BY <1>4 DEF Reserve, WdStatus, JobStatus
  <2> QED BY <2>2, <2>3, <1>4 DEF Reserve
<1>5. ASSUME NEW s \in Slots, LookupUncertain(s) PROVE RowsTypeOK'
  BY <1>5 DEF LookupUncertain, ActorTypeOK, WdStatus, JobStatus, AttStatus
<1>6. ASSUME NEW a \in Actors, ReconcileWait(a) PROVE RowsTypeOK'
  BY <1>6 DEF ReconcileWait, ActorTypeOK, WdStatus, JobStatus, AttStatus
<1>7. ASSUME NEW a \in Actors, ReconcileConfirm(a) PROVE RowsTypeOK'
  BY <1>7 DEF ReconcileConfirm, ActorTypeOK, WdStatus, JobStatus, AttStatus
<1>8. ASSUME NEW w \in Withdrawals, ApplyStatus(w) PROVE RowsTypeOK'
  BY <1>8 DEF ApplyStatus, ActorTypeOK, WdStatus, JobStatus, AttStatus
<1>9. ASSUME NEW w \in Withdrawals, RetryDelayElapses(w) PROVE RowsTypeOK'
  BY <1>9 DEF RetryDelayElapses, ActorTypeOK, WdStatus, JobStatus, AttStatus
<1>10. ASSUME NEW s \in Slots, Prepare(s) PROVE RowsTypeOK'
  BY <1>10 DEF Prepare, ActorTypeOK, WdStatus, JobStatus, AttStatus
<1>11. ASSUME NEW s \in Slots, 
         Load(s) \/ ReserveRefused(s) \/ Send(s) \/ LookupFound(s) \/ Finish(s)
      PROVE RowsTypeOK'
  BY <1>11 DEF Load, ReserveRefused, Send, LookupFound, Finish, ActorTypeOK, WdStatus, JobStatus,
     AttStatus
<1>12. ASSUME NEW s \in Slots, Throw(s) \/ Raise(s) \/ SendFails(s) PROVE RowsTypeOK'
  BY <1>12 DEF Throw, Raise, SendFails, ActorTypeOK, WdStatus, JobStatus, AttStatus
<1>13. ASSUME NEW s \in Slots, NEW w \in Withdrawals, Deliver(s, w) PROVE RowsTypeOK'
  BY <1>13 DEF Deliver, ActorTypeOK, WdStatus, JobStatus, AttStatus
<1>14. ASSUME NEW a \in Actors, ReconcileRead(a) \/ ReconcileAsk(a) PROVE RowsTypeOK'
  BY <1>14 DEF ReconcileRead, ReconcileAsk, ActorTypeOK, WdStatus, JobStatus, AttStatus
<1>15. ASSUME NEW p \in Pollers, 
         PollScan(p) \/ PollNext(p) \/ PollDone(p) \/ PollThrow(p)
      PROVE RowsTypeOK'
  BY <1>15 DEF PollScan, PollNext, PollDone, PollThrow, ActorTypeOK, WdStatus, JobStatus, AttStatus
<1>16. ASSUME NEW c \in Callers, NEW w \in Withdrawals, 
         Enqueue(c, w) \/ MarkEnqueued(c, w)
      PROVE RowsTypeOK'
  BY <1>16 DEF Enqueue, MarkEnqueued, ActorTypeOK, WdStatus, JobStatus, AttStatus
<1>17. ASSUME NEW w \in Withdrawals, SubmitLost(w) \/ Stalled(w) \/ Forget(w) PROVE RowsTypeOK'
  BY <1>17 DEF SubmitLost, Stalled, Forget, ActorTypeOK, WdStatus, JobStatus, AttStatus
<1>18. ASSUME NEW n \in Nonces, Mine(n) \/ Bury(n) PROVE RowsTypeOK'
  BY <1>18 DEF Mine, Bury, ActorTypeOK, WdStatus, JobStatus, AttStatus
<1>19. ASSUME RecoverScan \/ Audit \/ WorkerCrash PROVE RowsTypeOK'
  BY <1>19 DEF RecoverScan, Audit, WorkerCrash, ActorTypeOK, WdStatus, JobStatus, AttStatus
<1>20. CASE UNCHANGED vars BY <1>20 DEF vars
<1> HIDE DEF RowsTypeOK, TypeOK
<1> QED BY <1>1, <1>2, <1>3, <1>4, <1>5, <1>6, <1>7, <1>8, <1>9, <1>10, <1>11, <1>12, <1>13,
    <1>14, <1>15, <1>16, <1>17, <1>18, <1>19, <1>20 DEF Next, SlotStep, PollStep, Reconcile,
    Failure, Actors

\* BullMQ's state and the chain keep their types.
LEMMA QueueTypeOKStep ==
    TypeOK /\ [Next]_vars => QueueTypeOK'
<1> SUFFICES ASSUME TypeOK, [Next]_vars PROVE QueueTypeOK' OBVIOUS
<1> USE BoundAssumption DEF TypeOK, QueueTypeOK, queue, NoNonce, Actors, Goto
<1>1. ASSUME NEW s \in Slots, SendFails(s) PROVE QueueTypeOK'
  <2>1. PICK result \in {"pool", "unsent"} : chain' = [chain EXCEPT ![nonce[s]] = result]
    BY <1>1 DEF SendFails
  <2>2. chain' \in [Nonces -> ChainState]
    BY <2>1 DEF ChainState
  <2> QED BY <2>2, <1>1 DEF SendFails
<1>2. ASSUME NEW s \in Slots, 
         Load(s) \/ Reserve(s) \/ ReserveRefused(s) \/ Prepare(s) \/ Send(s)
      PROVE QueueTypeOK'
  BY <1>2 DEF Load, Reserve, ReserveRefused, Prepare, Send, BullState, ChainState, BullEnd, BullAdd
<1>3. ASSUME NEW s \in Slots, 
         LookupFound(s) \/ LookupUncertain(s) \/ Record(s) \/ retryOrReview(s) \/ Finish(s)
      PROVE QueueTypeOK'
  BY <1>3 DEF LookupFound, LookupUncertain, Record, retryOrReview, Finish, BullState, ChainState,
     BullEnd, BullAdd
<1>4. ASSUME NEW s \in Slots, Throw(s) \/ Raise(s) PROVE QueueTypeOK'
  BY <1>4 DEF Throw, Raise, BullState, ChainState, BullEnd, BullAdd
<1>5. ASSUME NEW s \in Slots, NEW w \in Withdrawals, Deliver(s, w) PROVE QueueTypeOK'
  BY <1>5 DEF Deliver, BullState, ChainState, BullEnd, BullAdd
<1>6. ASSUME NEW a \in Actors, 
         ReconcileRead(a) \/ ReconcileAsk(a) \/ ReconcileWait(a) \/ ReconcileConfirm(a) \/ ReconcileRefund(a)
      PROVE QueueTypeOK'
  BY <1>6 DEF ReconcileRead, ReconcileAsk, ReconcileWait, ReconcileConfirm, ReconcileRefund,
     BullState, ChainState, BullEnd, BullAdd
<1>7. ASSUME NEW p \in Pollers, 
         PollScan(p) \/ PollNext(p) \/ PollDone(p) \/ PollThrow(p)
      PROVE QueueTypeOK'
  BY <1>7 DEF PollScan, PollNext, PollDone, PollThrow, BullState, ChainState, BullEnd, BullAdd
<1>8. ASSUME NEW c \in Callers, NEW w \in Withdrawals, 
         Enqueue(c, w) \/ MarkEnqueued(c, w)
      PROVE QueueTypeOK'
  BY <1>8 DEF Enqueue, MarkEnqueued, BullState, ChainState, BullEnd, BullAdd
<1>9. ASSUME NEW w \in Withdrawals, 
         SubmitLost(w) \/ ApplyStatus(w) \/ RetryDelayElapses(w) \/ Stalled(w) \/ Forget(w)
      PROVE QueueTypeOK'
  BY <1>9 DEF SubmitLost, ApplyStatus, RetryDelayElapses, Stalled, Forget, BullState, ChainState,
     BullEnd, BullAdd
<1>10. ASSUME NEW n \in Nonces, Mine(n) \/ Bury(n) PROVE QueueTypeOK'
  BY <1>10 DEF Mine, Bury, BullState, ChainState, BullEnd, BullAdd
<1>11. ASSUME RecoverScan \/ Audit \/ WorkerCrash PROVE QueueTypeOK'
  BY <1>11 DEF RecoverScan, Audit, WorkerCrash, BullState, ChainState, BullEnd, BullAdd
<1>12. CASE UNCHANGED vars BY <1>12 DEF vars
<1> HIDE DEF QueueTypeOK, TypeOK
<1> QED BY <1>1, <1>2, <1>3, <1>4, <1>5, <1>6, <1>7, <1>8, <1>9, <1>10, <1>11, <1>12 DEF Next,
    SlotStep, PollStep, Reconcile, Failure, Actors

\* The callers of enqueueWithdrawalJob and the script keep their types.
LEMMA CallerTypeOKStep ==
    TypeOK /\ [Next]_vars => CallerTypeOK'
<1> SUFFICES ASSUME TypeOK, [Next]_vars PROVE CallerTypeOK' OBVIOUS
<1> USE BoundAssumption DEF TypeOK, CallerTypeOK, handoff, tools
<1>1. ASSUME NEW s \in Slots, 
         Load(s) \/ Reserve(s) \/ ReserveRefused(s) \/ Prepare(s) \/ Send(s)
      PROVE CallerTypeOK'
  BY <1>1 DEF Load, Reserve, ReserveRefused, Prepare, Send, Callers, Fault, PlannedAction
<1>2. ASSUME NEW s \in Slots, 
         LookupFound(s) \/ LookupUncertain(s) \/ Record(s) \/ retryOrReview(s) \/ Finish(s)
      PROVE CallerTypeOK'
  BY <1>2 DEF LookupFound, LookupUncertain, Record, retryOrReview, Finish, Callers, Fault,
     PlannedAction
<1>3. ASSUME NEW s \in Slots, Throw(s) \/ Raise(s) \/ SendFails(s) PROVE CallerTypeOK'
  BY <1>3 DEF Throw, Raise, SendFails, Callers, Fault, PlannedAction
<1>4. ASSUME NEW s \in Slots, NEW w \in Withdrawals, Deliver(s, w) PROVE CallerTypeOK'
  BY <1>4 DEF Deliver, Callers, Fault, PlannedAction
<1>5. ASSUME NEW a \in Actors, 
         ReconcileRead(a) \/ ReconcileAsk(a) \/ ReconcileWait(a) \/ ReconcileConfirm(a) \/ ReconcileRefund(a)
      PROVE CallerTypeOK'
  BY <1>5 DEF ReconcileRead, ReconcileAsk, ReconcileWait, ReconcileConfirm, ReconcileRefund,
     Callers, Fault, PlannedAction
<1>6. ASSUME NEW p \in Pollers, 
         PollScan(p) \/ PollNext(p) \/ PollDone(p) \/ PollThrow(p)
      PROVE CallerTypeOK'
  BY <1>6 DEF PollScan, PollNext, PollDone, PollThrow, Callers, Fault, PlannedAction
<1>7. ASSUME NEW c \in Callers, NEW w \in Withdrawals, 
         Enqueue(c, w) \/ MarkEnqueued(c, w)
      PROVE CallerTypeOK'
  BY <1>7 DEF Enqueue, MarkEnqueued, Callers, Fault, PlannedAction
<1>8. ASSUME NEW w \in Withdrawals, 
         SubmitLost(w) \/ ApplyStatus(w) \/ RetryDelayElapses(w) \/ Stalled(w) \/ Forget(w)
      PROVE CallerTypeOK'
  BY <1>8 DEF SubmitLost, ApplyStatus, RetryDelayElapses, Stalled, Forget, Callers, Fault,
     PlannedAction
<1>9. ASSUME NEW n \in Nonces, Mine(n) \/ Bury(n) PROVE CallerTypeOK'
  BY <1>9 DEF Mine, Bury, Callers, Fault, PlannedAction
<1>10. ASSUME RecoverScan \/ Audit \/ WorkerCrash PROVE CallerTypeOK'
  BY <1>10 DEF RecoverScan, Audit, WorkerCrash, Callers, Fault, PlannedAction
<1>11. CASE UNCHANGED vars BY <1>11 DEF vars
<1> HIDE DEF CallerTypeOK, TypeOK
<1> QED BY <1>1, <1>2, <1>3, <1>4, <1>5, <1>6, <1>7, <1>8, <1>9, <1>10, <1>11 DEF Next, SlotStep,
    PollStep, Reconcile, Failure, Actors

\* Program counters and locals keep their types and are set before they are used.
LEMMA ActorTypeOKStep ==
    TypeOK /\ [Next]_vars => ActorTypeOK'
<1> SUFFICES ASSUME TypeOK, [Next]_vars PROVE ActorTypeOK' OBVIOUS
<1> USE BoundAssumption DEF TypeOK, ActorTypeOK, locals, Goto, NoNonce, Actors
<1>1. ASSUME NEW a \in Actors, ReconcileRead(a) PROVE ActorTypeOK'
  <2>1. PICK k \in Nonces \cup {NoNonce} :
            /\ nonce' = [nonce EXCEPT ![a] = k]
            /\ hash' = [hash EXCEPT ![a] = HashOf(cur[a], k)]
            /\ pc' = [pc EXCEPT ![a] = IF status[cur[a]] = "COMPLETED" \/ HashOf(cur[a], k) = NoNonce
                   THEN "finish" ELSE "ask"]
    BY <1>1 DEF ReconcileRead
  <2>2. nonce' \in [Actors -> Nonces \cup {NoNonce}]
    BY <2>1
  <2>3. hash' \in [Actors -> Nonces \cup {NoNonce}]
    <3>1. HashOf(cur[a], k) \in Nonces \cup {NoNonce}
      BY <1>1 DEF HashOf, RowsTypeOK, ReconcileRead
    <3> QED BY <2>1, <3>1
  <2>4. pc' \in [Actors -> Labels]
    BY <2>1 DEF Labels
  <2>5. \A b \in Actors :
          pc'[b] \in {"ask", "write"} => hash'[b] \in Nonces
    BY <2>1, <2>3
  <2> QED BY <2>2, <2>3, <2>4, <1>1 DEF ReconcileRead
<1>2. ASSUME NEW a \in Actors, ReconcileAsk(a) PROVE ActorTypeOK'
  BY <1>2 DEF ReconcileAsk, Return, Labels, Receipts, Receipt, QueueTypeOK, ChainState
<1>3. ASSUME NEW s \in Slots, 
         Load(s) \/ Reserve(s) \/ ReserveRefused(s) \/ Prepare(s) \/ Send(s)
      PROVE ActorTypeOK'
  BY <1>3 DEF Load, Reserve, ReserveRefused, Prepare, Send, Return, Labels, Receipts, Receipt,
     QueueTypeOK, ChainState
<1>4. ASSUME NEW s \in Slots, 
         LookupFound(s) \/ LookupUncertain(s) \/ Record(s) \/ retryOrReview(s) \/ Finish(s)
      PROVE ActorTypeOK'
  BY <1>4 DEF LookupFound, LookupUncertain, Record, retryOrReview, Finish, Return, Labels,
     Receipts, Receipt, QueueTypeOK, ChainState
<1>5. ASSUME NEW s \in Slots, Throw(s) \/ Raise(s) \/ SendFails(s) PROVE ActorTypeOK'
  BY <1>5 DEF Throw, Raise, SendFails, Return, Labels, Receipts, Receipt, QueueTypeOK, ChainState
<1>6. ASSUME NEW s \in Slots, NEW w \in Withdrawals, Deliver(s, w) PROVE ActorTypeOK'
  BY <1>6 DEF Deliver, Return, Labels, Receipts, Receipt, QueueTypeOK, ChainState
<1>7. ASSUME NEW a \in Actors, 
         ReconcileWait(a) \/ ReconcileConfirm(a) \/ ReconcileRefund(a)
      PROVE ActorTypeOK'
  BY <1>7 DEF ReconcileWait, ReconcileConfirm, ReconcileRefund, Return, Labels, Receipts, Receipt,
     QueueTypeOK, ChainState
<1>8. ASSUME NEW p \in Pollers, 
         PollScan(p) \/ PollNext(p) \/ PollDone(p) \/ PollThrow(p)
      PROVE ActorTypeOK'
  BY <1>8 DEF PollScan, PollNext, PollDone, PollThrow, Return, Labels, Receipts, Receipt,
     QueueTypeOK, ChainState
<1>9. ASSUME NEW c \in Callers, NEW w \in Withdrawals, 
         Enqueue(c, w) \/ MarkEnqueued(c, w)
      PROVE ActorTypeOK'
  BY <1>9 DEF Enqueue, MarkEnqueued, Return, Labels, Receipts, Receipt, QueueTypeOK, ChainState
<1>10. ASSUME NEW w \in Withdrawals, 
         SubmitLost(w) \/ ApplyStatus(w) \/ RetryDelayElapses(w) \/ Stalled(w) \/ Forget(w)
      PROVE ActorTypeOK'
  BY <1>10 DEF SubmitLost, ApplyStatus, RetryDelayElapses, Stalled, Forget, Return, Labels,
     Receipts, Receipt, QueueTypeOK, ChainState
<1>11. ASSUME NEW n \in Nonces, Mine(n) \/ Bury(n) PROVE ActorTypeOK'
  BY <1>11 DEF Mine, Bury, Return, Labels, Receipts, Receipt, QueueTypeOK, ChainState
<1>12. ASSUME RecoverScan \/ Audit \/ WorkerCrash PROVE ActorTypeOK'
  BY <1>12 DEF RecoverScan, Audit, WorkerCrash, Return, Labels, Receipts, Receipt, QueueTypeOK,
     ChainState
<1>13. CASE UNCHANGED vars BY <1>13 DEF vars
<1> HIDE DEF ActorTypeOK, TypeOK
<1> QED BY <1>1, <1>2, <1>3, <1>4, <1>5, <1>6, <1>7, <1>8, <1>9, <1>10, <1>11, <1>12, <1>13 DEF
    Next, SlotStep, PollStep, Reconcile, Failure, Actors

\* Every step keeps the types.
LEMMA TypeStep == TypeOK /\ [Next]_vars => TypeOK'
BY RowsTypeOKStep, QueueTypeOKStep, CallerTypeOKStep, ActorTypeOKStep DEF TypeOK

-----------------------------------------------------------------------------
(* What never changes again                                                *)

\* A reservation takes a nonce above every reserved one.
LEMMA ReserveFresh ==
    ASSUME TypeOK, NEW s \in Slots, Reserve(s)
    PROVE  \E k \in Nonces :
            /\ \A m \in Nonces : attOf[m] # NoWithdrawal => m < k
            /\ attOf' = [attOf EXCEPT ![k] = cur[s]]
            /\ nonce' = [nonce EXCEPT ![s] = k]
<1>1. PICK p \in 0..MaxNonce + 1, h \in Nonces \cup {NoNonce} :
        /\ IsHighest(h)
        /\ nextSafeNonce(p, h) \in Nonces
        /\ nonce' = [nonce EXCEPT ![s] = nextSafeNonce(p, h)]
        /\ attOf' = [attOf EXCEPT ![nextSafeNonce(p, h)] = cur[s]]
  BY DEF Reserve
<1>2. h \in Int /\ p \in Int
  BY BoundAssumption DEF Nonces, NoNonce
<1>3. nextSafeNonce(p, h) >= h + 1
  BY <1>2 DEF nextSafeNonce
<1>4. \A m \in Nonces : attOf[m] # NoWithdrawal => m < nextSafeNonce(p, h)
  BY <1>1, <1>2, <1>3 DEF IsHighest, Nonces, NoNonce
<1> QED BY <1>1, <1>4

OwnersKept ==
    \A n \in Nonces : attOf[n] # NoWithdrawal => attOf'[n] = attOf[n]

\* No step, not even of an overlapping delivery, gives a nonce to another withdrawal.
LEMMA OwnersStay ==
    TypeOK /\ [Next]_vars => OwnersKept
<1> SUFFICES ASSUME TypeOK, [Next]_vars PROVE OwnersKept OBVIOUS
<1> USE DEF TypeOK, RowsTypeOK, OwnersKept, rows, att
<1>1. ASSUME NEW s \in Slots, Reserve(s) PROVE OwnersKept
  <2>1. PICK k \in Nonces :
          /\ \A m \in Nonces : attOf[m] # NoWithdrawal => m < k
          /\ attOf' = [attOf EXCEPT ![k] = cur[s]]
    BY <1>1, ReserveFresh
  <2>2. attOf[k] = NoWithdrawal
    BY <2>1, BoundAssumption DEF Nonces
  <2> QED BY <2>1, <2>2
<1>2. ASSUME NEW s \in Slots, Record(s) PROVE OwnersKept
  BY <1>2 DEF Record
<1>3. ASSUME NEW s \in Slots, 
         Load(s) \/ ReserveRefused(s) \/ Prepare(s) \/ Send(s) \/ LookupFound(s) \/ LookupUncertain(s)
      PROVE OwnersKept
  BY <1>3 DEF Load, ReserveRefused, Prepare, Send, LookupFound, LookupUncertain
<1>4. ASSUME NEW s \in Slots, 
         retryOrReview(s) \/ Finish(s) \/ Throw(s) \/ Raise(s) \/ SendFails(s)
      PROVE OwnersKept
  BY <1>4 DEF retryOrReview, Finish, Throw, Raise, SendFails
<1>5. ASSUME NEW s \in Slots, NEW w \in Withdrawals, Deliver(s, w) PROVE OwnersKept
  BY <1>5 DEF Deliver
<1>6. ASSUME NEW a \in Actors, 
         ReconcileRead(a) \/ ReconcileAsk(a) \/ ReconcileWait(a) \/ ReconcileConfirm(a) \/ ReconcileRefund(a)
      PROVE OwnersKept
  BY <1>6 DEF ReconcileRead, ReconcileAsk, ReconcileWait, ReconcileConfirm, ReconcileRefund
<1>7. ASSUME NEW p \in Pollers, 
         PollScan(p) \/ PollNext(p) \/ PollDone(p) \/ PollThrow(p)
      PROVE OwnersKept
  BY <1>7 DEF PollScan, PollNext, PollDone, PollThrow
<1>8. ASSUME NEW c \in Callers, NEW w \in Withdrawals, 
         Enqueue(c, w) \/ MarkEnqueued(c, w)
      PROVE OwnersKept
  BY <1>8 DEF Enqueue, MarkEnqueued
<1>9. ASSUME NEW w \in Withdrawals, 
         SubmitLost(w) \/ ApplyStatus(w) \/ RetryDelayElapses(w) \/ Stalled(w) \/ Forget(w)
      PROVE OwnersKept
  BY <1>9 DEF SubmitLost, ApplyStatus, RetryDelayElapses, Stalled, Forget
<1>10. ASSUME NEW n \in Nonces, Mine(n) \/ Bury(n) PROVE OwnersKept
  BY <1>10 DEF Mine, Bury
<1>11. ASSUME RecoverScan \/ Audit \/ WorkerCrash PROVE OwnersKept
  BY <1>11 DEF RecoverScan, Audit, WorkerCrash
<1>12. CASE UNCHANGED vars BY <1>12 DEF vars
<1> HIDE DEF TypeOK, OwnersKept
<1> QED BY <1>1, <1>2, <1>3, <1>4, <1>5, <1>6, <1>7, <1>8, <1>9, <1>10, <1>11, <1>12 DEF Next,
    SlotStep, PollStep, Reconcile, Failure, Actors

Settling ==
    /\ OwnersKept
    /\ \A n \in Nonces :
        /\ signed[n] => signed'[n]
        /\ chain[n] \in {"final", "reverted"} => chain'[n] = chain[n]

\* Owners, signatures, reverts and buried transactions are permanent.
LEMMA Settles ==
    IInv /\ [Next]_vars => Settling
<1> SUFFICES ASSUME IInv, [Next]_vars PROVE Settling OBVIOUS
<1> USE OwnersStay DEF TypeOK, IInv, Settling, RowsTypeOK, QueueTypeOK, ActorTypeOK, rows, att
<1>1. ASSUME NEW s \in Slots, Prepare(s) PROVE Settling
  BY <1>1 DEF Prepare
<1>2. ASSUME NEW s \in Slots, Send(s) PROVE Settling
  BY <1>2 DEF Send, SlotInv
<1>3. ASSUME NEW s \in Slots, SendFails(s) PROVE Settling
  BY <1>3 DEF SendFails, SlotInv
<1>4. ASSUME NEW s \in Slots, Record(s) PROVE Settling
  BY <1>4 DEF Record
<1>5. ASSUME NEW s \in Slots, 
         Load(s) \/ Reserve(s) \/ ReserveRefused(s) \/ LookupFound(s) \/ LookupUncertain(s)
      PROVE Settling
  BY <1>5 DEF Load, Reserve, ReserveRefused, LookupFound, LookupUncertain
<1>6. ASSUME NEW s \in Slots, retryOrReview(s) \/ Finish(s) \/ Throw(s) \/ Raise(s) PROVE Settling
  BY <1>6 DEF retryOrReview, Finish, Throw, Raise
<1>7. ASSUME NEW s \in Slots, NEW w \in Withdrawals, Deliver(s, w) PROVE Settling
  BY <1>7 DEF Deliver
<1>8. ASSUME NEW a \in Actors, 
         ReconcileRead(a) \/ ReconcileAsk(a) \/ ReconcileWait(a) \/ ReconcileConfirm(a) \/ ReconcileRefund(a)
      PROVE Settling
  BY <1>8 DEF ReconcileRead, ReconcileAsk, ReconcileWait, ReconcileConfirm, ReconcileRefund
<1>9. ASSUME NEW p \in Pollers, 
         PollScan(p) \/ PollNext(p) \/ PollDone(p) \/ PollThrow(p)
      PROVE Settling
  BY <1>9 DEF PollScan, PollNext, PollDone, PollThrow
<1>10. ASSUME NEW c \in Callers, NEW w \in Withdrawals, 
         Enqueue(c, w) \/ MarkEnqueued(c, w)
      PROVE Settling
  BY <1>10 DEF Enqueue, MarkEnqueued
<1>11. ASSUME NEW w \in Withdrawals, 
         SubmitLost(w) \/ ApplyStatus(w) \/ RetryDelayElapses(w) \/ Stalled(w) \/ Forget(w)
      PROVE Settling
  BY <1>11 DEF SubmitLost, ApplyStatus, RetryDelayElapses, Stalled, Forget
<1>12. ASSUME NEW n \in Nonces, Mine(n) \/ Bury(n) PROVE Settling
  BY <1>12 DEF Mine, Bury
<1>13. ASSUME RecoverScan \/ Audit \/ WorkerCrash PROVE Settling
  BY <1>13 DEF RecoverScan, Audit, WorkerCrash
<1>14. CASE UNCHANGED vars BY <1>14 DEF vars
<1> HIDE DEF Settling, IInv, TypeOK
<1> QED BY <1>1, <1>2, <1>3, <1>4, <1>5, <1>6, <1>7, <1>8, <1>9, <1>10, <1>11, <1>12, <1>13, <1>14
    DEF Next, SlotStep, PollStep, Reconcile, Failure, Actors

-----------------------------------------------------------------------------
(* The conjuncts of the inductive invariant                                *)

\* Attempts: Reserve is only reached while nothing is signed, Prepare signs the
\* newest attempt.
LEMMA AttemptStep ==
    IInv /\ ~Overlap /\ [Next]_vars => AttemptInv'
<1> SUFFICES ASSUME IInv /\ ~Overlap, [Next]_vars PROVE AttemptInv' OBVIOUS
<1> USE DEF TypeOK, IInv, AttemptInv, Owned, RowsTypeOK, QueueTypeOK, ActorTypeOK, rows, att
<1>1. ASSUME NEW s \in Slots, Reserve(s) PROVE AttemptInv'
  <2>1. PICK k \in Nonces :
          /\ \A m \in Nonces : attOf[m] # NoWithdrawal => m < k
          /\ attOf' = [attOf EXCEPT ![k] = cur[s]]
    BY <1>1, ReserveFresh
  <2>2. attOf[k] = NoWithdrawal /\ ~signed[k]
    BY <2>1, BoundAssumption DEF Nonces
  <2>3. cur[s] \in Withdrawals /\ \A n \in Nonces : attOf[n] = cur[s] => ~signed[n]
    BY <1>1 DEF Reserve, SlotInv, Unsigned, Actors
  <2>4. UNCHANGED <<signed, chain>>
    BY <1>1 DEF Reserve
  <2> QED BY <2>1, <2>2, <2>3, <2>4, ActorAssumption
<1>2. ASSUME NEW s \in Slots, Prepare(s) PROVE AttemptInv'
  <2>1. nonce[s] \in Nonces /\ attOf[nonce[s]] = cur[s] /\ cur[s] \in Withdrawals
          /\ \A n \in Nonces : attOf[n] = cur[s] => n <= nonce[s]
    BY <1>2 DEF Prepare, SlotInv, Actors
  <2> QED BY <2>1, <1>2, ActorAssumption DEF Prepare
<1>3. ASSUME NEW s \in Slots, Send(s) PROVE AttemptInv'
  BY <1>3 DEF Send, SlotInv
<1>4. ASSUME NEW s \in Slots, SendFails(s) PROVE AttemptInv'
  BY <1>4 DEF SendFails, SlotInv
<1>5. ASSUME NEW s \in Slots, Record(s) PROVE AttemptInv'
  BY <1>5 DEF Record
<1>6. ASSUME NEW s \in Slots, 
         Load(s) \/ ReserveRefused(s) \/ LookupFound(s) \/ LookupUncertain(s) \/ retryOrReview(s)
      PROVE AttemptInv'
  BY <1>6 DEF Load, ReserveRefused, LookupFound, LookupUncertain, retryOrReview
<1>7. ASSUME NEW s \in Slots, Finish(s) \/ Throw(s) \/ Raise(s) PROVE AttemptInv'
  BY <1>7 DEF Finish, Throw, Raise
<1>8. ASSUME NEW s \in Slots, NEW w \in Withdrawals, Deliver(s, w) PROVE AttemptInv'
  BY <1>8 DEF Deliver
<1>9. ASSUME NEW a \in Actors, 
         ReconcileRead(a) \/ ReconcileAsk(a) \/ ReconcileWait(a) \/ ReconcileConfirm(a) \/ ReconcileRefund(a)
      PROVE AttemptInv'
  BY <1>9 DEF ReconcileRead, ReconcileAsk, ReconcileWait, ReconcileConfirm, ReconcileRefund
<1>10. ASSUME NEW p \in Pollers, 
         PollScan(p) \/ PollNext(p) \/ PollDone(p) \/ PollThrow(p)
      PROVE AttemptInv'
  BY <1>10 DEF PollScan, PollNext, PollDone, PollThrow
<1>11. ASSUME NEW c \in Callers, NEW w \in Withdrawals, 
         Enqueue(c, w) \/ MarkEnqueued(c, w)
      PROVE AttemptInv'
  BY <1>11 DEF Enqueue, MarkEnqueued
<1>12. ASSUME NEW w \in Withdrawals, 
         SubmitLost(w) \/ ApplyStatus(w) \/ RetryDelayElapses(w) \/ Stalled(w) \/ Forget(w)
      PROVE AttemptInv'
  BY <1>12 DEF SubmitLost, ApplyStatus, RetryDelayElapses, Stalled, Forget
<1>13. ASSUME NEW n \in Nonces, Mine(n) \/ Bury(n) PROVE AttemptInv'
  BY <1>13 DEF Mine, Bury
<1>14. ASSUME RecoverScan \/ Audit \/ WorkerCrash PROVE AttemptInv'
  BY <1>14 DEF RecoverScan, Audit, WorkerCrash
<1>15. CASE UNCHANGED vars BY <1>15 DEF vars
<1> HIDE DEF AttemptInv, IInv, TypeOK
<1> QED BY <1>1, <1>2, <1>3, <1>4, <1>5, <1>6, <1>7, <1>8, <1>9, <1>10, <1>11, <1>12, <1>13,
    <1>14, <1>15 DEF Next, SlotStep, PollStep, Reconcile, Failure, Actors

\* Locks: without Overlap a job is redelivered only when no slot works on it.
LEMMA LockStep ==
    IInv /\ ~Overlap /\ [Next]_vars => LockInv'
<1> SUFFICES ASSUME IInv /\ ~Overlap, [Next]_vars PROVE LockInv' OBVIOUS
<1> USE ActorAssumption DEF TypeOK, IInv, LockInv, RowsTypeOK, QueueTypeOK, ActorTypeOK, rows,
    queue, locals, Goto, Actors
<1>1. ASSUME NEW s \in Slots, 
         Load(s) \/ Reserve(s) \/ ReserveRefused(s) \/ Prepare(s) \/ Send(s)
      PROVE LockInv'
  BY <1>1 DEF Load, Reserve, ReserveRefused, Prepare, Send, Return, BullEnd, BullAdd, PollerInv,
     Running
<1>2. ASSUME NEW s \in Slots, 
         LookupFound(s) \/ LookupUncertain(s) \/ Record(s) \/ retryOrReview(s) \/ Finish(s)
      PROVE LockInv'
  BY <1>2 DEF LookupFound, LookupUncertain, Record, retryOrReview, Finish, Return, BullEnd,
     BullAdd, PollerInv, Running
<1>3. ASSUME NEW s \in Slots, Throw(s) \/ Raise(s) \/ SendFails(s) PROVE LockInv'
  BY <1>3 DEF Throw, Raise, SendFails, Return, BullEnd, BullAdd, PollerInv, Running
<1>4. ASSUME NEW s \in Slots, NEW w \in Withdrawals, Deliver(s, w) PROVE LockInv'
  BY <1>4 DEF Deliver, Return, BullEnd, BullAdd, PollerInv, Running
<1>5. ASSUME NEW a \in Actors, 
         ReconcileRead(a) \/ ReconcileAsk(a) \/ ReconcileWait(a) \/ ReconcileConfirm(a) \/ ReconcileRefund(a)
      PROVE LockInv'
  BY <1>5 DEF ReconcileRead, ReconcileAsk, ReconcileWait, ReconcileConfirm, ReconcileRefund,
     Return, BullEnd, BullAdd, PollerInv, Running
<1>6. ASSUME NEW p \in Pollers, 
         PollScan(p) \/ PollNext(p) \/ PollDone(p) \/ PollThrow(p)
      PROVE LockInv'
  BY <1>6 DEF PollScan, PollNext, PollDone, PollThrow, Return, BullEnd, BullAdd, PollerInv, Running
<1>7. ASSUME NEW c \in Callers, NEW w \in Withdrawals, 
         Enqueue(c, w) \/ MarkEnqueued(c, w)
      PROVE LockInv'
  BY <1>7 DEF Enqueue, MarkEnqueued, Return, BullEnd, BullAdd, PollerInv, Running
<1>8. ASSUME NEW w \in Withdrawals, 
         SubmitLost(w) \/ ApplyStatus(w) \/ RetryDelayElapses(w) \/ Stalled(w) \/ Forget(w)
      PROVE LockInv'
  BY <1>8 DEF SubmitLost, ApplyStatus, RetryDelayElapses, Stalled, Forget, Return, BullEnd,
     BullAdd, PollerInv, Running
<1>9. ASSUME NEW n \in Nonces, Mine(n) \/ Bury(n) PROVE LockInv'
  BY <1>9 DEF Mine, Bury, Return, BullEnd, BullAdd, PollerInv, Running
<1>10. ASSUME RecoverScan \/ Audit \/ WorkerCrash PROVE LockInv'
  BY <1>10 DEF RecoverScan, Audit, WorkerCrash, Return, BullEnd, BullAdd, PollerInv, Running
<1>11. CASE UNCHANGED vars BY <1>11 DEF vars
<1> HIDE DEF LockInv, IInv, TypeOK
<1> QED BY <1>1, <1>2, <1>3, <1>4, <1>5, <1>6, <1>7, <1>8, <1>9, <1>10, <1>11 DEF Next, SlotStep,
    PollStep, Reconcile, Failure, Actors

\* A confirmation cycle only runs reconcileWithdrawal.
LEMMA PollerStep ==
    IInv /\ ~Overlap /\ [Next]_vars => PollerInv'
<1> SUFFICES ASSUME IInv /\ ~Overlap, [Next]_vars PROVE PollerInv' OBVIOUS
<1> USE ActorAssumption DEF TypeOK, IInv, PollerInv, RowsTypeOK, QueueTypeOK, ActorTypeOK, rows,
    queue, locals, Goto, Actors
<1>1. ASSUME NEW s \in Slots, 
         Load(s) \/ Reserve(s) \/ ReserveRefused(s) \/ Prepare(s) \/ Send(s)
      PROVE PollerInv'
  BY <1>1 DEF Load, Reserve, ReserveRefused, Prepare, Send, Return
<1>2. ASSUME NEW s \in Slots, 
         LookupFound(s) \/ LookupUncertain(s) \/ Record(s) \/ retryOrReview(s) \/ Finish(s)
      PROVE PollerInv'
  BY <1>2 DEF LookupFound, LookupUncertain, Record, retryOrReview, Finish, Return
<1>3. ASSUME NEW s \in Slots, Throw(s) \/ Raise(s) \/ SendFails(s) PROVE PollerInv'
  BY <1>3 DEF Throw, Raise, SendFails, Return
<1>4. ASSUME NEW s \in Slots, NEW w \in Withdrawals, Deliver(s, w) PROVE PollerInv'
  BY <1>4 DEF Deliver, Return
<1>5. ASSUME NEW a \in Actors, 
         ReconcileRead(a) \/ ReconcileAsk(a) \/ ReconcileWait(a) \/ ReconcileConfirm(a) \/ ReconcileRefund(a)
      PROVE PollerInv'
  BY <1>5 DEF ReconcileRead, ReconcileAsk, ReconcileWait, ReconcileConfirm, ReconcileRefund, Return
<1>6. ASSUME NEW p \in Pollers, 
         PollScan(p) \/ PollNext(p) \/ PollDone(p) \/ PollThrow(p)
      PROVE PollerInv'
  BY <1>6 DEF PollScan, PollNext, PollDone, PollThrow, Return
<1>7. ASSUME NEW c \in Callers, NEW w \in Withdrawals, 
         Enqueue(c, w) \/ MarkEnqueued(c, w)
      PROVE PollerInv'
  BY <1>7 DEF Enqueue, MarkEnqueued, Return
<1>8. ASSUME NEW w \in Withdrawals, 
         SubmitLost(w) \/ ApplyStatus(w) \/ RetryDelayElapses(w) \/ Stalled(w) \/ Forget(w)
      PROVE PollerInv'
  BY <1>8 DEF SubmitLost, ApplyStatus, RetryDelayElapses, Stalled, Forget, Return
<1>9. ASSUME NEW n \in Nonces, Mine(n) \/ Bury(n) PROVE PollerInv'
  BY <1>9 DEF Mine, Bury, Return
<1>10. ASSUME RecoverScan \/ Audit \/ WorkerCrash PROVE PollerInv'
  BY <1>10 DEF RecoverScan, Audit, WorkerCrash, Return
<1>11. CASE UNCHANGED vars BY <1>11 DEF vars
<1> HIDE DEF PollerInv, IInv, TypeOK
<1> QED BY <1>1, <1>2, <1>3, <1>4, <1>5, <1>6, <1>7, <1>8, <1>9, <1>10, <1>11 DEF Next, SlotStep,
    PollStep, Reconcile, Failure, Actors

\* Hashes: every write of a hash writes one that was signed for the withdrawal.
LEMMA HashStep ==
    IInv /\ ~Overlap /\ [Next]_vars => HashInv'
<1> SUFFICES ASSUME IInv /\ ~Overlap, [Next]_vars PROVE HashInv' OBVIOUS
<1> USE Settles, ActorAssumption, BoundAssumption DEF TypeOK, IInv, RowsTypeOK, QueueTypeOK,
    ActorTypeOK, rows, wd, job, att,
           tools, Owned, Settling, OwnersKept, HashInv
<1>1. ASSUME NEW s \in Slots, Record(s) PROVE HashInv'
  BY <1>1 DEF Record, SlotInv, NoNonce, Actors
<1>2. ASSUME NEW a \in Actors, ReconcileWait(a) PROVE HashInv'
  BY <1>2 DEF ReconcileWait, ReconcileInv, NoNonce, Actors
<1>3. ASSUME NEW a \in Actors, ReconcileConfirm(a) PROVE HashInv'
  BY <1>3 DEF ReconcileConfirm, ReconcileInv, NoNonce, Actors
<1>4. ASSUME NEW s \in Slots, 
         Load(s) \/ Reserve(s) \/ ReserveRefused(s) \/ Prepare(s) \/ Send(s)
      PROVE HashInv'
  BY <1>4 DEF Load, Reserve, ReserveRefused, Prepare, Send
<1>5. ASSUME NEW s \in Slots, 
         LookupFound(s) \/ LookupUncertain(s) \/ retryOrReview(s) \/ Finish(s) \/ Throw(s)
      PROVE HashInv'
  BY <1>5 DEF LookupFound, LookupUncertain, retryOrReview, Finish, Throw
<1>6. ASSUME NEW s \in Slots, Raise(s) \/ SendFails(s) PROVE HashInv'
  BY <1>6 DEF Raise, SendFails
<1>7. ASSUME NEW s \in Slots, NEW w \in Withdrawals, Deliver(s, w) PROVE HashInv'
  BY <1>7 DEF Deliver
<1>8. ASSUME NEW a \in Actors, 
         ReconcileRead(a) \/ ReconcileAsk(a) \/ ReconcileRefund(a)
      PROVE HashInv'
  BY <1>8 DEF ReconcileRead, ReconcileAsk, ReconcileRefund
<1>9. ASSUME NEW p \in Pollers, 
         PollScan(p) \/ PollNext(p) \/ PollDone(p) \/ PollThrow(p)
      PROVE HashInv'
  BY <1>9 DEF PollScan, PollNext, PollDone, PollThrow
<1>10. ASSUME NEW c \in Callers, NEW w \in Withdrawals, 
         Enqueue(c, w) \/ MarkEnqueued(c, w)
      PROVE HashInv'
  BY <1>10 DEF Enqueue, MarkEnqueued
<1>11. ASSUME NEW w \in Withdrawals, 
         SubmitLost(w) \/ ApplyStatus(w) \/ RetryDelayElapses(w) \/ Stalled(w) \/ Forget(w)
      PROVE HashInv'
  BY <1>11 DEF SubmitLost, ApplyStatus, RetryDelayElapses, Stalled, Forget
<1>12. ASSUME NEW n \in Nonces, Mine(n) \/ Bury(n) PROVE HashInv'
  BY <1>12 DEF Mine, Bury
<1>13. ASSUME RecoverScan \/ Audit \/ WorkerCrash PROVE HashInv'
  BY <1>13 DEF RecoverScan, Audit, WorkerCrash
<1>14. CASE UNCHANGED vars BY <1>14 DEF vars
<1> HIDE DEF HashInv, IInv, TypeOK
<1> QED BY <1>1, <1>2, <1>3, <1>4, <1>5, <1>6, <1>7, <1>8, <1>9, <1>10, <1>11, <1>12, <1>13, <1>14
    DEF Next, SlotStep, PollStep, Reconcile, Failure, Actors

\* Refunds: a refund is written after a receipt with status 0.
LEMMA RefundStep ==
    IInv /\ ~Overlap /\ [Next]_vars => RefundInv'
<1> SUFFICES ASSUME IInv /\ ~Overlap, [Next]_vars PROVE RefundInv' OBVIOUS
<1> USE Settles, ActorAssumption DEF TypeOK, IInv, RowsTypeOK, QueueTypeOK, ActorTypeOK, rows, wd,
    job, att,
           tools, Owned, Settling, OwnersKept, RefundInv
<1>1. ASSUME NEW a \in Actors, ReconcileRefund(a) PROVE RefundInv'
  BY <1>1 DEF ReconcileRefund, ReconcileInv, Actors
<1>2. ASSUME NEW s \in Slots, 
         Load(s) \/ Reserve(s) \/ ReserveRefused(s) \/ Prepare(s) \/ Send(s)
      PROVE RefundInv'
  BY <1>2 DEF Load, Reserve, ReserveRefused, Prepare, Send
<1>3. ASSUME NEW s \in Slots, 
         LookupFound(s) \/ LookupUncertain(s) \/ Record(s) \/ retryOrReview(s) \/ Finish(s)
      PROVE RefundInv'
  BY <1>3 DEF LookupFound, LookupUncertain, Record, retryOrReview, Finish
<1>4. ASSUME NEW s \in Slots, Throw(s) \/ Raise(s) \/ SendFails(s) PROVE RefundInv'
  BY <1>4 DEF Throw, Raise, SendFails
<1>5. ASSUME NEW s \in Slots, NEW w \in Withdrawals, Deliver(s, w) PROVE RefundInv'
  BY <1>5 DEF Deliver
<1>6. ASSUME NEW a \in Actors, 
         ReconcileRead(a) \/ ReconcileAsk(a) \/ ReconcileWait(a) \/ ReconcileConfirm(a)
      PROVE RefundInv'
  BY <1>6 DEF ReconcileRead, ReconcileAsk, ReconcileWait, ReconcileConfirm
<1>7. ASSUME NEW p \in Pollers, 
         PollScan(p) \/ PollNext(p) \/ PollDone(p) \/ PollThrow(p)
      PROVE RefundInv'
  BY <1>7 DEF PollScan, PollNext, PollDone, PollThrow
<1>8. ASSUME NEW c \in Callers, NEW w \in Withdrawals, 
         Enqueue(c, w) \/ MarkEnqueued(c, w)
      PROVE RefundInv'
  BY <1>8 DEF Enqueue, MarkEnqueued
<1>9. ASSUME NEW w \in Withdrawals, 
         SubmitLost(w) \/ ApplyStatus(w) \/ RetryDelayElapses(w) \/ Stalled(w) \/ Forget(w)
      PROVE RefundInv'
  BY <1>9 DEF SubmitLost, ApplyStatus, RetryDelayElapses, Stalled, Forget
<1>10. ASSUME NEW n \in Nonces, Mine(n) \/ Bury(n) PROVE RefundInv'
  BY <1>10 DEF Mine, Bury
<1>11. ASSUME RecoverScan \/ Audit \/ WorkerCrash PROVE RefundInv'
  BY <1>11 DEF RecoverScan, Audit, WorkerCrash
<1>12. CASE UNCHANGED vars BY <1>12 DEF vars
<1> HIDE DEF RefundInv, IInv, TypeOK
<1> QED BY <1>1, <1>2, <1>3, <1>4, <1>5, <1>6, <1>7, <1>8, <1>9, <1>10, <1>11, <1>12 DEF Next,
    SlotStep, PollStep, Reconcile, Failure, Actors

\* Completion: COMPLETED is written after enough confirmations of the stored hash.
LEMMA CompletedStep ==
    IInv /\ ~Overlap /\ [Next]_vars => CompletedInv'
<1> SUFFICES ASSUME IInv /\ ~Overlap, [Next]_vars PROVE CompletedInv' OBVIOUS
<1> USE Settles, ActorAssumption, BoundAssumption DEF TypeOK, IInv, RowsTypeOK, QueueTypeOK,
    ActorTypeOK, rows, wd, job, att,
           tools, Owned, Settling, OwnersKept, CompletedInv
<1>1. ASSUME NEW s \in Slots, Record(s) PROVE CompletedInv'
  <2>1. cur[s] \in Withdrawals /\ nonce[s] \in Nonces /\ Owned(cur[s], nonce[s]) /\ signed[nonce[s]]
    BY <1>1 DEF Record, SlotInv, Actors
  <2>2. txHash[cur[s]] # NoNonce => txHash[cur[s]] = nonce[s]
    BY <2>1 DEF AttemptInv, HashInv, Nonces, NoNonce
  <2>3. CASE SuccessTaken(cur[s], nonce[s], nonce[s])
    BY <2>3, <1>1 DEF Record
  <2>4. CASE ~SuccessTaken(cur[s], nonce[s], nonce[s])
    <3>1. deep' = deep /\ status' = [status EXCEPT ![cur[s]] = "BROADCASTED"]
            /\ txHash' = [txHash EXCEPT ![cur[s]] = nonce[s]] /\ plan' = plan
      BY <2>4, <1>1 DEF Record
    <3> QED BY <2>1, <2>2, <3>1 DEF NoNonce, Nonces
  <2> QED BY <2>3, <2>4
<1>2. ASSUME NEW a \in Actors, ReconcileWait(a) PROVE CompletedInv'
  <2>1. cur[a] \in Withdrawals /\ hash[a] \in Nonces /\ Owned(cur[a], hash[a]) /\ signed[hash[a]]
    BY <1>2 DEF ReconcileWait, ReconcileInv, Actors
  <2>2. txHash[cur[a]] # NoNonce => txHash[cur[a]] = hash[a]
    BY <2>1 DEF AttemptInv, HashInv, Nonces, NoNonce
  <2> QED BY <2>1, <2>2, <1>2 DEF ReconcileWait, NoNonce, Nonces
<1>3. ASSUME NEW a \in Actors, ReconcileConfirm(a) PROVE CompletedInv'
  <2>1. cur[a] \in Withdrawals /\ hash[a] \in Nonces /\ Owned(cur[a], hash[a]) /\ signed[hash[a]]
    BY <1>3 DEF ReconcileConfirm, ReconcileInv, Actors
  <2>2. txHash[cur[a]] # NoNonce => txHash[cur[a]] = hash[a]
    BY <2>1 DEF AttemptInv, HashInv, Nonces, NoNonce
  <2> QED BY <2>1, <2>2, <1>3 DEF ReconcileConfirm, ReconcileInv, NoNonce, Nonces
<1>4. ASSUME Audit PROVE CompletedInv'
  BY <1>4 DEF Audit, PlannedAction, classifyWithdrawal
<1>5. ASSUME NEW w \in Withdrawals, ApplyStatus(w) PROVE CompletedInv'
  BY <1>5 DEF ApplyStatus, CallerTypeOK
<1>6. ASSUME NEW s \in Slots, 
         Load(s) \/ Reserve(s) \/ ReserveRefused(s) \/ Prepare(s) \/ Send(s)
      PROVE CompletedInv'
  BY <1>6 DEF Load, Reserve, ReserveRefused, Prepare, Send, CallerTypeOK, tools
<1>7. ASSUME NEW s \in Slots, 
         LookupFound(s) \/ LookupUncertain(s) \/ retryOrReview(s) \/ Finish(s) \/ Throw(s)
      PROVE CompletedInv'
  BY <1>7 DEF LookupFound, LookupUncertain, retryOrReview, Finish, Throw, CallerTypeOK, tools
<1>8. ASSUME NEW s \in Slots, Raise(s) \/ SendFails(s) PROVE CompletedInv'
  BY <1>8 DEF Raise, SendFails, CallerTypeOK, tools
<1>9. ASSUME NEW s \in Slots, NEW w \in Withdrawals, Deliver(s, w) PROVE CompletedInv'
  BY <1>9 DEF Deliver, CallerTypeOK, tools
<1>10. ASSUME NEW a \in Actors, 
         ReconcileRead(a) \/ ReconcileAsk(a) \/ ReconcileRefund(a)
      PROVE CompletedInv'
  BY <1>10 DEF ReconcileRead, ReconcileAsk, ReconcileRefund, CallerTypeOK, tools
<1>11. ASSUME NEW p \in Pollers, 
         PollScan(p) \/ PollNext(p) \/ PollDone(p) \/ PollThrow(p)
      PROVE CompletedInv'
  BY <1>11 DEF PollScan, PollNext, PollDone, PollThrow, CallerTypeOK, tools
<1>12. ASSUME NEW c \in Callers, NEW w \in Withdrawals, 
         Enqueue(c, w) \/ MarkEnqueued(c, w)
      PROVE CompletedInv'
  BY <1>12 DEF Enqueue, MarkEnqueued, CallerTypeOK, tools
<1>13. ASSUME NEW w \in Withdrawals, 
         SubmitLost(w) \/ RetryDelayElapses(w) \/ Stalled(w) \/ Forget(w)
      PROVE CompletedInv'
  BY <1>13 DEF SubmitLost, RetryDelayElapses, Stalled, Forget, CallerTypeOK, tools
<1>14. ASSUME NEW n \in Nonces, Mine(n) \/ Bury(n) PROVE CompletedInv'
  BY <1>14 DEF Mine, Bury, CallerTypeOK, tools
<1>15. ASSUME RecoverScan \/ WorkerCrash PROVE CompletedInv'
  BY <1>15 DEF RecoverScan, WorkerCrash, CallerTypeOK, tools
<1>16. CASE UNCHANGED vars BY <1>16 DEF vars
<1> HIDE DEF CompletedInv, IInv, TypeOK
<1> QED BY <1>1, <1>2, <1>3, <1>4, <1>5, <1>6, <1>7, <1>8, <1>9, <1>10, <1>11, <1>12, <1>13,
    <1>14, <1>15, <1>16 DEF Next, SlotStep, PollStep, Reconcile, Failure, Actors

\* A job row is closed by the confirming write or the refund only.
LEMMA ClosedStep ==
    IInv /\ ~Overlap /\ [Next]_vars => ClosedJobIsDecided'
<1> SUFFICES ASSUME IInv /\ ~Overlap, [Next]_vars PROVE ClosedJobIsDecided' OBVIOUS
<1> USE Settles, ActorAssumption DEF TypeOK, IInv, RowsTypeOK, QueueTypeOK, ActorTypeOK, rows, wd,
    job, att,
           tools, Owned, Settling, OwnersKept, ClosedJobIsDecided
<1>1. ASSUME NEW a \in Actors, ReconcileRefund(a) PROVE ClosedJobIsDecided'
  BY <1>1 DEF ReconcileRefund, ReconcileInv, Actors
<1>2. ASSUME NEW a \in Actors, ReconcileConfirm(a) PROVE ClosedJobIsDecided'
  BY <1>2 DEF ReconcileConfirm, ReconcileInv, Actors
<1>3. ASSUME NEW s \in Slots, 
         Load(s) \/ Reserve(s) \/ ReserveRefused(s) \/ Prepare(s) \/ Send(s)
      PROVE ClosedJobIsDecided'
  BY <1>3 DEF Load, Reserve, ReserveRefused, Prepare, Send
<1>4. ASSUME NEW s \in Slots, 
         LookupFound(s) \/ LookupUncertain(s) \/ Record(s) \/ retryOrReview(s) \/ Finish(s)
      PROVE ClosedJobIsDecided'
  BY <1>4 DEF LookupFound, LookupUncertain, Record, retryOrReview, Finish
<1>5. ASSUME NEW s \in Slots, Throw(s) \/ Raise(s) \/ SendFails(s) PROVE ClosedJobIsDecided'
  BY <1>5 DEF Throw, Raise, SendFails
<1>6. ASSUME NEW s \in Slots, NEW w \in Withdrawals, Deliver(s, w) PROVE ClosedJobIsDecided'
  BY <1>6 DEF Deliver
<1>7. ASSUME NEW a \in Actors, 
         ReconcileRead(a) \/ ReconcileAsk(a) \/ ReconcileWait(a)
      PROVE ClosedJobIsDecided'
  BY <1>7 DEF ReconcileRead, ReconcileAsk, ReconcileWait
<1>8. ASSUME NEW p \in Pollers, 
         PollScan(p) \/ PollNext(p) \/ PollDone(p) \/ PollThrow(p)
      PROVE ClosedJobIsDecided'
  BY <1>8 DEF PollScan, PollNext, PollDone, PollThrow
<1>9. ASSUME NEW c \in Callers, NEW w \in Withdrawals, 
         Enqueue(c, w) \/ MarkEnqueued(c, w)
      PROVE ClosedJobIsDecided'
  BY <1>9 DEF Enqueue, MarkEnqueued
<1>10. ASSUME NEW w \in Withdrawals, 
         SubmitLost(w) \/ ApplyStatus(w) \/ RetryDelayElapses(w) \/ Stalled(w) \/ Forget(w)
      PROVE ClosedJobIsDecided'
  BY <1>10 DEF SubmitLost, ApplyStatus, RetryDelayElapses, Stalled, Forget
<1>11. ASSUME NEW n \in Nonces, Mine(n) \/ Bury(n) PROVE ClosedJobIsDecided'
  BY <1>11 DEF Mine, Bury
<1>12. ASSUME RecoverScan \/ Audit \/ WorkerCrash PROVE ClosedJobIsDecided'
  BY <1>12 DEF RecoverScan, Audit, WorkerCrash
<1>13. CASE UNCHANGED vars BY <1>13 DEF vars
<1> HIDE DEF ClosedJobIsDecided, IInv, TypeOK
<1> QED BY <1>1, <1>2, <1>3, <1>4, <1>5, <1>6, <1>7, <1>8, <1>9, <1>10, <1>11, <1>12, <1>13 DEF
    Next, SlotStep, PollStep, Reconcile, Failure, Actors

\* reconcileWithdrawal: the hash is that of the newest attempt, its receipt is final.
LEMMA ReconcileStep ==
    IInv /\ [Next]_vars => ReconcileInv'
<1> SUFFICES ASSUME IInv, [Next]_vars PROVE ReconcileInv' OBVIOUS
<1> USE Settles, ActorAssumption, BoundAssumption DEF TypeOK, IInv, RowsTypeOK, QueueTypeOK,
    ActorTypeOK, rows, wd, job, att, locals, Owned, Settling, OwnersKept, Goto, Actors,
    ReconcileInv
<1>1. ASSUME NEW a \in Actors, ReconcileRead(a) PROVE ReconcileInv'
  <2>1. PICK k \in Nonces \cup {NoNonce} :
          /\ IsNewest(cur[a], k)
          /\ nonce' = [nonce EXCEPT ![a] = k]
          /\ hash' = [hash EXCEPT ![a] = HashOf(cur[a], k)]
          /\ pc' = [pc EXCEPT ![a] = IF status[cur[a]] = "COMPLETED" \/ HashOf(cur[a], k) = NoNonce
                 THEN "finish" ELSE "ask"]
    BY <1>1 DEF ReconcileRead
  <2>2. cur[a] \in Withdrawals
    BY <1>1 DEF ReconcileRead
  <2>3. ASSUME HashOf(cur[a], k) # NoNonce
        PROVE  k \in Nonces /\ HashOf(cur[a], k) = k /\ attOf[k] = cur[a] /\ signed[k]
    <3>1. CASE txHash[cur[a]] # NoNonce
      BY <2>1, <2>2, <2>3, <3>1 DEF HashOf, HashInv, AttemptInv, IsNewest, Nonces, NoNonce
    <3>2. CASE txHash[cur[a]] = NoNonce
      BY <2>1, <2>2, <2>3, <3>2 DEF HashOf, HashInv, IsNewest, Nonces, NoNonce
    <3> QED BY <3>1, <3>2
  <2> QED BY <2>1, <2>2, <2>3, <1>1 DEF ReconcileRead
<1>2. ASSUME NEW a \in Actors, ReconcileAsk(a) PROVE ReconcileInv'
  BY <1>2 DEF ReconcileAsk, Receipt, ChainState, Receipts
<1>3. ASSUME NEW s \in Slots, Finish(s) PROVE ReconcileInv'
  BY <1>3 DEF Finish, Return
<1>4. ASSUME NEW s \in Slots, Throw(s) PROVE ReconcileInv'
  BY <1>4 DEF Throw, Return
<1>5. ASSUME WorkerCrash PROVE ReconcileInv'
  BY <1>5 DEF WorkerCrash, Return
<1>6. ASSUME NEW p \in Pollers, PollDone(p) PROVE ReconcileInv'
  BY <1>6 DEF PollDone, Return
<1>7. ASSUME NEW p \in Pollers, PollThrow(p) PROVE ReconcileInv'
  BY <1>7 DEF PollThrow, Return
<1>8. ASSUME NEW s \in Slots, Reserve(s) PROVE ReconcileInv'
  BY <1>8 DEF Reserve, Return
<1>9. ASSUME NEW s \in Slots, NEW w \in Withdrawals, Deliver(s, w) PROVE ReconcileInv'
  BY <1>9 DEF Deliver, Return
<1>10. ASSUME NEW p \in Pollers, PollNext(p) PROVE ReconcileInv'
  BY <1>10 DEF PollNext, Return
<1>11. ASSUME NEW s \in Slots, 
         Load(s) \/ ReserveRefused(s) \/ Prepare(s) \/ Send(s) \/ LookupFound(s)
      PROVE ReconcileInv'
  BY <1>11 DEF Load, ReserveRefused, Prepare, Send, LookupFound, Return
<1>12. ASSUME NEW s \in Slots, 
         LookupUncertain(s) \/ Record(s) \/ retryOrReview(s) \/ Raise(s) \/ SendFails(s)
      PROVE ReconcileInv'
  BY <1>12 DEF LookupUncertain, Record, retryOrReview, Raise, SendFails, Return
<1>13. ASSUME NEW a \in Actors, 
         ReconcileWait(a) \/ ReconcileConfirm(a) \/ ReconcileRefund(a)
      PROVE ReconcileInv'
  BY <1>13 DEF ReconcileWait, ReconcileConfirm, ReconcileRefund, Return
<1>14. ASSUME NEW p \in Pollers, PollScan(p) PROVE ReconcileInv'
  BY <1>14 DEF PollScan, Return
<1>15. ASSUME NEW c \in Callers, NEW w \in Withdrawals, 
         Enqueue(c, w) \/ MarkEnqueued(c, w)
      PROVE ReconcileInv'
  BY <1>15 DEF Enqueue, MarkEnqueued, Return
<1>16. ASSUME NEW w \in Withdrawals, 
         SubmitLost(w) \/ ApplyStatus(w) \/ RetryDelayElapses(w) \/ Stalled(w) \/ Forget(w)
      PROVE ReconcileInv'
  BY <1>16 DEF SubmitLost, ApplyStatus, RetryDelayElapses, Stalled, Forget, Return
<1>17. ASSUME NEW n \in Nonces, Mine(n) \/ Bury(n) PROVE ReconcileInv'
  BY <1>17 DEF Mine, Bury, Return
<1>18. ASSUME RecoverScan \/ Audit PROVE ReconcileInv'
  BY <1>18 DEF RecoverScan, Audit, Return
<1>19. CASE UNCHANGED vars BY <1>19 DEF vars
<1> HIDE DEF ReconcileInv, IInv, TypeOK
<1> QED BY <1>1, <1>2, <1>3, <1>4, <1>5, <1>6, <1>7, <1>8, <1>9, <1>10, <1>11, <1>12, <1>13,
    <1>14, <1>15, <1>16, <1>17, <1>18, <1>19 DEF Next, SlotStep, PollStep, Reconcile, Failure,
    Actors

\* processWithdrawal: the lock keeps other slots from signing for the same withdrawal.
LEMMA SlotInvStep ==
    IInv /\ ~Overlap /\ [Next]_vars => SlotInv'
<1> SUFFICES ASSUME IInv /\ ~Overlap, [Next]_vars PROVE SlotInv' OBVIOUS
<1> USE Settles, ActorAssumption, BoundAssumption DEF TypeOK, IInv, RowsTypeOK, QueueTypeOK,
    ActorTypeOK, rows, wd, job, att, locals, Owned, Settling, OwnersKept, Goto, Actors, SlotInv
<1>1. ASSUME NEW s \in Slots, Load(s) PROVE SlotInv'
  <2>1. PICK k \in Nonces \cup {NoNonce} :
          /\ IsNewest(cur[s], k)
          /\ pc' = [pc EXCEPT ![s] =
               IF status[cur[s]] = "COMPLETED" \/ jobStatus[cur[s]] = "COMPLETED" THEN "finish"
               ELSE IF mayBroadcastWithdrawal(cur[s], k) THEN "reserve"
               ELSE IF HashOf(cur[s], k) # NoNonce THEN "read" ELSE "finish"]
    BY <1>1 DEF Load
  <2>2. cur[s] \in Withdrawals
    BY <1>1 DEF Load
  <2>3. mayBroadcastWithdrawal(cur[s], k) => Unsigned(cur[s])
    BY <2>1, <2>2 DEF mayBroadcastWithdrawal, HashOf, IsNewest, Unsigned, AttemptInv, Nonces,
       NoNonce
  <2>4. UNCHANGED <<attOf, signed, chain, cur, nonce>>
    BY <1>1 DEF Load
  <2> QED BY <2>1, <2>3, <2>4 DEF Unsigned
<1>2. ASSUME NEW s \in Slots, Reserve(s) PROVE SlotInv'
  <2>1. PICK k \in Nonces :
          /\ \A m \in Nonces : attOf[m] # NoWithdrawal => m < k
          /\ attOf' = [attOf EXCEPT ![k] = cur[s]]
          /\ nonce' = [nonce EXCEPT ![s] = k]
    BY <1>2, ReserveFresh
  <2>2. attOf[k] = NoWithdrawal /\ ~signed[k] /\ cur[s] \in Withdrawals
    BY <2>1, <1>2 DEF Reserve, AttemptInv, Nonces
  <2>3. \A t \in Slots \ {s} : pc[t] # "idle" => cur[t] # cur[s]
    BY <1>2 DEF Reserve, LockInv
  <2>4. UNCHANGED <<signed, chain>> /\ pc' = [pc EXCEPT ![s] = "prepare"] /\ cur' = cur
    BY <1>2 DEF Reserve
  <2>5. pc[s] = "reserve" BY <1>2 DEF Reserve
  <2> QED BY <2>1, <2>2, <2>3, <2>4, <2>5 DEF Unsigned, Nonces
<1>3. ASSUME NEW s \in Slots, Prepare(s) PROVE SlotInv'
  <2>1. \A t \in Slots \ {s} : pc[t] # "idle" => cur[t] # cur[s]
    BY <1>3 DEF Prepare, LockInv
  <2>2. attOf[nonce[s]] = cur[s] /\ ~signed[nonce[s]] /\ chain[nonce[s]] = "unsent"
    BY <1>3 DEF Prepare, AttemptInv, Unsigned
  <2>3. UNCHANGED <<attOf, chain, cur, nonce>> /\ pc' = [pc EXCEPT ![s] = "send"]
          /\ signed' = [signed EXCEPT ![nonce[s]] = TRUE]
    BY <1>3 DEF Prepare
  <2>4. \A t \in Slots \ {s} : pc[t] \in {"send", "lookup", "record"} => nonce[t] # nonce[s]
    BY <2>1, <2>2
  <2>5. pc[s] = "prepare" BY <1>3 DEF Prepare
  <2>6. \A t \in Slots \ {s} : cur[t] # cur[s] /\ Unsigned(cur[t]) => Unsigned(cur[t])'
    BY <2>2, <2>3 DEF Unsigned
  <2> QED BY <2>1, <2>2, <2>3, <2>4, <2>5, <2>6
<1>4. ASSUME NEW s \in Slots, Send(s) PROVE SlotInv'
  <2>1. \A t \in Slots \ {s} : pc[t] # "idle" => cur[t] # cur[s]
    BY <1>4 DEF Send, LockInv
  <2>2. UNCHANGED <<attOf, signed, cur, nonce>> /\ pc' = [pc EXCEPT ![s] = "record"]
          /\ \A m \in Nonces \ {nonce[s]} : chain'[m] = chain[m]
    BY <1>4 DEF Send
  <2>3. pc[s] = "send" BY <1>4 DEF Send
  <2> QED BY <2>1, <2>2, <2>3 DEF Unsigned
<1>5. ASSUME NEW s \in Slots, SendFails(s) PROVE SlotInv'
  <2>1. \A t \in Slots \ {s} : pc[t] # "idle" => cur[t] # cur[s]
    BY <1>5 DEF SendFails, LockInv
  <2>2. UNCHANGED <<attOf, signed, cur, nonce>> /\ pc' = [pc EXCEPT ![s] = "lookup"]
          /\ \A m \in Nonces \ {nonce[s]} : chain'[m] = chain[m]
    BY <1>5 DEF SendFails
  <2>3. pc[s] = "send" BY <1>5 DEF SendFails
  <2> QED BY <2>1, <2>2, <2>3 DEF Unsigned
<1>6. ASSUME RecoverScan PROVE SlotInv'
  BY <1>6 DEF RecoverScan, Unsigned
<1>7. ASSUME Audit PROVE SlotInv'
  BY <1>7 DEF Audit, Unsigned
<1>8. ASSUME NEW s \in Slots, LookupFound(s) PROVE SlotInv'
  BY <1>8 DEF LookupFound, Return, PollerInv, Unsigned
<1>9. ASSUME NEW s \in Slots, LookupUncertain(s) PROVE SlotInv'
  BY <1>9 DEF LookupUncertain, Return, PollerInv, Unsigned
<1>10. ASSUME NEW s \in Slots, Record(s) PROVE SlotInv'
  BY <1>10 DEF Record, Return, PollerInv, Unsigned
<1>11. ASSUME NEW s \in Slots, retryOrReview(s) PROVE SlotInv'
  BY <1>11 DEF retryOrReview, Return, PollerInv, Unsigned
<1>12. ASSUME NEW s \in Slots, Finish(s) PROVE SlotInv'
  BY <1>12 DEF Finish, Return, PollerInv, Unsigned
<1>13. ASSUME NEW s \in Slots, Throw(s) PROVE SlotInv'
  BY <1>13 DEF Throw, Return, PollerInv, Unsigned
<1>14. ASSUME NEW s \in Slots, Raise(s) PROVE SlotInv'
  BY <1>14 DEF Raise, Return, PollerInv, Unsigned
<1>15. ASSUME NEW s \in Slots, NEW w \in Withdrawals, Deliver(s, w) PROVE SlotInv'
  BY <1>15 DEF Deliver, Return, PollerInv, Unsigned
<1>16. ASSUME WorkerCrash PROVE SlotInv'
  BY <1>16 DEF WorkerCrash, Return, PollerInv, Unsigned
<1>17. ASSUME NEW s \in Slots, ReserveRefused(s) PROVE SlotInv'
  BY <1>17 DEF ReserveRefused, Return, PollerInv, Unsigned
<1>18. ASSUME NEW n \in Nonces, Mine(n) PROVE SlotInv'
  BY <1>18 DEF Mine, Return, PollerInv, Unsigned
<1>19. ASSUME NEW n \in Nonces, Bury(n) PROVE SlotInv'
  BY <1>19 DEF Bury, Return, PollerInv, Unsigned
<1>20. ASSUME NEW a \in Actors, 
         ReconcileRead(a) \/ ReconcileAsk(a) \/ ReconcileWait(a) \/ ReconcileConfirm(a)
      PROVE SlotInv'
  BY <1>20 DEF ReconcileRead, ReconcileAsk, ReconcileWait, ReconcileConfirm, Return, PollerInv,
     Unsigned
<1>21. ASSUME NEW a \in Actors, ReconcileRefund(a) PROVE SlotInv'
  BY <1>21 DEF ReconcileRefund, Return, PollerInv, Unsigned
<1>22. ASSUME NEW p \in Pollers, 
         PollScan(p) \/ PollNext(p) \/ PollDone(p) \/ PollThrow(p)
      PROVE SlotInv'
  BY <1>22 DEF PollScan, PollNext, PollDone, PollThrow, Return, PollerInv, Unsigned
<1>23. ASSUME NEW c \in Callers, NEW w \in Withdrawals, 
         Enqueue(c, w) \/ MarkEnqueued(c, w)
      PROVE SlotInv'
  BY <1>23 DEF Enqueue, MarkEnqueued, Return, PollerInv, Unsigned
<1>24. ASSUME NEW w \in Withdrawals, 
         SubmitLost(w) \/ ApplyStatus(w) \/ RetryDelayElapses(w) \/ Stalled(w)
      PROVE SlotInv'
  BY <1>24 DEF SubmitLost, ApplyStatus, RetryDelayElapses, Stalled, Return, PollerInv, Unsigned
<1>25. ASSUME NEW w \in Withdrawals, Forget(w) PROVE SlotInv'
  BY <1>25 DEF Forget, Return, PollerInv, Unsigned
<1>26. CASE UNCHANGED vars BY <1>26 DEF vars, Unsigned
<1> HIDE DEF SlotInv, IInv, TypeOK
<1> QED BY <1>1, <1>2, <1>3, <1>4, <1>5, <1>6, <1>7, <1>8, <1>9, <1>10, <1>11, <1>12, <1>13,
    <1>14, <1>15, <1>16, <1>17, <1>18, <1>19, <1>20, <1>21, <1>22, <1>23, <1>24, <1>25, <1>26 DEF
    Next, SlotStep, PollStep, Reconcile, Failure, Actors

-----------------------------------------------------------------------------
(* The invariant and what follows from it                                  *)

\* The invariant holds initially.
LEMMA InitIInv == Init => IInv
<1> SUFFICES ASSUME Init PROVE IInv OBVIOUS
<1> USE BoundAssumption, BalanceAssumption DEF Init
<1>1. RowsTypeOK
  BY DEF RowsTypeOK, WdStatus, JobStatus, AttStatus, NoNonce
<1>2. QueueTypeOK /\ CallerTypeOK
  BY DEF QueueTypeOK, CallerTypeOK, BullState, ChainState, Callers
<1>3. ActorTypeOK
  BY DEF ActorTypeOK, Labels, Receipts, NoNonce
<1>4. LockInv /\ PollerInv /\ SlotInv /\ ReconcileInv
  BY DEF LockInv, PollerInv, SlotInv, ReconcileInv, Actors
<1>5. AttemptInv /\ HashInv
  BY DEF AttemptInv, HashInv
<1>6. RefundInv /\ CompletedInv /\ ClosedJobIsDecided
  BY DEF RefundInv, CompletedInv, ClosedJobIsDecided
<1> QED BY <1>1, <1>2, <1>3, <1>4, <1>5, <1>6 DEF IInv, TypeOK

\* The invariant holds in every reachable state of a system without overlap.
LEMMA Invariance ==
    ASSUME ~Overlap
    PROVE  Spec => []IInv
<1>1. IInv /\ [Next]_vars => IInv'
  <2> SUFFICES ASSUME IInv, [Next]_vars PROVE IInv' OBVIOUS
  <2>1. TypeOK' BY TypeStep DEF IInv
  <2>2. LockInv' /\ PollerInv' /\ AttemptInv' /\ SlotInv'
    BY LockStep, PollerStep, AttemptStep, SlotInvStep
  <2>3. HashInv' /\ ReconcileInv' /\ RefundInv' /\ CompletedInv' /\ ClosedJobIsDecided'
    BY HashStep, ReconcileStep, RefundStep, CompletedStep, ClosedStep
  <2> QED BY <2>1, <2>2, <2>3 DEF IInv
<1> QED BY <1>1, InitIInv, PTL DEF Spec

\* Of the attempts of one withdrawal at most one was ever sent.
LEMMA OneSigned ==
    ASSUME IInv, NEW m \in Nonces, NEW n \in Nonces,
           attOf[m] = attOf[n], chain[m] # "unsent", chain[n] # "unsent"
    PROVE  m = n /\ attOf[m] # NoWithdrawal
<1>1. signed[m] /\ signed[n] /\ attOf[m] # NoWithdrawal
  BY DEF IInv, AttemptInv
<1>2. m <= n /\ n <= m
  BY <1>1 DEF IInv, AttemptInv, Owned
<1> QED BY <1>1, <1>2, BoundAssumption DEF Nonces

HashStaysPut == \A w \in Withdrawals : txHash[w] # NoNonce => txHash'[w] = txHash[w]

\* The stored hash is that of the only signed attempt, and so is every hash written.
LEMMA HashStays ==
    IInv /\ [Next]_vars => HashStaysPut
<1> SUFFICES ASSUME IInv, [Next]_vars PROVE HashStaysPut OBVIOUS
<1> USE ActorAssumption, BoundAssumption DEF TypeOK, IInv, RowsTypeOK, QueueTypeOK, ActorTypeOK,
    rows, wd, job, att, Owned, HashStaysPut
<1>1. ASSUME NEW s \in Slots, Record(s) PROVE HashStaysPut
  <2>1. cur[s] \in Withdrawals /\ nonce[s] \in Nonces /\ Owned(cur[s], nonce[s]) /\ signed[nonce[s]]
    BY <1>1 DEF Record, SlotInv, Actors
  <2>2. txHash[cur[s]] # NoNonce => txHash[cur[s]] = nonce[s]
    BY <2>1 DEF AttemptInv, HashInv, Nonces, NoNonce
  <2>3. CASE SuccessTaken(cur[s], nonce[s], nonce[s])
    BY <2>3, <1>1 DEF Record
  <2>4. CASE ~SuccessTaken(cur[s], nonce[s], nonce[s])
    BY <2>1, <2>2, <2>4, <1>1 DEF Record
  <2> QED BY <2>3, <2>4
<1>2. ASSUME NEW a \in Actors, ReconcileWait(a) PROVE HashStaysPut
  <2>1. cur[a] \in Withdrawals /\ hash[a] \in Nonces /\ Owned(cur[a], hash[a]) /\ signed[hash[a]]
    BY <1>2 DEF ReconcileWait, ReconcileInv, Actors
  <2>2. txHash[cur[a]] # NoNonce => txHash[cur[a]] = hash[a]
    BY <2>1 DEF AttemptInv, HashInv, Nonces, NoNonce
  <2> QED BY <2>1, <2>2, <1>2 DEF ReconcileWait
<1>3. ASSUME NEW a \in Actors, ReconcileConfirm(a) PROVE HashStaysPut
  <2>1. cur[a] \in Withdrawals /\ hash[a] \in Nonces /\ Owned(cur[a], hash[a]) /\ signed[hash[a]]
    BY <1>3 DEF ReconcileConfirm, ReconcileInv, Actors
  <2>2. txHash[cur[a]] # NoNonce => txHash[cur[a]] = hash[a]
    BY <2>1 DEF AttemptInv, HashInv, Nonces, NoNonce
  <2> QED BY <2>1, <2>2, <1>3 DEF ReconcileConfirm
<1>4. ASSUME NEW s \in Slots, 
         Load(s) \/ Reserve(s) \/ ReserveRefused(s) \/ Prepare(s) \/ Send(s)
      PROVE HashStaysPut
  BY <1>4 DEF Load, Reserve, ReserveRefused, Prepare, Send
<1>5. ASSUME NEW s \in Slots, 
         LookupFound(s) \/ LookupUncertain(s) \/ retryOrReview(s) \/ Finish(s) \/ Throw(s)
      PROVE HashStaysPut
  BY <1>5 DEF LookupFound, LookupUncertain, retryOrReview, Finish, Throw
<1>6. ASSUME NEW s \in Slots, Raise(s) \/ SendFails(s) PROVE HashStaysPut
  BY <1>6 DEF Raise, SendFails
<1>7. ASSUME NEW s \in Slots, NEW w \in Withdrawals, Deliver(s, w) PROVE HashStaysPut
  BY <1>7 DEF Deliver
<1>8. ASSUME NEW a \in Actors, ReconcileRead(a) \/ ReconcileAsk(a) \/ ReconcileRefund(a) PROVE HashStaysPut
  BY <1>8 DEF ReconcileRead, ReconcileAsk, ReconcileRefund
<1>9. ASSUME NEW p \in Pollers, 
         PollScan(p) \/ PollNext(p) \/ PollDone(p) \/ PollThrow(p)
      PROVE HashStaysPut
  BY <1>9 DEF PollScan, PollNext, PollDone, PollThrow
<1>10. ASSUME NEW c \in Callers, NEW w \in Withdrawals, 
         Enqueue(c, w) \/ MarkEnqueued(c, w)
      PROVE HashStaysPut
  BY <1>10 DEF Enqueue, MarkEnqueued
<1>11. ASSUME NEW w \in Withdrawals, 
         SubmitLost(w) \/ ApplyStatus(w) \/ RetryDelayElapses(w) \/ Stalled(w) \/ Forget(w)
      PROVE HashStaysPut
  BY <1>11 DEF SubmitLost, ApplyStatus, RetryDelayElapses, Stalled, Forget
<1>12. ASSUME NEW n \in Nonces, Mine(n) \/ Bury(n) PROVE HashStaysPut
  BY <1>12 DEF Mine, Bury
<1>13. ASSUME RecoverScan \/ Audit \/ WorkerCrash PROVE HashStaysPut
  BY <1>13 DEF RecoverScan, Audit, WorkerCrash
<1>14. CASE UNCHANGED vars BY <1>14 DEF vars
<1> HIDE DEF IInv, TypeOK, HashStaysPut
<1> QED BY <1>1, <1>2, <1>3, <1>4, <1>5, <1>6, <1>7, <1>8, <1>9, <1>10, <1>11, <1>12, <1>13, <1>14
    DEF Next, SlotStep, PollStep, Reconcile, Failure, Actors

ContractStep ==
    \/ Contract!Next
    \/ UNCHANGED wallet /\ \A w \in Withdrawals : Phase(w)' = Phase(w)

\* The phase depends on attempts, chain and refunds only.
LEMMA PhaseFrame ==
    UNCHANGED <<attOf, chain, refunded>> => \A w \in Withdrawals : Phase(w)' = Phase(w)
BY DEF Phase

\* A refund of the full debited amount is the contract's Refund.
LEMMA RefundMaps ==
    ASSUME NEW w \in Withdrawals, Phase(w) = "held", Phase(w)' = "refunded",
           \A v \in Withdrawals \ {w} : Phase(v)' = Phase(v),
           wallet' = [wallet EXCEPT ![Owner[w]] = @ + Amount[w]]
    PROVE  Contract!Refund(w)
BY DEF Contract!Refund

\* Every step is a step of the contract or leaves its variables alone.
LEMMA StepsKeepContract ==
    IInv /\ [Next]_vars => ContractStep
<1> SUFFICES ASSUME IInv, [Next]_vars PROVE ContractStep OBVIOUS
<1> USE BoundAssumption, ActorAssumption, PhaseFrame DEF TypeOK, IInv, RowsTypeOK, QueueTypeOK,
    ActorTypeOK, rows, att, ContractStep
<1>1. ASSUME NEW s \in Slots, Reserve(s) PROVE ContractStep
  <2>1. PICK k \in Nonces :
          /\ \A m \in Nonces : attOf[m] # NoWithdrawal => m < k
          /\ attOf' = [attOf EXCEPT ![k] = cur[s]]
    BY <1>1, ReserveFresh
  <2>2. chain[k] = "unsent"
    BY <2>1 DEF AttemptInv, Nonces
  <2>3. UNCHANGED <<chain, refunded, wallet>> /\ cur[s] \in Withdrawals
    BY <1>1 DEF Reserve, Actors
  <2>4. \A w \in Withdrawals : Phase(w)' = Phase(w)
    BY <2>1, <2>2, <2>3 DEF Phase, Nonces
  <2> QED BY <2>3, <2>4
<1>2. ASSUME NEW s \in Slots, Send(s) PROVE ContractStep
  <2>1. chain[nonce[s]] = "unsent" /\ chain'[nonce[s]] \in {"pool", "unsent"}
          /\ \A m \in Nonces \ {nonce[s]} : chain'[m] = chain[m]
    BY <1>2 DEF Send, SlotInv
  <2>2. UNCHANGED <<attOf, refunded, wallet>>
    BY <1>2 DEF Send
  <2>3. \A w \in Withdrawals : Phase(w)' = Phase(w)
    BY <2>1, <2>2 DEF Phase
  <2> QED BY <2>2, <2>3
<1>3. ASSUME NEW s \in Slots, SendFails(s) PROVE ContractStep
  <2>1. chain[nonce[s]] = "unsent" /\ chain'[nonce[s]] \in {"pool", "unsent"}
          /\ \A m \in Nonces \ {nonce[s]} : chain'[m] = chain[m]
    BY <1>3 DEF SendFails, SlotInv
  <2>2. UNCHANGED <<attOf, refunded, wallet>>
    BY <1>3 DEF SendFails
  <2>3. \A w \in Withdrawals : Phase(w)' = Phase(w)
    BY <2>1, <2>2 DEF Phase
  <2> QED BY <2>2, <2>3
<1>4. ASSUME NEW n \in Nonces, Mine(n) PROVE ContractStep
  <2>1. PICK result \in {"mined", "reverted"} : chain' = [chain EXCEPT ![n] = result]
    BY <1>4 DEF Mine
  <2>2. chain[n] = "pool" /\ UNCHANGED <<attOf, refunded, wallet>>
    BY <1>4 DEF Mine
  <2>3. attOf[n] \in Withdrawals
    BY <2>2 DEF AttemptInv
  <2>4. \A m \in Nonces \ {n} : attOf[m] = attOf[n] => chain[m] = "unsent"
    BY <2>2, OneSigned
  <2>5. Phase(attOf[n]) = "held"
    BY <2>2, <2>3, <2>4 DEF Phase, RefundInv, Owned
  <2>6. \A w \in Withdrawals \ {attOf[n]} : Phase(w)' = Phase(w)
    BY <2>1, <2>2 DEF Phase
  <2>7. ~refunded[attOf[n]]
    BY <2>3, <2>5 DEF Phase
  <2>8. CASE result = "mined"
    <3>1. Phase(attOf[n])' = "paid"
      BY <2>1, <2>2, <2>3, <2>7, <2>8 DEF Phase
    <3>2. Contract!Pay(attOf[n])
      BY <2>2, <2>3, <2>5, <2>6, <3>1 DEF Contract!Pay
    <3> QED BY <2>3, <3>2 DEF Contract!Next
  <2>9. CASE result = "reverted"
    <3>1. Phase(attOf[n])' = "held"
      BY <2>1, <2>2, <2>3, <2>4, <2>7, <2>9 DEF Phase
    <3> QED BY <2>2, <2>5, <2>6, <3>1
  <2> QED BY <2>8, <2>9
<1>5. ASSUME NEW n \in Nonces, Bury(n) PROVE ContractStep
  <2>1. chain[n] = "mined" /\ chain' = [chain EXCEPT ![n] = "final"]
          /\ UNCHANGED <<attOf, refunded, wallet>>
    BY <1>5 DEF Bury
  <2>2. \A w \in Withdrawals : Phase(w)' = Phase(w)
    BY <2>1 DEF Phase
  <2> QED BY <2>1, <2>2
<1>6. ASSUME NEW a \in Actors, ReconcileRefund(a) PROVE ContractStep
  <2>1. CASE refunded[cur[a]]
    <3>1. UNCHANGED <<attOf, chain, refunded, wallet>> BY <2>1, <1>6 DEF ReconcileRefund
    <3> QED BY <3>1
  <2>2. CASE ~refunded[cur[a]]
    <3>1. PICK w \in Withdrawals : w = cur[a]
      BY <1>6 DEF ReconcileRefund
    <3>2. hash[a] \in Nonces /\ attOf[hash[a]] = w /\ chain[hash[a]] = "reverted"
      BY <3>1, <1>6 DEF ReconcileRefund, ReconcileInv, Owned
    <3>3. \A m \in Nonces : attOf[m] = w => chain[m] \in {"unsent", "reverted"}
      BY <3>2, OneSigned
    <3>4. Phase(w) = "held"
      BY <2>2, <3>1, <3>3 DEF Phase
    <3>5. UNCHANGED <<attOf, chain>> /\ refunded' = [refunded EXCEPT ![w] = TRUE]
            /\ wallet' = [wallet EXCEPT ![Owner[w]] = @ + Amount[w]]
      BY <2>2, <3>1, <1>6 DEF ReconcileRefund
    <3>6. Phase(w)' = "refunded"
      BY <3>5 DEF Phase
    <3>7. \A v \in Withdrawals \ {w} : Phase(v)' = Phase(v)
      BY <3>5 DEF Phase
    <3>8. Contract!Refund(w)
      BY <3>4, <3>5, <3>6, <3>7, RefundMaps
    <3> QED BY <3>8 DEF Contract!Next
  <2> QED BY <2>1, <2>2
<1>7. ASSUME RecoverScan PROVE ContractStep
  BY <1>7 DEF RecoverScan
<1>8. ASSUME Audit PROVE ContractStep
  BY <1>8 DEF Audit
<1>9. ASSUME NEW s \in Slots, 
         Load(s) \/ ReserveRefused(s) \/ Prepare(s) \/ LookupFound(s) \/ LookupUncertain(s)
      PROVE ContractStep
  BY <1>9 DEF Load, ReserveRefused, Prepare, LookupFound, LookupUncertain
<1>10. ASSUME NEW s \in Slots, 
         Record(s) \/ retryOrReview(s) \/ Finish(s) \/ Throw(s) \/ Raise(s)
      PROVE ContractStep
  BY <1>10 DEF Record, retryOrReview, Finish, Throw, Raise
<1>11. ASSUME NEW s \in Slots, NEW w \in Withdrawals, Deliver(s, w) PROVE ContractStep
  BY <1>11 DEF Deliver
<1>12. ASSUME NEW a \in Actors, 
         ReconcileRead(a) \/ ReconcileAsk(a) \/ ReconcileWait(a) \/ ReconcileConfirm(a)
      PROVE ContractStep
  BY <1>12 DEF ReconcileRead, ReconcileAsk, ReconcileWait, ReconcileConfirm
<1>13. ASSUME NEW p \in Pollers, 
         PollScan(p) \/ PollNext(p) \/ PollDone(p) \/ PollThrow(p)
      PROVE ContractStep
  BY <1>13 DEF PollScan, PollNext, PollDone, PollThrow
<1>14. ASSUME NEW c \in Callers, NEW w \in Withdrawals, 
         Enqueue(c, w) \/ MarkEnqueued(c, w)
      PROVE ContractStep
  BY <1>14 DEF Enqueue, MarkEnqueued
<1>15. ASSUME NEW w \in Withdrawals, 
         SubmitLost(w) \/ ApplyStatus(w) \/ RetryDelayElapses(w) \/ Stalled(w) \/ Forget(w)
      PROVE ContractStep
  BY <1>15 DEF SubmitLost, ApplyStatus, RetryDelayElapses, Stalled, Forget
<1>16. ASSUME WorkerCrash PROVE ContractStep
  BY <1>16 DEF WorkerCrash
<1>17. CASE UNCHANGED vars BY <1>17 DEF vars
<1> HIDE DEF IInv, TypeOK, ContractStep
<1> QED BY <1>1, <1>2, <1>3, <1>4, <1>5, <1>6, <1>7, <1>8, <1>9, <1>10, <1>11, <1>12, <1>13,
    <1>14, <1>15, <1>16, <1>17 DEF Next, SlotStep, PollStep, Reconcile, Failure, Actors

-----------------------------------------------------------------------------
(* Theorems                                                                *)

\* Every variable keeps its type, with or without overlapping deliveries.
THEOREM TypeCorrect == Spec => []TypeOK
<1>1. Init => TypeOK
  BY InitIInv DEF IInv
<1> QED BY <1>1, TypeStep, PTL DEF Spec

\* Tokens leave the hot wallet at most once per withdrawal, whatever crashes,
\* retries, stalls and audits happen.
THEOREM PaysOnce ==
    ASSUME ~Overlap
    PROVE  Spec => []AtMostOnePayout
<1>1. IInv => AtMostOnePayout
  BY OneSigned DEF AtMostOnePayout, Leaves
<1> QED BY <1>1, Invariance, PTL

\* refundFailedWithdrawal never returns money of a withdrawal that is or may be paid.
THEOREM NeverPaysARefund ==
    ASSUME ~Overlap
    PROVE  Spec => []RefundedIsNotPaid
<1>1. IInv => RefundedIsNotPaid
  <2> SUFFICES ASSUME IInv, NEW w \in Withdrawals, refunded[w], NEW n \in Nonces, attOf[n] = w
               PROVE  ~Leaves(n)
    BY DEF RefundedIsNotPaid
  <2>1. PICK m \in Nonces : attOf[m] = w /\ chain[m] = "reverted"
    BY DEF IInv, RefundInv, Owned
  <2> QED BY <2>1, OneSigned DEF Leaves
<1> QED BY <1>1, Invariance, PTL

\* COMPLETED is only shown for a buried transaction of this withdrawal.
THEOREM CompletesPaidOnly ==
    ASSUME ~Overlap
    PROVE  Spec => []CompletedIsPaid
<1>1. IInv => CompletedIsPaid
  BY BoundAssumption DEF IInv, CompletedInv, HashInv, Owned, CompletedIsPaid, NoNonce, Nonces
<1> QED BY <1>1, Invariance, PTL

\* A closed job row belongs to a paid or refunded withdrawal.
THEOREM ClosesDecidedOnly ==
    ASSUME ~Overlap
    PROVE  Spec => []ClosedJobIsDecided
<1>1. IInv => ClosedJobIsDecided
  BY DEF IInv
<1> QED BY <1>1, Invariance, PTL

\* A nonce stays with the withdrawal it was reserved for, even if deliveries overlap:
\* the advisory lock and the largest reserved nonce see to it.
THEOREM NonceOwnership == Spec => NonceKeepsOwner
<1>1. TypeOK /\ [Next]_vars =>
        [\A n \in Nonces : attOf[n] # NoWithdrawal => attOf'[n] = attOf[n]]_vars
  BY OwnersStay DEF OwnersKept
<1> QED BY <1>1, TypeCorrect, PTL DEF Spec, NonceKeepsOwner

\* The stored transaction hash of a withdrawal is never replaced.
THEOREM HashNeverReplaced ==
    ASSUME ~Overlap
    PROVE  Spec => HashIsImmutable
BY HashStays, Invariance, PTL DEF Spec, HashIsImmutable, HashStaysPut

\* The payout machinery implements the abstract withdrawal contract.
THEOREM HonoursContract ==
    ASSUME ~Overlap
    PROVE  Spec => ImplementsContract
<1>1. Init => Contract!Init
  <2> SUFFICES ASSUME Init PROVE Contract!Init OBVIOUS
  <2>1. \A w \in Withdrawals : Phase(w) = "held"
    BY DEF Init, Phase
  <2>2. wallet \in [Users -> Nat]
    BY BalanceAssumption DEF Init
  <2> QED BY <2>1, <2>2 DEF Contract!Init
<1>2. IInv /\ [Next]_vars => [Contract!Next]_(Contract!contractVars)
  BY StepsKeepContract DEF ContractStep, Contract!contractVars
<1> QED BY <1>1, <1>2, Invariance, PTL DEF Spec, ImplementsContract, Contract!Spec

-----------------------------------------------------------------------------
(* A withdrawal under review is not taken back.  The status is looked at when  *)
(* the row is loaded and overwritten when the nonce is reserved; in between    *)
(* only the delivery that holds the lock could have put it under review.       *)

ReserveInv == \A s \in Slots : pc[s] = "reserve" => status[cur[s]] # "MANUAL_REVIEW"

NotRetried == \A w \in Withdrawals : status[w] = "MANUAL_REVIEW" => status'[w] # "PROCESSING"

\* A step that brings no slot to the reservation and neither reviews nor processes.
Elsewhere ==
    /\ \A s \in Slots : pc'[s] = "reserve" => pc[s] = "reserve" /\ cur'[s] = cur[s]
    /\ \A w \in Withdrawals :
        status'[w] \in {"MANUAL_REVIEW", "PROCESSING"} => status'[w] = status[w]

\* What other slots, cycles and the chain do cannot hand a reviewed row to a retry.
LEMMA ReviewElsewhere ==
    ASSUME IInv, ReserveInv, Elsewhere PROVE ReserveInv' /\ NotRetried
<1>1. \A s \in Slots : pc[s] = "reserve" => cur[s] \in Withdrawals
  BY DEF IInv, TypeOK, ActorTypeOK, Actors
<1>2. \A w \in Withdrawals : status'[w] = "MANUAL_REVIEW" => status[w] = "MANUAL_REVIEW"
  BY DEF Elsewhere
<1>3. NotRetried
  BY DEF Elsewhere, NotRetried
<1>4. ReserveInv'
  <2> SUFFICES ASSUME NEW s \in Slots, pc'[s] = "reserve" PROVE status'[cur'[s]] # "MANUAL_REVIEW"
    BY DEF ReserveInv
  <2>1. pc[s] = "reserve" /\ cur'[s] = cur[s]
    BY DEF Elsewhere
  <2> QED BY <2>1, <1>1, <1>2 DEF ReserveInv
<1> QED BY <1>3, <1>4

\* The holder of the lock is alone with its withdrawal.
LEMMA OneSlot ==
    ASSUME IInv, NEW s \in Slots, NEW t \in Slots, pc[s] # "idle", pc[t] # "idle", cur[s] = cur[t]
    PROVE  s = t
BY DEF IInv, LockInv

\* No step turns a reviewed row into a retry.
LEMMA ReviewStep == IInv /\ ReserveInv /\ [Next]_vars => ReserveInv' /\ NotRetried
<1> SUFFICES ASSUME IInv, ReserveInv, [Next]_vars PROVE ReserveInv' /\ NotRetried OBVIOUS
<1> DEFINE G == ReserveInv' /\ NotRetried
<1> USE ActorAssumption DEF TypeOK, RowsTypeOK, ActorTypeOK, rows, wd, locals, Goto, Actors
<1>1. ASSUME NEW s \in Slots, Load(s) PROVE G
  <2>1. PICK n \in Nonces \cup {NoNonce} :
          Goto(s, IF status[cur[s]] = "COMPLETED" \/ jobStatus[cur[s]] = "COMPLETED" THEN "finish"
                  ELSE IF mayBroadcastWithdrawal(cur[s], n) THEN "reserve"
                  ELSE IF HashOf(cur[s], n) # NoNonce THEN "read" ELSE "finish")
    BY <1>1 DEF Load
  <2>2. pc'[s] = "reserve" => status[cur[s]] # "MANUAL_REVIEW"
    BY <2>1 DEF IInv, mayBroadcastWithdrawal
  <2>3. UNCHANGED <<status, cur>> /\ \A t \in Slots \ {s} : pc'[t] = pc[t]
    BY <1>1, <2>1 DEF Load, IInv
  <2> QED BY <2>2, <2>3 DEF ReserveInv, NotRetried
<1>2. ASSUME NEW s \in Slots, Reserve(s) PROVE G
  <2>1. pc[s] = "reserve" /\ pc' = [pc EXCEPT ![s] = "prepare"] /\ UNCHANGED cur
        /\ status' = [status EXCEPT ![cur[s]] = "PROCESSING"]
    BY <1>2 DEF Reserve
  <2>2. status[cur[s]] # "MANUAL_REVIEW"
    BY <2>1 DEF ReserveInv
  <2>3. NotRetried
    BY <2>1, <2>2 DEF NotRetried, IInv
  <2>4. \A t \in Slots : pc'[t] = "reserve" => pc[t] = "reserve"
    BY <2>1 DEF IInv
  <2>5. \A w \in Withdrawals : status'[w] = "MANUAL_REVIEW" => status[w] = "MANUAL_REVIEW"
    BY <2>1 DEF IInv
  <2>6. \A t \in Slots : pc[t] = "reserve" => cur[t] \in Withdrawals
    BY DEF IInv
  <2> QED BY <2>1, <2>3, <2>4, <2>5, <2>6 DEF ReserveInv
<1>3. ASSUME NEW s \in Slots, LookupUncertain(s) \/ retryOrReview(s) PROVE G
  <2>1. /\ pc[s] \notin {"idle", "reserve"} /\ pc' = [pc EXCEPT ![s] = "finish"] /\ UNCHANGED cur
        /\ \E next \in {"RETRYABLE_FAILED", "MANUAL_REVIEW"} : status' = [status EXCEPT ![cur[s]] = next]
    BY <1>3 DEF LookupUncertain, retryOrReview
  <2>2. NotRetried
    BY <2>1 DEF NotRetried, IInv
  <2>3. \A t \in Slots : pc'[t] = "reserve" => pc[t] = "reserve" /\ t # s
    BY <2>1 DEF IInv
  <2>4. \A t \in Slots : pc[t] = "reserve" => cur[t] # cur[s] /\ cur[t] \in Withdrawals
    <3>1. \A t \in Slots : pc[t] = "reserve" => cur[t] # cur[s]
      BY <2>1, OneSlot
    <3> QED BY <3>1 DEF IInv
  <2>5. \A w \in Withdrawals \ {cur[s]} : status'[w] = status[w]
    BY <2>1 DEF IInv
  <2> QED BY <2>1, <2>2, <2>3, <2>4, <2>5 DEF ReserveInv
<1> HIDE DEF IInv
<1>4. ASSUME NEW s \in Slots, ReserveRefused(s) \/ Prepare(s) \/ Send(s) PROVE Elsewhere
  BY <1>4 DEF ReserveRefused, Prepare, Send, Elsewhere, IInv
<1>5. ASSUME NEW s \in Slots, LookupFound(s) \/ Record(s) \/ Finish(s) PROVE Elsewhere
  BY <1>5 DEF LookupFound, Record, Finish, Return, Elsewhere, IInv
<1>6. ASSUME NEW s \in Slots, Throw(s) \/ Raise(s) \/ SendFails(s) PROVE Elsewhere
  BY <1>6 DEF Throw, Raise, SendFails, Return, Elsewhere, IInv
<1>7. ASSUME NEW s \in Slots, NEW w \in Withdrawals, Deliver(s, w) PROVE Elsewhere
  BY <1>7 DEF Deliver, Elsewhere, IInv
<1>8. ASSUME NEW a \in Actors, ReconcileRead(a) \/ ReconcileAsk(a) \/ ReconcileWait(a)
             \/ ReconcileConfirm(a) \/ ReconcileRefund(a)
      PROVE Elsewhere
  BY <1>8 DEF ReconcileRead, ReconcileAsk, ReconcileWait, ReconcileConfirm, ReconcileRefund,
     Elsewhere, IInv
<1>9. ASSUME NEW p \in Pollers, PollScan(p) \/ PollNext(p) \/ PollDone(p) \/ PollThrow(p)
      PROVE Elsewhere
  BY <1>9 DEF PollScan, PollNext, PollDone, PollThrow, Return, Elsewhere, IInv
<1>10. ASSUME NEW c \in Callers, NEW w \in Withdrawals, Enqueue(c, w) \/ MarkEnqueued(c, w)
      PROVE Elsewhere
  BY <1>10 DEF Enqueue, MarkEnqueued, Elsewhere
<1>11. ASSUME NEW w \in Withdrawals,
         SubmitLost(w) \/ ApplyStatus(w) \/ RetryDelayElapses(w) \/ Stalled(w) \/ Forget(w)
      PROVE Elsewhere
  BY <1>11 DEF SubmitLost, ApplyStatus, RetryDelayElapses, Stalled, Forget, Elsewhere, IInv
<1>12. ASSUME NEW n \in Nonces, Mine(n) \/ Bury(n) PROVE Elsewhere
  BY <1>12 DEF Mine, Bury, Elsewhere
<1>13. ASSUME RecoverScan \/ Audit \/ WorkerCrash PROVE Elsewhere
  BY <1>13 DEF RecoverScan, Audit, WorkerCrash, Return, Elsewhere, IInv
<1>14. ASSUME UNCHANGED vars PROVE Elsewhere
  BY <1>14 DEF vars, Elsewhere
<1>15. CASE Elsewhere
  BY <1>15, ReviewElsewhere
<1> HIDE DEF TypeOK, Elsewhere, ReserveInv, NotRetried
<1> QED BY <1>1, <1>2, <1>3, <1>4, <1>5, <1>6, <1>7, <1>8, <1>9, <1>10, <1>11, <1>12, <1>13, <1>14, <1>15
    DEF Next, SlotStep, PollStep, Reconcile, Failure, Actors

\* No delivery takes a withdrawal under review back into processing, for any number
\* of deliveries, retries, crashes, confirmation cycles and audits.
THEOREM ReviewIsFinal ==
    ASSUME ~Overlap
    PROVE  Spec => ReviewIsNotRetried
<1>1. Init => ReserveInv
  BY DEF Init, ReserveInv, Actors
<1>2. IInv /\ ReserveInv /\ [Next]_vars => ReserveInv' /\ [NotRetried]_vars
  BY ReviewStep
<1> QED BY <1>1, <1>2, Invariance, PTL DEF Spec, ReviewIsNotRetried, NotRetried
=============================================================================
