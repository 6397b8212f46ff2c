-------------------------- MODULE WithdrawalPayout --------------------------
(***************************************************************************)
(* The automatic payout of withdrawals that createWithdrawal committed     *)
(* with status QUEUED: the durable job row, the BullMQ queue, the payout   *)
(* worker (lib/withdrawals/processor.server.ts, processWithdrawal), the    *)
(* confirmation worker (reconcileWithdrawal), the recovery loop, the       *)
(* operator's reconcile script, and the hot wallet's chain.                *)
(*                                                                         *)
(* One action stands for the code between two awaits that touch shared     *)
(* state, so that steps of several deliveries, of the confirmation worker  *)
(* and of the script interleave as they do in production.  The hot         *)
(* wallet is used by this system alone, so that a transaction hash is      *)
(* identified with the nonce it was signed for.                            *)
(***************************************************************************)
EXTENDS Integers

CONSTANTS
    Withdrawals,      \* withdrawals committed as QUEUED, with their job row
    Users, Owner,     \* Owner[w] is the user of w
    Amount,           \* Amount[w] is w.debitedAmount
    OpeningBalance,   \* OpeningBalance[u]: the spot balance after the debits
    Slots,            \* concurrent job slots of the payout worker
    Pollers,          \* confirmation cycles that may run at the same time
    NoSlot, NoWithdrawal,
    Overlap,          \* may a job be redelivered while its first run is alive?
    MaxAttempts,      \* WITHDRAWAL_MAX_ATTEMPTS
    MaxNonce,         \* bound: nonces 0..MaxNonce
    FaultKinds,       \* the kinds of failure that may happen
    MaxFaults,        \* bound: how many failures may happen
    MaxAudits         \* bound: runs of withdrawal-reconcile --apply

ASSUME OwnerAssumption == Owner \in [Withdrawals -> Users]
ASSUME AmountAssumption == Amount \in [Withdrawals -> Nat \ {0}]
ASSUME BalanceAssumption == OpeningBalance \in [Users -> Nat]
ASSUME ActorAssumption ==
    Slots \cap Pollers = {} /\ NoSlot \notin Slots /\ NoWithdrawal \notin Withdrawals
ASSUME BoundAssumption ==
    /\ MaxNonce \in Nat /\ MaxAttempts \in Nat \ {0}
    /\ FaultKinds \subseteq {"submit", "crash", "throw", "raise", "send", "poll"}
    /\ MaxFaults \in Nat /\ MaxAudits \in Nat
    /\ Overlap \in BOOLEAN

VARIABLES
    status, txHash, deep,   \* columns of the Withdrawal row of w
    jobStatus, attempts, due,  \* columns of the WithdrawalJob row of w
    attOf, attStatus, signed, attHash, success,
               \* columns of the WithdrawalBroadcastAttempt row that reserved
               \* nonce n; attOf[n] is its withdrawalId
    refunded,  \* refunded[w]: the REFUND row of WithdrawalLedger exists
    wallet,    \* wallet[u]: UserState.wallet, spot balance
    bull,      \* bull[w]: state of BullMQ's job withdrawal-payout__<w>
    holder,    \* holder[w]: the slot that holds the BullMQ lock of that job
    stalls,    \* stalls[w]: BullMQ's stalled counter of that job
    chain,     \* chain[n]: what became of the transaction with nonce n
    listed,    \* <<c, w>>: caller c is to hand w's job to BullMQ
    added,     \* <<c, w>>: caller c did, and is to mark the job row
    pc, cur, nonce, hash, rcpt,  \* locals of a slot or a poller
    todo,      \* todo[p]: ids a confirmation cycle still has to reconcile
    plan,      \* plan[w]: status the reconcile script decided for w
    faults, audits

wd == <<status, txHash, deep>>
job == <<jobStatus, attempts, due>>
att == <<attOf, attStatus, signed, attHash, success>>
rows == <<wd, job, att, refunded, wallet>>
queue == <<bull, holder, stalls>>
handoff == <<listed, added>>
locals == <<cur, nonce, hash, rcpt>>
tools == <<plan, audits>>
vars == <<rows, queue, chain, handoff, pc, locals, todo, tools, faults>>

-----------------------------------------------------------------------------
Actors == Slots \cup Pollers
\* Who calls enqueueWithdrawalJob: the request, the recovery loop, the script.
Callers == {"submit", "recover", "script"}
Nonces == 0..MaxNonce
NoNonce == -1
MaxStalledCount == 1

WdStatus == {"QUEUED", "PROCESSING", "BROADCASTED", "CONFIRMING", "COMPLETED",
             "RETRYABLE_FAILED", "MANUAL_REVIEW", "REJECTED"}
JobStatus == {"PENDING", "ENQUEUED", "PROCESSING", "RETRYABLE_FAILED",
              "MANUAL_REVIEW", "COMPLETED"}
AttStatus == {"RESERVED", "SIGNING", "UNCERTAIN", "BROADCASTED", "CONFIRMED"}
BullState == {"absent", "waiting", "active", "completed", "failed"}
ChainState == {"unsent", "pool", "mined", "final", "reverted"}
Receipts == {"none", "mined", "final", "reverted"}
Labels == {"idle", "load", "reserve", "prepare", "send", "lookup", "record",
           "transient", "permanent", "read", "ask", "write", "finish"}

Init ==
    /\ status = [w \in Withdrawals |-> "QUEUED"]
    /\ txHash = [w \in Withdrawals |-> NoNonce]
    /\ deep = [w \in Withdrawals |-> FALSE]
    /\ jobStatus = [w \in Withdrawals |-> "PENDING"]
    /\ attempts = [w \in Withdrawals |-> 0]
    /\ due = [w \in Withdrawals |-> TRUE]
    /\ attOf = [n \in Nonces |-> NoWithdrawal]
    /\ attStatus = [n \in Nonces |-> "RESERVED"]
    /\ signed = [n \in Nonces |-> FALSE]
    /\ attHash = [n \in Nonces |-> NoNonce]
    /\ success = [n \in Nonces |-> FALSE]
    /\ refunded = [w \in Withdrawals |-> FALSE]
    /\ wallet = OpeningBalance
    /\ bull = [w \in Withdrawals |-> "absent"]
    /\ holder = [w \in Withdrawals |-> NoSlot]
    /\ stalls = [w \in Withdrawals |-> 0]
    /\ chain = [n \in Nonces |-> "unsent"]
    /\ listed = {"submit"} \X Withdrawals
    /\ added = {}
    /\ pc = [a \in Actors |-> "idle"]
    /\ cur = [a \in Actors |-> NoWithdrawal]
    /\ nonce = [a \in Actors |-> NoNonce]
    /\ hash = [a \in Actors |-> NoNonce]
    /\ rcpt = [a \in Actors |-> "none"]
    /\ todo = [p \in Pollers |-> {}]
    /\ plan = [w \in Withdrawals |-> "none"]
    /\ faults = 0
    /\ audits = 0

-----------------------------------------------------------------------------
(* Shared pieces *)

Fault(kind) ==
    /\ kind \in FaultKinds
    /\ faults < MaxFaults
    /\ faults' = faults + 1
Goto(a, l) == pc' = [pc EXCEPT ![a] = l]

\* The calls that the actors of S were making are over; their locals are gone.
Return(S) ==
    /\ pc' = [a \in Actors |-> IF a \in S THEN "idle" ELSE pc[a]]
    /\ cur' = [a \in Actors |-> IF a \in S THEN NoWithdrawal ELSE cur[a]]
    /\ nonce' = [a \in Actors |-> IF a \in S THEN NoNonce ELSE nonce[a]]
    /\ hash' = [a \in Actors |-> IF a \in S THEN NoNonce ELSE hash[a]]
    /\ rcpt' = [a \in Actors |-> IF a \in S THEN "none" ELSE rcpt[a]]

\* orderBy attemptNumber desc, take 1: nonces grow with attempt numbers
IsNewest(w, n) ==
    /\ n # NoNonce => attOf[n] = w
    /\ \A m \in Nonces : attOf[m] = w => m <= n

\* The largest nonce ever reserved for the hot wallet.
IsHighest(n) ==
    /\ n # NoNonce => attOf[n] # NoWithdrawal
    /\ \A m \in Nonces : attOf[m] # NoWithdrawal => m <= n

\* withdrawal.txHash ?? attempt.txHash ?? attempt.signedTransactionHash
HashOf(w, n) ==
    IF txHash[w] # NoNonce THEN txHash[w]
    ELSE IF n = NoNonce THEN NoNonce
    ELSE IF attHash[n] # NoNonce THEN attHash[n]
    ELSE IF signed[n] THEN n ELSE NoNonce

\* Mutant: a signed attempt no longer forbids another broadcast.
mayBroadcastAgain(w, n) == status[w] \in {"QUEUED", "RETRYABLE_FAILED", "PROCESSING"}

\* Mutant: a job under review is processed again.
mayBroadcastReviewed(w, n) ==
    /\ status[w] \in {"QUEUED", "RETRYABLE_FAILED", "PROCESSING", "MANUAL_REVIEW"}
    /\ HashOf(w, n) = NoNonce

mayBroadcastWithdrawal(w, n) ==
    /\ status[w] \in {"QUEUED", "RETRYABLE_FAILED", "PROCESSING"}
    /\ HashOf(w, n) = NoNonce

nextSafeNonce(pending, highest) ==
    IF highest + 1 > pending THEN highest + 1 ELSE pending

\* Queue.add with a deterministic jobId: ignored while BullMQ remembers the id.
BullAdd(w) == bull' = [bull EXCEPT ![w] = IF @ = "absent" THEN "waiting" ELSE @]

-----------------------------------------------------------------------------
(* The chain and the RPC node *)

\* getTransactionCount(address, "pending"): the first nonce nobody sent.
IsPendingNonce(p) ==
    /\ \A n \in Nonces : n < p => chain[n] # "unsent"
    /\ p \in Nonces => chain[p] = "unsent"

\* Mutant: the first block counts as the required confirmations.
UnburiedReceipt(n) ==
    CASE chain[n] = "mined" -> "final"
      [] chain[n] = "reverted" -> "reverted"
      [] OTHER -> "none"

\* Mutant: a transaction without a receipt is taken for a failed one.
MissingIsReverted(n) ==
    IF chain[n] \in {"unsent", "pool"} THEN "reverted" ELSE chain[n]

\* getTransactionReceipt, with the distance to the current block
Receipt(n) == IF chain[n] \in {"unsent", "pool"} THEN "none" ELSE chain[n]

\* A pooled transaction is executed once every smaller nonce was.
Mine(n) ==
    /\ chain[n] = "pool"
    /\ \A m \in Nonces : m < n => chain[m] \in {"mined", "final", "reverted"}
    /\ \E result \in {"mined", "reverted"} : chain' = [chain EXCEPT ![n] = result]
    /\ UNCHANGED <<rows, queue, handoff, pc, locals, todo, tools, faults>>

\* requiredConfirmations blocks were built on the receipt's block.
Bury(n) ==
    /\ chain[n] = "mined"
    /\ chain' = [chain EXCEPT ![n] = "final"]
    /\ UNCHANGED <<rows, queue, handoff, pc, locals, todo, tools, faults>>

-----------------------------------------------------------------------------
(* Handing jobs to BullMQ: createWithdrawal after its commit, the recovery *)
(* loop and the script all call enqueueWithdrawalJob, then mark the row.   *)

\* The recovery loop and the script work through their list one job at a time.
Enqueue(c, w) ==
    /\ <<c, w>> \in listed
    /\ c # "submit" => \A v \in Withdrawals : <<c, v>> \notin added
    /\ BullAdd(w)
    /\ listed' = listed \ {<<c, w>>}
    /\ added' = added \cup {<<c, w>>}
    /\ UNCHANGED <<rows, holder, stalls, chain, pc, locals, todo, tools, faults>>

\* The job row becomes ENQUEUED, whatever happened to it since.
MarkEnqueued(c, w) ==
    /\ <<c, w>> \in added
    /\ jobStatus' = [jobStatus EXCEPT ![w] = "ENQUEUED"]
    /\ added' = added \ {<<c, w>>}
    /\ UNCHANGED <<wd, attempts, due, att, refunded, wallet, listed>>
    /\ UNCHANGED <<queue, chain, pc, locals, todo, tools, faults>>

\* Redis is down, or the web process dies: the request ends where it is.
SubmitLost(w) ==
    /\ <<"submit", w>> \in listed \cup added
    /\ Fault("submit")
    /\ listed' = listed \ {<<"submit", w>>}
    /\ added' = added \ {<<"submit", w>>}
    /\ UNCHANGED <<rows, queue, chain, pc, locals, todo, tools>>

\* nextAttemptAt <= now
RetryDelayElapses(w) ==
    /\ ~due[w]
    /\ due' = [due EXCEPT ![w] = TRUE]
    /\ UNCHANGED <<wd, jobStatus, attempts, att, refunded, wallet>>
    /\ UNCHANGED <<queue, chain, handoff, pc, locals, todo, tools, faults>>

Ended(c) == \A w \in Withdrawals : <<c, w>> \notin listed \cup added

\* Mutant: only failed jobs are recovered.
RecoverFailed ==
    /\ Ended("recover")
    /\ listed' = listed \cup ({"recover"} \X {w \in Withdrawals :
            jobStatus[w] = "RETRYABLE_FAILED" /\ due[w]})
    /\ UNCHANGED <<rows, queue, chain, added, pc, locals, todo, tools, faults>>

\* recoverPendingWithdrawalJobs, its findMany
RecoverScan ==
    /\ Ended("recover")
    /\ listed' = listed \cup ({"recover"} \X {w \in Withdrawals :
            jobStatus[w] \in {"PENDING", "RETRYABLE_FAILED"} /\ due[w]})
    /\ UNCHANGED <<rows, queue, chain, added, pc, locals, todo, tools, faults>>

-----------------------------------------------------------------------------
(* BullMQ: delivery, completion, failure, stalled jobs, retention *)

Deliver(s, w) ==
    /\ pc[s] = "idle" /\ bull[w] = "waiting"
    /\ bull' = [bull EXCEPT ![w] = "active"]
    /\ holder' = [holder EXCEPT ![w] = s]
    /\ cur' = [cur EXCEPT ![s] = w]
    /\ Goto(s, "load")
    /\ UNCHANGED <<rows, stalls, chain, handoff, nonce, hash, rcpt, todo, tools, faults>>

\* Only the slot that still holds the lock moves the job.
BullEnd(s, result) ==
    LET w == cur[s] mine == bull[w] = "active" /\ holder[w] = s IN
    /\ bull' = [bull EXCEPT ![w] = IF mine THEN result ELSE @]
    /\ holder' = [holder EXCEPT ![w] = IF mine THEN NoSlot ELSE @]
    /\ UNCHANGED stalls

\* processWithdrawal returned.
Finish(s) ==
    /\ pc[s] = "finish"
    /\ BullEnd(s, "completed")
    /\ Return({s})
    /\ UNCHANGED <<rows, chain, handoff, todo, tools, faults>>

\* Mutant: a second success of one withdrawal is let through.
HashTaken(w, n, h) == \E m \in Nonces \ {n} : attHash[m] = h

\* successKey and txHash are unique over the attempts.
SuccessTaken(w, n, h) ==
    \E m \in Nonces \ {n} : (attOf[m] = w /\ success[m]) \/ attHash[m] = h

\* The confirming write of reconcileWithdrawal violates one of the unique keys.
UniqueViolation(a) ==
    /\ pc[a] = "write" /\ rcpt[a] \in {"mined", "final"}
    /\ SuccessTaken(cur[a], nonce[a], hash[a])

\* A statement outside processWithdrawal's try threw (or one of its catch).
Throw(s) ==
    /\ pc[s] \in {"load", "transient", "permanent", "read", "ask", "write"}
    /\ Fault("throw") \/ (UniqueViolation(s) /\ UNCHANGED faults)
    /\ BullEnd(s, "failed")
    /\ Return({s})
    /\ UNCHANGED <<rows, chain, handoff, todo, tools>>

\* The worker process dies; PM2 starts it again.
WorkerCrash ==
    /\ Fault("crash")
    /\ Return(Slots)
    /\ listed' = listed \ ({"recover"} \X Withdrawals)
    /\ added' = added \ ({"recover"} \X Withdrawals)
    /\ UNCHANGED <<rows, queue, chain, todo, tools>>

Running(s, w) == pc[s] # "idle" /\ cur[s] = w

\* The lock of an active job ran out: its worker is gone, or (Overlap) it is
\* alive and did not renew in time.
Stalled(w) ==
    /\ bull[w] = "active"
    /\ (\E s \in Slots : Running(s, w)) => Overlap
    /\ bull' = [bull EXCEPT ![w] = IF stalls[w] < MaxStalledCount THEN "waiting" ELSE "failed"]
    /\ holder' = [holder EXCEPT ![w] = NoSlot]
    /\ stalls' = [stalls EXCEPT ![w] = @ + 1]
    /\ UNCHANGED <<rows, chain, handoff, pc, locals, todo, tools, faults>>

\* removeOnComplete.age: BullMQ forgets a completed job after a day.
Forget(w) ==
    /\ bull[w] = "completed"
    /\ bull' = [bull EXCEPT ![w] = "absent"]
    /\ stalls' = [stalls EXCEPT ![w] = 0]
    /\ UNCHANGED <<rows, holder, chain, handoff, pc, locals, todo, tools, faults>>

-----------------------------------------------------------------------------
(* processWithdrawal *)

\* The worker refuses to start without WITHDRAWAL_AUTOMATION_ENABLED, so the
\* AUTOMATION_DISABLED exit is not taken in it.
Load(s) ==
    /\ pc[s] = "load"
    /\ \E n \in Nonces \cup {NoNonce} :
        LET w == cur[s] IN
        /\ IsNewest(w, n)
        /\ Goto(s, IF status[w] = "COMPLETED" \/ jobStatus[w] = "COMPLETED" THEN "finish"
                   ELSE IF mayBroadcastWithdrawal(w, n) THEN "reserve"
                   ELSE IF HashOf(w, n) # NoNonce THEN "read" ELSE "finish")
    /\ UNCHANGED <<rows, queue, chain, handoff, locals, todo, tools, faults>>

\* Inside the try: an RPC or database error, or (before the reservation) a hot
\* wallet without the liquidity, which is an error of the transient kind.
Raise(s) ==
    /\ pc[s] \in {"reserve", "prepare", "lookup", "record"}
    /\ Fault("raise")
    /\ \E kind \in {"transient", "permanent"} : Goto(s, kind)
    /\ UNCHANGED <<rows, queue, chain, handoff, locals, todo, tools>>

\* The nonce reservation, one Serializable transaction under the advisory lock.
\* The unique key over nonces is left out: NonceKeepsOwner says it is never needed.
Reserve(s) ==
    /\ pc[s] = "reserve"
    /\ txHash[cur[s]] = NoNonce
    /\ \E p \in 0..MaxNonce + 1, h \in Nonces \cup {NoNonce} :
        /\ IsPendingNonce(p) /\ IsHighest(h)
        /\ nextSafeNonce(p, h) \in Nonces
        /\ nonce' = [nonce EXCEPT ![s] = nextSafeNonce(p, h)]
        /\ attOf' = [attOf EXCEPT ![nextSafeNonce(p, h)] = cur[s]]
    /\ status' = [status EXCEPT ![cur[s]] = "PROCESSING"]
    /\ jobStatus' = [jobStatus EXCEPT ![cur[s]] = "PROCESSING"]
    /\ Goto(s, "prepare")
    /\ UNCHANGED <<txHash, deep, attempts, due, attStatus, signed, attHash, success>>
    /\ UNCHANGED <<refunded, wallet, queue, chain, handoff, cur, hash, rcpt, todo, tools, faults>>

\* TX_HASH_ALREADY_EXISTS sends the delivery to reconcileWithdrawal.
ReserveRefused(s) ==
    /\ pc[s] = "reserve"
    /\ txHash[cur[s]] # NoNonce
    /\ Goto(s, "read")
    /\ UNCHANGED <<rows, queue, chain, handoff, locals, todo, tools, faults>>

Prepare(s) ==
    /\ pc[s] = "prepare"
    /\ attStatus' = [attStatus EXCEPT ![nonce[s]] = "SIGNING"]
    /\ signed' = [signed EXCEPT ![nonce[s]] = TRUE]
    /\ Goto(s, "send")
    /\ UNCHANGED <<wd, job, attOf, attHash, success, refunded, wallet, queue, chain, handoff, locals, todo, tools, faults>>

Send(s) ==
    /\ pc[s] = "send"
    /\ chain' = [chain EXCEPT ![nonce[s]] = "pool"]
    /\ Goto(s, "record")
    /\ UNCHANGED <<rows, queue, handoff, locals, todo, tools, faults>>

\* sendTransaction threw: the node may or may not have taken the transaction.
SendFails(s) ==
    /\ pc[s] = "send" /\ Fault("send")
    /\ \E result \in {"pool", "unsent"} : chain' = [chain EXCEPT ![nonce[s]] = result]
    /\ Goto(s, "lookup")
    /\ UNCHANGED <<rows, queue, handoff, locals, todo, tools>>

\* The receipt of the signed hash counts as the answer.
LookupFound(s) ==
    /\ pc[s] = "lookup" /\ Receipt(nonce[s]) # "none"
    /\ Goto(s, "record")
    /\ UNCHANGED <<rows, queue, chain, handoff, locals, todo, tools, faults>>

\* No receipt, or the lookup failed as well.
LookupUncertain(s) ==
    /\ pc[s] = "lookup"
    /\ attStatus' = [attStatus EXCEPT ![nonce[s]] = "UNCERTAIN"]
    /\ status' = [status EXCEPT ![cur[s]] = "MANUAL_REVIEW"]
    /\ jobStatus' = [jobStatus EXCEPT ![cur[s]] = "MANUAL_REVIEW"]
    /\ Goto(s, "finish")
    /\ UNCHANGED <<txHash, deep, attempts, due, attOf, signed, attHash, success>>
    /\ UNCHANGED <<refunded, wallet, queue, chain, handoff, locals, todo, tools, faults>>

Record(s) ==
    /\ pc[s] = "record"
    /\ LET w == cur[s] n == nonce[s] IN
        IF SuccessTaken(w, n, n)
        THEN Goto(s, "permanent") /\ UNCHANGED <<att, wd>>
        ELSE /\ attStatus' = [attStatus EXCEPT ![n] = "BROADCASTED"]
             /\ attHash' = [attHash EXCEPT ![n] = n]
             /\ success' = [success EXCEPT ![n] = TRUE]
             /\ status' = [status EXCEPT ![w] = "BROADCASTED"]
             /\ txHash' = [txHash EXCEPT ![w] = n]
             /\ Goto(s, "finish")
             /\ UNCHANGED <<deep, attOf, signed>>
    /\ UNCHANGED <<job, refunded, wallet, queue, chain, handoff, locals, todo, tools, faults>>

retryOrReview(s) ==
    /\ pc[s] \in {"transient", "permanent"}
    /\ LET w == cur[s]
           retry == pc[s] = "transient" /\ attempts[w] + 1 < MaxAttempts
           next == IF retry THEN "RETRYABLE_FAILED" ELSE "MANUAL_REVIEW"
       IN /\ jobStatus' = [jobStatus EXCEPT ![w] = next]
          /\ attempts' = [attempts EXCEPT ![w] = @ + 1]
          /\ due' = [due EXCEPT ![w] = ~retry]
          /\ status' = [status EXCEPT ![w] = next]
    /\ Goto(s, "finish")
    /\ UNCHANGED <<txHash, deep, att, refunded, wallet, queue, chain, handoff, locals, todo, tools, faults>>

-----------------------------------------------------------------------------
(* reconcileWithdrawal, run by a delivery or by a confirmation cycle *)

\* Mutant: the chain is asked for the row's hash, although only the attempt has one.
ReadRowHash(a) ==
    /\ pc[a] = "read"
    /\ \E n \in Nonces \cup {NoNonce} :
        LET w == cur[a] IN
        /\ IsNewest(w, n)
        /\ nonce' = [nonce EXCEPT ![a] = n]
        /\ hash' = [hash EXCEPT ![a] = txHash[w]]
        /\ Goto(a, IF status[w] = "COMPLETED" \/ HashOf(w, n) = NoNonce
                   THEN "finish" ELSE "ask")
    /\ UNCHANGED <<rows, queue, chain, handoff, cur, rcpt, todo, tools, faults>>

\* The row and its newest attempt are read.
ReconcileRead(a) ==
    /\ pc[a] = "read"
    /\ \E n \in Nonces \cup {NoNonce} :
        LET w == cur[a] IN
        /\ IsNewest(w, n)
        /\ nonce' = [nonce EXCEPT ![a] = n]
        /\ hash' = [hash EXCEPT ![a] = HashOf(w, n)]
        /\ Goto(a, IF status[w] = "COMPLETED" \/ HashOf(w, n) = NoNonce
                   THEN "finish" ELSE "ask")
    /\ UNCHANGED <<rows, queue, chain, handoff, cur, rcpt, todo, tools, faults>>

\* getTransactionReceipt and getBlockNumber
ReconcileAsk(a) ==
    /\ pc[a] = "ask"
    /\ rcpt' = [rcpt EXCEPT ![a] = Receipt(hash[a])]
    /\ Goto(a, "write")
    /\ UNCHANGED <<rows, queue, chain, handoff, cur, nonce, hash, todo, tools, faults>>

\* No receipt: CONFIRMING, whatever the row says by now.
ReconcileWait(a) ==
    /\ pc[a] = "write" /\ rcpt[a] = "none"
    /\ status' = [status EXCEPT ![cur[a]] = "CONFIRMING"]
    /\ txHash' = [txHash EXCEPT ![cur[a]] = hash[a]]
    /\ Goto(a, "finish")
    /\ UNCHANGED <<deep, job, att, refunded, wallet, queue, chain, handoff, locals, todo, tools, faults>>

\* A receipt of a successful execution.
ReconcileConfirm(a) ==
    /\ pc[a] = "write" /\ rcpt[a] \in {"mined", "final"}
    /\ ~UniqueViolation(a)
    /\ LET w == cur[a] n == nonce[a] completed == rcpt[a] = "final" IN
        /\ status' = [status EXCEPT ![w] = IF completed THEN "COMPLETED" ELSE "CONFIRMING"]
        /\ txHash' = [txHash EXCEPT ![w] = hash[a]]
        /\ deep' = [deep EXCEPT ![w] = completed]
        /\ attStatus' = [attStatus EXCEPT ![n] = IF completed THEN "CONFIRMED" ELSE "BROADCASTED"]
        /\ attHash' = [attHash EXCEPT ![n] = hash[a]]
        /\ success' = [success EXCEPT ![n] = TRUE]
        /\ jobStatus' = [jobStatus EXCEPT ![w] = IF completed THEN "COMPLETED" ELSE @]
    /\ Goto(a, "finish")
    /\ UNCHANGED <<attempts, due, attOf, signed, refunded, wallet, queue, chain, handoff, locals, todo, tools, faults>>

\* Mutant: refundFailedWithdrawal does not look for an earlier refund.
RefundAgain(a) ==
    /\ pc[a] = "write" /\ rcpt[a] = "reverted"
    /\ LET w == cur[a] IN
        /\ refunded' = [refunded EXCEPT ![w] = TRUE]
        /\ wallet' = [wallet EXCEPT ![Owner[w]] = @ + Amount[w]]
        /\ status' = [status EXCEPT ![w] = "REJECTED"]
        /\ jobStatus' = [jobStatus EXCEPT ![w] = "COMPLETED"]
    /\ Goto(a, "finish")
    /\ UNCHANGED <<txHash, deep, attempts, due, att, queue, chain, handoff, locals, todo, tools, faults>>

\* refundFailedWithdrawal, one Serializable transaction.
ReconcileRefund(a) ==
    /\ pc[a] = "write" /\ rcpt[a] = "reverted"
    /\ LET w == cur[a] IN
        IF refunded[w] THEN UNCHANGED <<status, jobStatus, refunded, wallet>>
        ELSE /\ refunded' = [refunded EXCEPT ![w] = TRUE]
             /\ wallet' = [wallet EXCEPT ![Owner[w]] = @ + Amount[w]]
             /\ status' = [status EXCEPT ![w] = "REJECTED"]
             /\ jobStatus' = [jobStatus EXCEPT ![w] = "COMPLETED"]
    /\ Goto(a, "finish")
    /\ UNCHANGED <<txHash, deep, attempts, due, att, queue, chain, handoff, locals, todo, tools, faults>>

-----------------------------------------------------------------------------
(* The confirmation worker *)

\* Mutant: a withdrawal that is already confirming is not polled again.
PollBroadcasted(p) ==
    /\ pc[p] = "idle" /\ todo[p] = {}
    /\ todo' = [todo EXCEPT ![p] = {w \in Withdrawals : status[w] = "BROADCASTED"}]
    /\ UNCHANGED <<rows, queue, chain, handoff, pc, locals, tools, faults>>

PollScan(p) ==
    /\ pc[p] = "idle" /\ todo[p] = {}
    /\ todo' = [todo EXCEPT ![p] =
            {w \in Withdrawals : status[w] \in {"BROADCASTED", "CONFIRMING"}}]
    /\ UNCHANGED <<rows, queue, chain, handoff, pc, locals, tools, faults>>

PollNext(p) ==
    /\ pc[p] = "idle"
    /\ \E w \in todo[p] :
        /\ cur' = [cur EXCEPT ![p] = w]
        /\ todo' = [todo EXCEPT ![p] = @ \ {w}]
    /\ Goto(p, "read")
    /\ UNCHANGED <<rows, queue, chain, handoff, nonce, hash, rcpt, tools, faults>>

PollDone(p) ==
    /\ pc[p] = "finish"
    /\ Return({p})
    /\ UNCHANGED <<rows, queue, chain, handoff, todo, tools, faults>>

\* An error ends the cycle; the next one starts with a new list.
PollThrow(p) ==
    /\ pc[p] \in {"read", "ask", "write"}
    /\ Fault("poll") \/ (UniqueViolation(p) /\ UNCHANGED faults)
    /\ Return({p})
    /\ todo' = [todo EXCEPT ![p] = {}]
    /\ UNCHANGED <<rows, queue, chain, handoff, tools>>

-----------------------------------------------------------------------------
(* withdrawal-reconcile --apply: one audit, then its actions one by one *)

Successes(w) == {n \in Nonces : attOf[n] = w /\ attStatus[n] \in {"BROADCASTED", "CONFIRMED"}}
DuplicatePayoutRisk(w) == \E m, n \in Successes(w) : m # n

classifyWithdrawal(w) ==
    IF DuplicatePayoutRisk(w) THEN "DUPLICATE_PAYOUT_RISK"
    ELSE IF status[w] = "MANUAL_REVIEW" THEN "MANUAL_REVIEW"
    ELSE IF /\ status[w] \in {"BROADCASTED", "CONFIRMING", "COMPLETED"}
            /\ txHash[w] = NoNonce THEN "BROADCASTED_HASH_MISSING"
    ELSE IF /\ txHash[w] # NoNonce
            /\ status[w] \notin {"BROADCASTED", "CONFIRMING", "COMPLETED"}
         THEN "HASH_EXISTS_STATUS_STALE"
    ELSE IF deep[w] /\ status[w] # "COMPLETED" THEN "CONFIRMED_STATUS_STALE"
    ELSE IF status[w] = "REJECTED" /\ ~refunded[w] THEN "REFUND_REQUIRED"
    ELSE IF status[w] = "COMPLETED" THEN "CONSISTENT_COMPLETED"
    ELSE "CONSISTENT_PENDING"

\* Mutant: a stale row with a hash is declared completed.
CompleteStale(w) ==
    IF classifyWithdrawal(w) = "HASH_EXISTS_STATUS_STALE" THEN "set_completed" ELSE "none"

PlannedAction(w) ==
    CASE classifyWithdrawal(w) = "HASH_EXISTS_STATUS_STALE" -> "set_confirming"
      [] classifyWithdrawal(w) = "CONFIRMED_STATUS_STALE" -> "set_completed"
      [] OTHER -> "none"

\* REENQUEUE_EXISTING_DURABLE_JOB
Reenqueued(w) ==
    /\ classifyWithdrawal(w) = "CONSISTENT_PENDING"
    /\ jobStatus[w] \in {"PENDING", "RETRYABLE_FAILED"}

Audit ==
    /\ audits < MaxAudits
    /\ Ended("script") /\ \A w \in Withdrawals : plan[w] = "none"
    /\ plan' = [w \in Withdrawals |-> PlannedAction(w)]
    /\ listed' = listed \cup ({"script"} \X {w \in Withdrawals : Reenqueued(w)})
    /\ audits' = audits + 1
    /\ UNCHANGED <<rows, queue, chain, added, pc, locals, todo, faults>>

ApplyStatus(w) ==
    /\ plan[w] \in {"set_confirming", "set_completed"}
    /\ status' = [status EXCEPT ![w] =
            IF plan[w] = "set_confirming" THEN "CONFIRMING" ELSE "COMPLETED"]
    /\ plan' = [plan EXCEPT ![w] = "none"]
    /\ UNCHANGED <<txHash, deep, job, att, refunded, wallet, queue, chain, handoff, pc, locals, todo, audits, faults>>

-----------------------------------------------------------------------------
Reconcile(a) ==
    \/ ReconcileRead(a) \/ ReconcileAsk(a)
    \/ ReconcileWait(a) \/ ReconcileConfirm(a) \/ ReconcileRefund(a)

SlotStep(s) ==
    \/ Load(s) \/ Reserve(s) \/ ReserveRefused(s) \/ Prepare(s)
    \/ Send(s) \/ LookupFound(s) \/ LookupUncertain(s) \/ Record(s)
    \/ retryOrReview(s) \/ Reconcile(s) \/ Finish(s)

PollStep(p) == PollScan(p) \/ PollNext(p) \/ Reconcile(p) \/ PollDone(p)

Failure ==
    \/ WorkerCrash
    \/ \E s \in Slots : Throw(s) \/ Raise(s) \/ SendFails(s)
    \/ \E p \in Pollers : PollThrow(p)
    \/ \E w \in Withdrawals : SubmitLost(w)

Next ==
    \/ \E s \in Slots : SlotStep(s) \/ (\E w \in Withdrawals : Deliver(s, w))
    \/ \E p \in Pollers : PollStep(p)
    \/ \E w \in Withdrawals :
        \/ \E c \in Callers : Enqueue(c, w) \/ MarkEnqueued(c, w)
        \/ ApplyStatus(w) \/ RetryDelayElapses(w) \/ Stalled(w) \/ Forget(w)
    \/ \E n \in Nonces : Mine(n) \/ Bury(n)
    \/ RecoverScan \/ Audit
    \/ Failure

Spec == Init /\ [][Next]_vars

(***************************************************************************)
(* Fairness: processes that are up keep running (PM2 restarts them), a     *)
(* dead delivery is noticed by BullMQ's stalled check, retry delays are    *)
(* finite, and the chain executes what it can.  Operators, faults and the  *)
(* day-long retention owe nothing.                                         *)
(***************************************************************************)
Fairness ==
    /\ \A s \in Slots : WF_vars(SlotStep(s)) /\ WF_vars(\E w \in Withdrawals : Deliver(s, w))
    /\ \A p \in Pollers : WF_vars(PollStep(p))
    /\ \A w \in Withdrawals :
        /\ \A c \in Callers : WF_vars(Enqueue(c, w) \/ MarkEnqueued(c, w))
        /\ WF_vars(RetryDelayElapses(w))
        /\ WF_vars(Stalled(w) /\ \A s \in Slots : ~Running(s, w))
    /\ \A n \in Nonces : WF_vars(Mine(n)) /\ WF_vars(Bury(n))
    /\ WF_vars(RecoverScan)

FairSpec == Spec /\ Fairness
-----------------------------------------------------------------------------
(* Properties *)

RowsTypeOK ==
    /\ status \in [Withdrawals -> WdStatus]
    /\ txHash \in [Withdrawals -> Nonces \cup {NoNonce}]
    /\ deep \in [Withdrawals -> BOOLEAN]
    /\ jobStatus \in [Withdrawals -> JobStatus]
    /\ attempts \in [Withdrawals -> Nat]
    /\ due \in [Withdrawals -> BOOLEAN]
    /\ attOf \in [Nonces -> Withdrawals \cup {NoWithdrawal}]
    /\ attStatus \in [Nonces -> AttStatus]
    /\ signed \in [Nonces -> BOOLEAN]
    /\ attHash \in [Nonces -> Nonces \cup {NoNonce}]
    /\ success \in [Nonces -> BOOLEAN]
    /\ refunded \in [Withdrawals -> BOOLEAN]
    /\ wallet \in [Users -> Nat]

QueueTypeOK ==
    /\ bull \in [Withdrawals -> BullState]
    /\ holder \in [Withdrawals -> Slots \cup {NoSlot}]
    /\ stalls \in [Withdrawals -> Nat]
    /\ chain \in [Nonces -> ChainState]

CallerTypeOK ==
    /\ listed \subseteq Callers \X Withdrawals
    /\ added \subseteq Callers \X Withdrawals
    /\ plan \in [Withdrawals -> {"none", "set_confirming", "set_completed"}]
    /\ faults \in Nat
    /\ audits \in Nat

ActorTypeOK ==
    /\ pc \in [Actors -> Labels]
    /\ cur \in [Actors -> Withdrawals \cup {NoWithdrawal}]
    /\ nonce \in [Actors -> Nonces \cup {NoNonce}]
    /\ hash \in [Actors -> Nonces \cup {NoNonce}]
    /\ rcpt \in [Actors -> Receipts]
    /\ todo \in [Pollers -> SUBSET Withdrawals]
    /\ \A a \in Actors :
        /\ pc[a] # "idle" => cur[a] \in Withdrawals
        /\ pc[a] \in {"prepare", "send", "lookup", "record"} => nonce[a] \in Nonces
        /\ pc[a] \in {"ask", "write"} => hash[a] \in Nonces

\* Every variable has its type, and a local has its value where it is used.
TypeOK == RowsTypeOK /\ QueueTypeOK /\ CallerTypeOK /\ ActorTypeOK

Leaves(n) == chain[n] \in {"pool", "mined", "final"}

\* Tokens leave the hot wallet at most once for a withdrawal: however often its
\* job is delivered, retried after an error or redelivered after a crash,
\* at most one of its transactions is in the pool or executed.
AtMostOnePayout ==
    \A m, n \in Nonces :
        (attOf[m] # NoWithdrawal /\ attOf[m] = attOf[n] /\ Leaves(m) /\ Leaves(n)) => m = n

\* A refunded withdrawal has no transaction that moved, or can still move,
\* tokens: the refund of reconcileWithdrawal never pays a user twice.
RefundedIsNotPaid ==
    \A w \in Withdrawals : refunded[w] =>
        \A n \in Nonces : attOf[n] = w => ~Leaves(n)

\* The user is told COMPLETED only when a transaction of this very withdrawal
\* succeeded and lies under the required number of confirmations.
CompletedIsPaid ==
    \A w \in Withdrawals : status[w] = "COMPLETED" =>
        \E n \in Nonces : txHash[w] = n /\ attOf[n] = w /\ chain[n] = "final"

\* A job row is closed only for a withdrawal that is finally paid or refunded,
\* although deliveries, cycles and recoveries write the row unconditionally.
ClosedJobIsDecided ==
    \A w \in Withdrawals : jobStatus[w] = "COMPLETED" =>
        refunded[w] \/ \E n \in Nonces : attOf[n] = w /\ chain[n] = "final"

\* Once a transaction hash is stored for a withdrawal it is never replaced: the
\* hash the user sees stays the one that was broadcast.
HashIsImmutable ==
    [][\A w \in Withdrawals :
        txHash[w] # NoNonce => txHash'[w] = txHash[w]]_vars

\* A withdrawal that was put under MANUAL_REVIEW is never taken back into
\* processing by a queue delivery: no new nonce is reserved for it.
ReviewIsNotRetried ==
    [][\A w \in Withdrawals :
        status[w] = "MANUAL_REVIEW" => status'[w] # "PROCESSING"]_vars

\* A reserved nonce stays with the withdrawal it was reserved for: concurrent
\* reservations of several slots never share a nonce.
NonceKeepsOwner ==
    [][\A n \in Nonces : attOf[n] # NoWithdrawal => attOf'[n] = attOf[n]]_vars

\* The spot wallet and the hot wallet together honour the withdrawal contract.
Phase(w) ==
    IF refunded[w] THEN "refunded"
    ELSE IF \E n \in Nonces : attOf[n] = w /\ chain[n] \in {"mined", "final"} THEN "paid"
    ELSE "held"

Contract == INSTANCE WithdrawalContract WITH
    phase <- [w \in Withdrawals |-> Phase(w)],
    available <- wallet, moved <- [u \in Users |-> 0]

\* Every step of the payout machinery is a step the contract allows: held money
\* is paid or refunded once, a refund returns exactly the debited amount.
ImplementsContract == Contract!Spec

\* A withdrawal whose transaction succeeded is eventually shown as COMPLETED, and
\* stays so, in spite of stale CONFIRMING writes by cycles and deliveries.
MinedIsCompleted ==
    \A w \in Withdrawals :
        (\E n \in Nonces : txHash[w] = n /\ chain[n] \in {"mined", "final"})
            ~> [](status[w] = "COMPLETED")

\* Every accepted withdrawal is eventually completed or refunded, even when the web
\* process dies before, or between, handing the job to BullMQ and marking it.
QueuedIsDecided ==
    \A w \in Withdrawals : <>(status[w] \in {"COMPLETED", "REJECTED"})

\* "Schedules retry": a withdrawal left RETRYABLE_FAILED is eventually taken up
\* again by a delivery, or leaves that status otherwise.
RetryHappens ==
    \A w \in Withdrawals :
        (status[w] = "RETRYABLE_FAILED") ~> (status[w] # "RETRYABLE_FAILED")

\* "If any broadcast is uncertain, leave the withdrawal in MANUAL_REVIEW."
UncertainStaysInReview ==
    \A n \in Nonces : (attOf[n] # NoWithdrawal /\ attStatus[n] = "UNCERTAIN")
        => status[attOf[n]] = "MANUAL_REVIEW"
=============================================================================
