------------------------- MODULE WithdrawalRequest -------------------------
(***************************************************************************)
(* The submission of withdrawals (lib/withdrawals/submission.server.ts,    *)
(* createWithdrawal, called by app/api/withdrawals/request) and their      *)
(* review by an administrator (lib/withdrawals/admin.server.ts).           *)
(*                                                                         *)
(* A call is one HTTP request.  It mints the id of the withdrawal it may   *)
(* create, so the withdrawal is named after the call; two calls may carry  *)
(* the same user and clientRequestId (a double click, a retry).  A step    *)
(* ends where the code awaits the database; each transaction of the code   *)
(* is Serializable and is one step.                                        *)
(***************************************************************************)
EXTENDS Integers, Functions

CONSTANTS
    Calls, Users, Requests,
    ReqUser, ReqId, ReqAmount,  \* the arguments of each call
    MaxPerTx, MaxPerUserDaily, MaxGlobalDaily,  \* AUTO_WITHDRAW_MAX_*
    OpeningBalance,   \* OpeningBalance[u]: the spot balance of u at first
    Hashes,           \* transaction hashes an administrator may record
    NoHash, NoCall,
    DayLength,        \* clock ticks per day
    Offset,           \* Offset[u]: ticks u's time zone is ahead of UTC
    MaxTime,          \* bound: the clock stops there
    MaxEvents         \* bound: lost calls, heartbeat changes, suspensions
                      \* and spot movements, together

ASSUME ArgumentAssumption ==
    /\ ReqUser \in [Calls -> Users]
    /\ ReqId \in [Calls -> Requests]
    /\ ReqAmount \in [Calls -> Nat \ {0}]
ASSUME LimitAssumption ==
    MaxPerTx \in Nat /\ MaxPerUserDaily \in Nat /\ MaxGlobalDaily \in Nat
ASSUME BalanceAssumption == OpeningBalance \in [Users -> Nat]
ASSUME NoneAssumption == NoHash \notin Hashes /\ NoCall \notin Calls
ASSUME ClockAssumption ==
    DayLength \in Nat \ {0} /\ Offset \in [Users -> Nat] /\ MaxTime \in Nat
ASSUME BoundAssumption == MaxEvents \in Nat

VARIABLES
    status, processingMode, userLocalDate, createdAt, txHash,
                 \* columns of the Withdrawal row; status "none": no row
    job,         \* job[w]: the PAYOUT row of WithdrawalJob exists
    refunded,    \* refunded[w]: the REFUND row of WithdrawalLedger exists
    wallet,      \* wallet[u]: UserState.wallet, spot balance
    moved,       \* moved[u]: the sum of its transactions of other features
    pc, automatic, taken, result, seen, answer,  \* locals of a call
    now,         \* the clock
    signer,      \* WithdrawalSystemState holds a fresh heartbeat
    suspended,   \* users with withdrawalsSuspended
    outcome,     \* outcome[h]: what the chain did with transaction h
    events

wd == <<status, processingMode, userLocalDate, createdAt, txHash>>
rows == <<wd, job, refunded, wallet, moved>>
locals == <<automatic, taken, result, seen>>
calls == <<pc, locals, answer>>
env == <<now, signer, suspended, outcome, events>>
vars == <<rows, calls, env>>

-----------------------------------------------------------------------------
NoDate == -1
RowStatus == {"none", "QUEUED", "PENDING_ADMIN_REVIEW", "MANUAL_REVIEW",
              "BROADCASTED", "CONFIRMING", "COMPLETED", "REJECTED"}

Init ==
    /\ status = [w \in Calls |-> "none"]
    /\ processingMode = [w \in Calls |-> "none"]
    /\ userLocalDate = [w \in Calls |-> NoDate]
    /\ createdAt = [w \in Calls |-> NoDate]
    /\ txHash = [w \in Calls |-> NoHash]
    /\ job = [w \in Calls |-> FALSE]
    /\ refunded = [w \in Calls |-> FALSE]
    /\ wallet = OpeningBalance
    /\ moved = [u \in Users |-> 0]
    /\ pc = [c \in Calls |-> "begin"]
    /\ automatic = [c \in Calls |-> FALSE]
    /\ taken = [c \in Calls |-> NoDate]
    /\ result = [c \in Calls |-> NoCall]
    /\ seen = [c \in Calls |-> "none"]
    /\ answer = [c \in Calls |-> "none"]
    /\ now = 0
    /\ signer \in BOOLEAN
    /\ suspended = {}
    /\ outcome = [h \in Hashes |-> "pending"]
    /\ events = 0

-----------------------------------------------------------------------------
(* Shared pieces *)

Created == {w \in Calls : status[w] # "none"}

\* findUnique on userId_clientRequestId
SameRequest(w, c) == ReqUser[w] = ReqUser[c] /\ ReqId[w] = ReqId[c]
Duplicates(c) == {w \in Created : SameRequest(w, c)}

\* getTradingDate in the user's time zone; the limits count UTC days instead
LocalDate(u, t) == (t + Offset[u]) \div DayLength
UtcDay(t) == t \div DayLength

\* Mutant: a rejected withdrawal gives its daily key back.
DailyKeyReleased(c) ==
    \E w \in Created : /\ ReqUser[w] = ReqUser[c] /\ status[w] # "REJECTED"
                       /\ userLocalDate[w] = LocalDate(ReqUser[c], taken[c])

DailyKeyTaken(c) ==
    \E w \in Created : /\ ReqUser[w] = ReqUser[c]
                       /\ userLocalDate[w] = LocalDate(ReqUser[c], taken[c])

\* The aggregates over createdAt >= dayStart(): a rejected withdrawal counts
\* against the global limit, not against the user's own.
CreatedToday == {w \in Created : UtcDay(createdAt[w]) = UtcDay(now)}

\* Mutant: rejected withdrawals leave the global limit as well.
GlobalPending ==
    SumFunctionOnSet(ReqAmount, {w \in CreatedToday : status[w] # "REJECTED"})

GlobalDaily == SumFunctionOnSet(ReqAmount, CreatedToday)
UserDaily(u) ==
    SumFunctionOnSet(ReqAmount,
        {w \in CreatedToday : ReqUser[w] = u /\ status[w] # "REJECTED"})

\* reasons.length > 0
OverLimit(c) ==
    \/ ReqAmount[c] > MaxPerTx
    \/ UserDaily(ReqUser[c]) + ReqAmount[c] > MaxPerUserDaily
    \/ GlobalDaily + ReqAmount[c] > MaxGlobalDaily

\* Mutant: the status goes by the heartbeat of the commit, the mode by the one
\* that was read before.
FirstStatusFresh(c) ==
    IF OverLimit(c) THEN "MANUAL_REVIEW"
    ELSE IF signer THEN "QUEUED" ELSE "PENDING_ADMIN_REVIEW"

FirstStatus(c) ==
    IF OverLimit(c) THEN "MANUAL_REVIEW"
    ELSE IF automatic[c] THEN "QUEUED" ELSE "PENDING_ADMIN_REVIEW"

Goto(c, l) == pc' = [pc EXCEPT ![c] = l]

\* The call is over; its locals are gone.
Answer(c, a) ==
    /\ Goto(c, "answered")
    /\ answer' = [answer EXCEPT ![c] = a]
    /\ automatic' = [automatic EXCEPT ![c] = FALSE]
    /\ taken' = [taken EXCEPT ![c] = NoDate]
    /\ result' = [result EXCEPT ![c] = NoCall]
    /\ seen' = [seen EXCEPT ![c] = "none"]

Event == events < MaxEvents /\ events' = events + 1

\* Mutant: the fee is kept, the recipient's amount is refunded.
RefundNet(w) ==
    IF refunded[w] THEN UNCHANGED <<refunded, wallet, status>>
    ELSE /\ refunded' = [refunded EXCEPT ![w] = TRUE]
         /\ wallet' = [wallet EXCEPT ![ReqUser[w]] = @ + ReqAmount[w] - 1]
         /\ status' = [status EXCEPT ![w] = "REJECTED"]

\* The wallet gets the debited amount back, once: a withdrawal whose REFUND row
\* is found is left as it is.
Refund(w) ==
    IF refunded[w] THEN UNCHANGED <<refunded, wallet, status>>
    ELSE /\ refunded' = [refunded EXCEPT ![w] = TRUE]
         /\ wallet' = [wallet EXCEPT ![ReqUser[w]] = @ + ReqAmount[w]]
         /\ status' = [status EXCEPT ![w] = "REJECTED"]

-----------------------------------------------------------------------------
(* createWithdrawal *)

\* The lookup before the transaction.  A row found here is the answer.
Begin(c) ==
    /\ pc[c] = "begin"
    /\ IF Duplicates(c) = {} THEN Goto(c, "mode") /\ UNCHANGED <<locals, answer>>
       ELSE Answer(c, "ok")
    /\ UNCHANGED <<rows, env>>

\* automaticWithdrawalAvailable(), and the date of the daily key
ReadMode(c) ==
    /\ pc[c] = "mode"
    /\ automatic' = [automatic EXCEPT ![c] = signer]
    /\ taken' = [taken EXCEPT ![c] = now]
    /\ Goto(c, "commit")
    /\ UNCHANGED <<rows, result, seen, answer, env>>

\* The transaction, or the handler of its unique violation, finds the row that
\* another call of the same request committed meanwhile.
CommitDuplicate(c) ==
    /\ pc[c] = "commit"
    /\ \E w \in Duplicates(c) :
        /\ result' = [result EXCEPT ![c] = w]
        /\ seen' = [seen EXCEPT ![c] = status[w]]
    /\ Goto(c, "notify")
    /\ UNCHANGED <<rows, automatic, taken, answer, env>>

\* Mutant: only the recipient's amount has to be covered.
CoveredNet(c) == ReqAmount[c] - 1 <= wallet[ReqUser[c]]

\* The balance covers the requested amount, fee included.
Covered(c) == ReqAmount[c] <= wallet[ReqUser[c]]

\* ACCOUNT_SUSPENDED, INSUFFICIENT_BALANCE or DAILY_WITHDRAWAL_LIMIT
CommitRefused(c) ==
    /\ pc[c] = "commit" /\ Duplicates(c) = {}
    /\ ReqUser[c] \in suspended \/ ~Covered(c) \/ DailyKeyTaken(c)
    /\ Answer(c, "refused")
    /\ UNCHANGED <<rows, env>>

CommitNew(c) ==
    /\ pc[c] = "commit" /\ Duplicates(c) = {}
    /\ ReqUser[c] \notin suspended
    /\ Covered(c) /\ ~DailyKeyTaken(c)
    /\ status' = [status EXCEPT ![c] = FirstStatus(c)]
    /\ processingMode' = [processingMode EXCEPT ![c] =
            IF automatic[c] THEN "AUTOMATIC" ELSE "ADMIN_FALLBACK"]
    /\ userLocalDate' = [userLocalDate EXCEPT ![c] = LocalDate(ReqUser[c], taken[c])]
    /\ createdAt' = [createdAt EXCEPT ![c] = now]
    /\ job' = [job EXCEPT ![c] = FirstStatus(c) = "QUEUED"]
    /\ wallet' = [wallet EXCEPT ![ReqUser[c]] = @ - ReqAmount[c]]
    /\ result' = [result EXCEPT ![c] = c]
    /\ seen' = [seen EXCEPT ![c] = FirstStatus(c)]
    /\ Goto(c, "notify")
    /\ UNCHANGED <<txHash, refunded, moved, automatic, taken, answer, env>>

\* A QUEUED result is handed to BullMQ (WithdrawalPayout, Enqueue), whose
\* failure is swallowed.  Its job row is looked up by this call's own payout
\* key, which no row has when another call created the withdrawal.
Notify(c) ==
    /\ pc[c] = "notify"
    /\ Answer(c, IF seen[c] = "QUEUED" /\ result[c] # c THEN "unavailable" ELSE "ok")
    /\ UNCHANGED <<rows, env>>

\* The database fails, or the web process dies: the call ends where it is.
CallLost(c) ==
    /\ pc[c] # "answered" /\ Event
    /\ Answer(c, "lost")
    /\ UNCHANGED <<rows, now, signer, suspended, outcome>>

-----------------------------------------------------------------------------
(* The administrator, and the machinery that decides the rest *)

\* Mutant: any withdrawal of the fallback mode can be approved or rejected.
InFallback(w) == w \in Created /\ processingMode[w] = "ADMIN_FALLBACK"

AwaitsReview(w) ==
    /\ w \in Created /\ processingMode[w] = "ADMIN_FALLBACK"
    /\ txHash[w] = NoHash /\ status[w] = "PENDING_ADMIN_REVIEW"

\* Withdrawal.txHash is unique; a COMPLETED target needs no look at the chain.
approveAdminWithdrawal(w, h, target) ==
    /\ AwaitsReview(w)
    /\ \A v \in Calls : txHash[v] # h
    /\ status' = [status EXCEPT ![w] = target]
    /\ txHash' = [txHash EXCEPT ![w] = h]
    /\ UNCHANGED <<processingMode, userLocalDate, createdAt, job, refunded, wallet, moved, calls, env>>

rejectAdminWithdrawal(w) ==
    /\ AwaitsReview(w)
    /\ Refund(w)
    /\ UNCHANGED <<processingMode, userLocalDate, createdAt, txHash, job, moved, calls, env>>

\* reconcileWithdrawal for a hash an administrator recorded; its interleavings
\* are those of WithdrawalPayout.
Settle(w) ==
    /\ status[w] \in {"BROADCASTED", "CONFIRMING"} /\ txHash[w] # NoHash
    /\ \/ outcome[txHash[w]] = "reverted" /\ Refund(w)
       \/ /\ outcome[txHash[w]] # "reverted"
          /\ \E s \in {"CONFIRMING", "COMPLETED"} :
                /\ s = "COMPLETED" => outcome[txHash[w]] = "success"
                /\ status' = [status EXCEPT ![w] = s]
          /\ UNCHANGED <<refunded, wallet>>
    /\ UNCHANGED <<processingMode, userLocalDate, createdAt, txHash, job, moved, calls, env>>

\* What WithdrawalPayout makes of a withdrawal that has a job, as one step.
Payout(w) ==
    /\ job[w] /\ status[w] \in {"QUEUED", "MANUAL_REVIEW"}
    /\ \/ Refund(w)
       \/ /\ \E s \in {"COMPLETED", "MANUAL_REVIEW"} : status' = [status EXCEPT ![w] = s]
          /\ UNCHANGED <<refunded, wallet>>
    /\ UNCHANGED <<processingMode, userLocalDate, createdAt, txHash, job, moved, calls, env>>

\* withdrawal-reconcile --apply shows a refunded withdrawal as CONFIRMING again
\* when it has a hash, recorded by an administrator or broadcast by the automation.
SetConfirming(w) ==
    /\ status[w] = "REJECTED" /\ (txHash[w] # NoHash \/ job[w])
    /\ status' = [status EXCEPT ![w] = "CONFIRMING"]
    /\ UNCHANGED <<processingMode, userLocalDate, createdAt, txHash, job, refunded, wallet, moved,
                   calls, env>>

-----------------------------------------------------------------------------
(* The environment *)

Tick ==
    /\ now < MaxTime
    /\ now' = now + 1
    /\ UNCHANGED <<rows, calls, signer, suspended, outcome, events>>

\* recordSignerHeartbeat; clearSignerHeartbeat, or HEARTBEAT_MAX_AGE_MS passed
Heartbeat ==
    /\ Event
    /\ signer' = ~signer
    /\ UNCHANGED <<rows, calls, now, suspended, outcome>>

\* Operators set the flag in the database.
Suspend(u) ==
    /\ u \notin suspended /\ Event
    /\ suspended' = suspended \cup {u}
    /\ UNCHANGED <<rows, calls, now, signer, outcome>>

\* A transfer between the spot and the future wallet, Serializable as well.
Transfer(u) ==
    /\ Event
    /\ \E sum \in {-1, 1} :
        /\ wallet[u] + sum >= 0
        /\ wallet' = [wallet EXCEPT ![u] = @ + sum]
        /\ moved' = [moved EXCEPT ![u] = @ + sum]
    /\ UNCHANGED <<wd, job, refunded, calls, now, signer, suspended, outcome>>

Execute(h) ==
    /\ outcome[h] = "pending"
    /\ \E o \in {"success", "reverted"} : outcome' = [outcome EXCEPT ![h] = o]
    /\ UNCHANGED <<rows, calls, now, signer, suspended, events>>

-----------------------------------------------------------------------------
createWithdrawal(c) ==
    \/ Begin(c) \/ ReadMode(c)
    \/ CommitDuplicate(c) \/ CommitRefused(c) \/ CommitNew(c)
    \/ Notify(c) \/ CallLost(c)

Review(w) ==
    \/ \E h \in Hashes, target \in {"BROADCASTED", "COMPLETED"} :
            approveAdminWithdrawal(w, h, target)
    \/ rejectAdminWithdrawal(w) \/ Settle(w) \/ SetConfirming(w) \/ Payout(w)

Next ==
    \/ \E c \in Calls : createWithdrawal(c) \/ Review(c)
    \/ \E u \in Users : Suspend(u) \/ Transfer(u)
    \/ \E h \in Hashes : Execute(h)
    \/ Tick \/ Heartbeat

Spec == Init /\ [][Next]_vars
-----------------------------------------------------------------------------
(* Properties *)

\* Every variable has its type, and what a step needs is there when it needs it.
TypeOK ==
    /\ status \in [Calls -> RowStatus]
    /\ processingMode \in [Calls -> {"none", "AUTOMATIC", "ADMIN_FALLBACK"}]
    /\ userLocalDate \in [Calls -> Int]
    /\ createdAt \in [Calls -> Int]
    /\ txHash \in [Calls -> Hashes \cup {NoHash}]
    /\ job \in [Calls -> BOOLEAN]
    /\ refunded \in [Calls -> BOOLEAN]
    /\ wallet \in [Users -> Nat]
    /\ moved \in [Users -> Int]
    /\ pc \in [Calls -> {"begin", "mode", "commit", "notify", "answered"}]
    /\ automatic \in [Calls -> BOOLEAN]
    /\ taken \in [Calls -> Int]
    /\ result \in [Calls -> Calls \cup {NoCall}]
    /\ seen \in [Calls -> RowStatus]
    /\ answer \in [Calls -> {"none", "ok", "refused", "unavailable", "lost"}]
    /\ now \in Nat
    /\ signer \in BOOLEAN
    /\ suspended \in SUBSET Users
    /\ outcome \in [Hashes -> {"pending", "success", "reverted"}]
    /\ events \in Nat
    /\ \A w \in Calls :
          status[w] \in {"BROADCASTED", "CONFIRMING"} => txHash[w] \in Hashes \/ job[w]

\* However many calls race, repeat after a lost answer or come from several
\* devices, one request makes one withdrawal, and a user has one per local day.
OneWithdrawal ==
    \A v, w \in Created :
        \/ v = w
        \/ ReqUser[v] # ReqUser[w]
        \/ ReqId[v] # ReqId[w] /\ userLocalDate[v] # userLocalDate[w]

\* What was put on the queue on one UTC day stays within the limits of the user
\* and of the whole application, whatever was requested concurrently, rejected
\* since, or requested for another local day.
QueuedWithinLimits ==
    \A day \in 0..UtcDay(now) :
        LET queued == {w \in Created : job[w] /\ UtcDay(createdAt[w]) = day} IN
        /\ SumFunctionOnSet(ReqAmount, queued) <= MaxGlobalDaily
        /\ \A u \in Users : SumFunctionOnSet(ReqAmount,
                {w \in queued : ReqUser[w] = u /\ ~refunded[w]}) <= MaxPerUserDaily

\* A withdrawal of the fallback mode is never adopted by the automation, even if
\* the signer comes back between the reading of the mode and the commit.
FallbackHasNoJob ==
    \A w \in Created : processingMode[w] = "ADMIN_FALLBACK" => ~job[w]

\* A withdrawal is shown as REJECTED only if its money went back; money that went
\* back is not shown as paid, whatever the administrator, the reconciliation and
\* the operator's script do later, and it does not go back while a hash is
\* recorded whose transaction may still pay.
RejectedIsRefunded ==
    \A w \in Calls :
        /\ status[w] = "REJECTED" => refunded[w]
        /\ refunded[w] => status[w] \in {"REJECTED", "CONFIRMING"}
        /\ refunded[w] /\ txHash[w] # NoHash => outcome[txHash[w]] = "reverted"

\* Submission, review and refund together honour the withdrawal contract.
Phase(w) ==
    CASE status[w] = "none" -> "absent"
      [] refunded[w] -> "refunded"
      [] status[w] = "COMPLETED" -> "paid"
      [] OTHER -> "held"

Contract == INSTANCE WithdrawalContract WITH
    Withdrawals <- Calls, Owner <- ReqUser, Amount <- ReqAmount,
    phase <- [w \in Calls |-> Phase(w)], available <- wallet

\* Every step is one the contract allows: a withdrawal takes exactly its amount
\* from a balance that covers it, and gives it back at most once.
ImplementsContract == Contract!Spec

\* "Valid new requests use immutable ADMIN_FALLBACK mode and remain
\* PENDING_ADMIN_REVIEW": until it is approved or rejected, a withdrawal of the
\* fallback mode is in the one status an administrator can act on.
FallbackIsReviewable ==
    \A w \in Created :
        (processingMode[w] = "ADMIN_FALLBACK" /\ txHash[w] = NoHash /\ ~refunded[w])
            => status[w] = "PENDING_ADMIN_REVIEW"

\* "Simultaneous requests converge": a call is not answered with an error while
\* the withdrawal it asked for exists.
DuplicateIsAnswered ==
    \A c \in Calls : answer[c] = "unavailable" => Duplicates(c) = {}
=============================================================================
