# Bitvora: a formal model of the money paths

Bitvora is a Next.js application with a PostgreSQL database (Prisma), BullMQ
queues on Redis and a set of PM2-managed worker processes. Users hold a *spot
wallet* and a *future wallet*, deposit through NOWPayments, withdraw on chain,
let an AI trade run on their future wallet, and earn referral, rank and salary
income. The parts that move money are concurrent programs: several processes,
retried jobs, a chain and a payment provider that answer late or not at all.
This directory models those parts in TLA+, checks them with TLC on small
instances and proves the most important properties with TLAPS.

## 1. Inventory

Paths are relative to the repository.

| component | state | operations | talks to |
|---|---|---|---|
| Withdrawal submission and review (`lib/withdrawals/submission.server.ts`, `admin.server.ts`, `mode.server.ts`) | rows `Withdrawal`, `WithdrawalJob`, `WithdrawalLedger`; `UserState.wallet`; signer heartbeat | `createWithdrawal`, `approveAdminWithdrawal`, `rejectAdminWithdrawal`, `recordSignerHeartbeat` | spot wallet (debit, refund), payout queue |
| Automatic payout (`processor.server.ts`, `queue.server.ts`, `audit.server.ts`, the withdrawal scripts) | the same rows, `WithdrawalBroadcastAttempt`, BullMQ jobs, the hot wallet's chain | `processWithdrawal`, `reconcileWithdrawal`, `refundFailedWithdrawal`, `recoverPendingWithdrawalJobs`, confirmation cycle, `withdrawal-reconcile --apply` | chain RPC, Redis, spot wallet |
| Salary (`lib/salary/`, `scripts/salary-*.ts`) | `SalaryCycle`, `SalaryPayment`, ledger, BullMQ jobs, a dead-letter queue | scheduler tick, cycle creation, payment, failure handling, recovery, finalisation, admin commands, repair script | ranks, spot wallet |
| AI trade pipeline and intents (`lib/ai-trade-scale/`, `lib/ai-trade-intent.server.ts`, `scripts/ai-trade-*.ts`) | session runs, jobs, trades, intents, BullMQ jobs | place a trade by token, open sessions, create, settle, recover, finalise | Future wallet |
| Wallet documents (`lib/wallet-data.ts`) and Future wallet (`lib/future-wallet.server.ts`) | `UserState.wallet`, one JSON document; wallet row, its ledger, the mirror in the document | credit, debit, `ensureFutureWallet`, `mutateFutureWallet`, `reconcileLegacyMirror` | everything that moves money |
| Transfers, referral income, AI Bot, administrator's funds (`app/api/account/transfer`, `lib/referral/`, `app/api/ai-bot`, `lib/admin/admin-fund-service.server.ts`, their forms) | the documents of several users, first-transfer and income rows, subscriptions, adjustments, request keys in the browser | transfer in both directions, pay the upline, buy, expire, adjust | wallets, ranks |
| Ranks and registration (`lib/rank-engine.ts`, `lib/rank-recalculation.server.ts`, `lib/auth/registration.ts`) | stars and rewards in every member's document | evaluate and reward all members | called by transfers and registrations |
| NOWPayments deposits (`lib/nowpayments/`) | rows `NowPaymentsDeposit` | create, callback, refresh, recovery script | provider, wallet document |
| Accounts (`auth.ts`, `lib/auth/`, `lib/admin/user-password-reset.server.ts`, change of password, the reset dialog) | `User`, `Session`, audit entries, cookies | sign in, sign out, change, reset | |
| KYC (`lib/kyc/`, its routes and pages) | a JSON file of records, image files, a promise queue | submit, review, eligibility | withdrawal submission |
| Outbox, support chat, banners, market data, UI, migrations | see `PROJECT.json` | | |

What is hard, and what makes each component correct:

* **Payout.** A delivery may die anywhere, be retried, be redelivered while it
  still runs; `sendTransaction` may fail although the node took the transaction;
  the row is read long before it is written. Correct means: at most one
  transaction per withdrawal, a refund only when none can pay, COMPLETED only
  for what is buried in the chain, and every accepted withdrawal decided.
* **Submission.** Double clicks, retries, several devices, a signer that
  disappears between the reading of the mode and the commit, local days
  against UTC days. Correct means: one withdrawal per request and per local
  day, limits respected by what is queued, money held exactly when a row
  exists.
* **Wallets.** A whole JSON document is rewritten by seven features under three
  isolation regimes, two of which write back what they read before; a transfer
  touches a chain of up to six users and every rank. Correct means: balance and
  ledger of a document fit each other, whatever is overwritten; documents that
  nobody overtook agree with the tables, the Future wallet and its mirror agree, the upline is paid for the first transfer and only for it,
  ranks are at their fixed point, a request whose answer was lost counts once.
* **Deposits.** Reports arrive late, twice and out of order, and creation
  involves the provider. Correct means: one credit per payment, of an amount
  that was really confirmed, and no money paid to a payment nobody knows.
* **Salary.** A cycle is created, paid by many jobs, retried, dead-lettered and
  finalised by whoever comes last. Correct means: a payment is paid once, and
  a finished cycle's totals are those of its payments.
* **AI trade.** A cycle of five phases, two queues, redeliveries, additions
  that arrive after the caller gave up, an eight-second limit on the request.
  Correct means: every principal locked once and settled once, a session
  COMPLETED only when everybody it had counted is settled, nothing promised is
  forgotten.
* **Accounts.** Sign-ins, changes and resets of one user interleave by database
  statements. Correct means: after a reset nobody is signed in from before, and
  the administrator sees what was committed.
* **KYC.** One file, read and rewritten as a whole, with images beside it.
  Correct means: no decision lost, no record without its images, every call
  answered although a write failed.

The hazards, each with its source line and the properties that would catch it,
are listed in `PROJECT.json`.

## 2. Modules

| module | kind | role |
|---|---|---|
| `WithdrawalContract` | abstract specification | what withdrawals promise about money |
| `WithdrawalPayout` | component | jobs, BullMQ, payout worker, confirmation cycle, reconcile script, chain; refines the contract |
| `WithdrawalRequest` | component | submission and review; refines the contract |
| `MCWithdrawalPayout`, `MCWithdrawalRequest` | model checking | constants of the runs |
| `WithdrawalPayoutProofs`, `WithdrawalRequestProofs` | proofs | theorems for every value of the constants |
| `SetSums` | theory | sums over finite sets: the value does not depend on the order of the fold; cited by the proofs about totals |
| `CreditContract` | abstract specification | what features that add money promise: once per key, exactly |
| `SalaryCycle` | component | one salary cycle: creation, jobs, worker, recovery, administrator, repair script; refines the contract |
| `MCSalaryCycle`, `SalaryCycleProofs` | model checking, proofs | constants of the runs; theorems |
| `AccountAccess` | component | sign-in, sessions, change and reset of passwords |
| `KycRecords` | component | the record file, its queue of saves, submissions, reviews, eligibility |
| `RankEngine` | pure operators | the sponsor tree and the ranks |
| `WalletLedgers` | shared state | the wallet document, the Future wallet's row, their ledgers |
| `WalletNetwork` | component | transfers, referral income, ranks, AI Bot, administrator's funds, trades' locks, registration |
| `NowPayments` | component | deposits through the provider |
| `Wallets` | composition | the network and the deposits over the same wallets; their properties |
| `AiTrade` | component | one slot of the AI trade pipeline, with manual placements by token |
| `MCKycRecords`, `MCWallets`, `MCAiTrade` | model checking | constants of the runs (those of AccountAccess are in its `.cfg`) |
| `AccountAccessProofs`, `KycRecordsProofs`, `WalletsProofs`, `AiTradeProofs` | proofs | theorems for every value of the constants |

### 2.1 WithdrawalContract

`phase[w]` goes from *absent* to *held* to *paid* or *refunded*; `available[u]`
is the spot balance. `Hold` takes exactly the amount from a balance that covers
it, `Refund` gives exactly the amount back, nothing undoes `Pay` or `Refund`.
`moved` accounts for the other features that change the balance.

### 2.2 WithdrawalPayout

Variables are the columns the code reads and writes (`status`, `txHash`,
`jobStatus`, `attempts`, the attempt row of each nonce, `refunded`, `wallet`),
the state of BullMQ (`bull`, `holder`, `stalls`), the chain, and the locals of
each worker slot and confirmation cycle (`pc`, `cur`, `nonce`, `hash`, `rcpt`).
An action is the code between two awaits on shared state:

| action | code |
|---|---|
| `Enqueue`, `MarkEnqueued`, `SubmitLost` | `enqueueWithdrawalJob` and the update after it, from the request, the recovery loop and the script |
| `RecoverScan` | `recoverPendingWithdrawalJobs` |
| `Deliver`, `Finish`, `Throw`, `Stalled`, `Forget`, `WorkerCrash` | BullMQ and the worker process, as the code configures them |
| `Load`, `Reserve`, `ReserveRefused`, `Prepare`, `Send`, `SendFails`, `LookupFound`, `LookupUncertain`, `Record`, `Raise`, `retryOrReview` | `processWithdrawal`, step by step |
| `ReconcileRead` ... `ReconcileRefund` | `reconcileWithdrawal` and `refundFailedWithdrawal`, run by a delivery or by a confirmation cycle |
| `PollScan`, `PollNext`, `PollDone`, `PollThrow` | the confirmation worker |
| `Audit`, `ApplyStatus` | `withdrawal-reconcile --apply` |
| `Mine`, `Bury` | the chain; a transaction executes once every smaller nonce has |

Abstractions: the hot wallet is used by this system alone, so a transaction
hash is identified with the nonce it was signed for; amounts, gas and texts are
left out; chain states only advance (no reorganisation). Left out of the code:
the SIGNING/UNCERTAIN branch of `reconcileWithdrawal` for an attempt without
any hash (the hash is stored in the same update that sets SIGNING), the
AUTOMATION_DISABLED exit (the worker refuses to start then), overlapping
recovery scans, `take` limits of the scans, and the classes of the audit that
compare ledger and job rows the submission transaction always writes. The
unique key on nonces is not modelled; `NonceKeepsOwner` shows it is never
needed.

### 2.3 WithdrawalRequest

A call of `createWithdrawal` goes through `Begin` (lookup), `ReadMode`
(heartbeat, local date), one Serializable transaction (`CommitDuplicate`,
`CommitRefused`, `CommitNew`) and `Notify` (hand-over to the queue). A
withdrawal carries the name of the call that created it. `approveAdminWithdrawal`
and `rejectAdminWithdrawal` are one transaction each. `Settle` and `Payout`
stand for reconciliation and the payout in one step: their interleavings are
those of WithdrawalPayout. `SetConfirming` is `withdrawal-reconcile --apply`, which
shows a refunded withdrawal as CONFIRMING again when it has a hash
(`audit.server.ts:10`); a refund that already has its ledger row changes nothing. Clock, heartbeat, suspensions and transfers belong to
the environment. Left out: address, minimum and KYC checks, which refuse a call
before it touches this state; the individual error codes (they are `refused`);
a second approval with the same hash and a second rejection, which change
nothing; deposits, which write the wallet under READ COMMITTED and are modelled
in NowPayments.
### 2.4 CreditContract and SalaryCycle

`CreditContract` lets a key be credited once, and then by exactly its amount.
`SalaryCycle` maps a user's payment row to the key. Cycles share nothing but the
wallets, so one cycle is modelled. Its steps end where the code awaits the
database or Redis:

| action | code |
|---|---|
| `Create`, `InsertBatch`, `StartCycle`, `EnqueuePayment`, `CreatorDies` | `createSalaryCycleForDate`, from the scheduler or from `salary:run-current` |
| `RecoverScan`, `RecoverAdd`, `RecoverLost` | `recoverSalaryPayments`, which the scheduler's tick calls after the creation |
| `Deliver`, `Rejected`, `Stalled`, `Forget`, `WorkerCrash` | BullMQ with the options of `salaryJobOptions` |
| `Pay`, `PayFails` | `paySalary`: one Serializable transaction under row locks is one step (`paySalary(u)`), and its answer may be lost |
| `Count`, `SlotWrite`, `OperatorWrites`, `FinalizeFails` | `finalizeSalaryCycle`: the `groupBy` and the `update` are two steps |
| `MarkForRetry`, `MarkFailed`, `DeadLetter`, `CatchThrows` | the worker's catch block, which itself awaits twice or more |
| `RetryRead`, `RetryReset`, `RetryAdd`, `ReconcileRead`, `ReconcileAdd` | the administrator's RETRY and RECONCILE |
| `AuditRead`, `AuditPay` | `salary-audit.ts`, with or without `--repair` |

A job is a kind of id, a user and a number, as the ids are built: the number of
a recovery is the row's `attempts`, that of an administrator's job tells
commands apart as `Date.now()` does. BullMQ refuses custom ids whose colons do
not make three parts (`Accepts`): the ids of payments and recoveries pass, the
dead letter's `SALARY_DLQ:<payment>` does not, so `DeadLetter` always throws out
of the catch block, after the row was set to FAILED and before the cycle is
finalised. `salary_dead_letter` expects the violation:
`test/salary-engine.test.ts:37` says "isolates failures and dead-letters
exhausted jobs".
Left out: the notification written with the ledger entry, the creation of a
missing wallet row, the batch limit of the recovery, the 24-hour window, and the
evaluation of ranks (`Salary` is a constant: the rows hold the evaluation).

### 2.5 AccountAccess

A browser holds one cookie and runs one request at a time; a stored hash is
named by the password it verifies.

| action | code |
|---|---|
| `VerifyCredentials`, `CreateSession` | `verifyLoginCredentials` and the session row `auth.ts` creates: two statements |
| `SignOut` | `logout` in `app-shell.tsx` |
| `ChangeRead`, `ChangeWrite` | the user's change of password, which verifies the hash it read and later writes without a condition |
| `OpenModal`, `SubmitReset`, `CancelModal`, `ShowAnswer` | the dialog `user-password-reset-modal.tsx` |
| `ResetFind`, `ResetUpdate`, `ResetDelete`, `ResetCommit`, `ResetFails`, `AnswerLost` | the route and `user-password-reset.server.ts`: one READ COMMITTED transaction, whose update locks the user's row and whose delete takes the sessions committed by then |

Left out: registration, validity periods of sessions, the texts of refusals.

### 2.6 KycRecords

`record` is the content of the JSON file, `disk` the image files, `queue` and
`tail` the chain of save promises. `Begin`, `AwaitQueue`, `QueueRejects` are
the common head of every call; `SubmitRead`, `StoreDocument`, `DocumentFails`,
`SaveSubmission`, `SaveReturns` are a submission, which takes turns per user;
`ReviewRead` is an administrator's decision, `CheckRead` the eligibility test
of a withdrawal; `RunSave` and `SaveFails` are the queue's write, `Restart` the
process. A record has a version, the names of its images and its history;
personal data and file formats are left out.

### 2.7 The wallets

Five modules. `RankEngine` holds the rules of `rank-engine.ts` as operators:
all members are evaluated at once from the stored stars until nothing changes,
at most `Passes` times. `WalletLedgers` holds the wallet document and the
Future wallet's row with `PostSpot`, `Ensured`, `Mutated` and `Mirrored` (the
mirror in the document) as the operations every transaction consists of.

| action | code |
|---|---|
| `Submit`, `Confirm`, `CloseConfirmation`, `ChangeFrom`, `AnswerArrives` | the transfer form, its dialog and its request key |
| `TransferAnswered`, `TransferUnconfirmed`, `TransferRefused`, `Transfer`, `TransferFails` | the route: one Serializable transaction, with the first transfer's income (`Plan`, `Payable`) and `recalculateAuthoritativeNetwork` |
| `BuyBot`, `ExpireBot` | `app/api/ai-bot`, with the sponsor's share |
| `SearchUser` ... `FundShown` | the administrator's form and `applyAdminFund` |
| `TradeLocks`, `TradeSettles` | what AiTrade does to the wallet, for the principal that ranks count |
| `RegisterRead`, `RegisterWrite`, `RegisterFails` | registration, READ COMMITTED: reads and rewrites all documents |
| `CreateBegins` ... `CreateSaves`, `ProviderCreates`, `ProviderStep` | the creation of a deposit, and the provider |
| `IpnArrives`, `RefreshBegins`, `getPaymentStatus` | callbacks and refreshes; a callback carries any report ever made |
| `SaveRead`, `SaveUpdate`, `SaveCommit`, `CallFails` | the READ COMMITTED transaction of `deposit-store.server.ts` |

A deposit and a registration read documents, and write them back later, in a
READ COMMITTED transaction without a row lock. Nothing in the model keeps others
from writing in between, so writes are lost here as they are in the code. The
observer `stale` collects the users whose document was replaced by one read
before its last change; no guard reads it. What the properties then say is how far
the damage goes. `DocumentAddsUp` holds for every document, overwritten or not:
balance and ledger travel together. `LedgersAgree` and `MirrorIsExact` hold for
every document outside `stale`: a lost write leaves nothing wrong in other
documents or tables. Stars are those the rules give as long as nothing is stale,
and again after the next transfer, whatever is stale (`RanksHeal`).
`TransferAnswered` repeats the distribution of a first transfer, as
`transfer/route.ts:19` does, so a level that has qualified since is paid. The
three requests of the run do not reach the case in which that pays anything;
`FirstTransferDecides` covers it. A registration's queries are taken as one read,
and one registration is open at a time.

### 2.8 AiTrade

One slot (a settlement instant) with the AI Bot's run and a manual one. Its
variables are the columns (`run`, `row`, `trade`, `wallet`, `intent`), BullMQ's
view of each job (`bull`, `hanging` for additions whose caller gave up), worker
slots, the orchestrator's cycle and the browser's calls.

| action | code |
|---|---|
| `openDueSessions`, `enqueueDueSettlements`, `recoverOverdueSettlementJobs`, `recoverQueuedJobs` and their `...Fails` | the phases of `orchestrator.ts`; a failing phase has done any part of its work, and the cycle starts over |
| `Count`, `finalizeSession`, `CycleEnds`, `FinalizeFails` | `finalizeSessions`: the sessions with their `totalEligible` are read when the phase begins (`recoverQueuedJobs` ends with it), then four counts in any order, then a write that compares with what was read |
| `Take` ... `Acknowledge`, `LosesLock` | `worker.ts`: the row set to RUNNING, the transaction, the row completed, the catch block with its dead letter |
| `CatchUp` | `ai-trade-catch-up --apply`, another process that opens sessions at any time |
| `createTradeForUser`, `settleTrade` | the financial work of a job: one Serializable transaction each; what they refuse (`Creatable`, `Settlable`: no subscription, nothing to lock, less locked than the principal) makes the job DEAD |
| `createTradeIntent`, `placeIntentTrade`, `Consume`, `ConsumeFails`, `FindRow`, `CreateRow`, `AddJob`, `CountRows`, `SetStatus`, `CallFails`, `CallTimesOut`, `WebDies` | the token, the request that reads it and then consumes it or is told that another has, its eight seconds |
| `AddArrives`, `Evict`, `Stalled`, `Thrown` | BullMQ: late additions, retention, lost locks, failed jobs |

Money is in cents; fifty cents at one per cent are the least with which a second
trade finds nothing to lock while the first is open, and a trade earns a cent.
`CompletedIsSettled` is an action property about the step that makes a session
COMPLETED: as many trades are settled as the finalisation had read in
`totalEligible`, before the counts. It does not say that everybody *now* queued is
settled, because the code does not see to it: a joiner after the read, or a
request that dies between its row and the count, is left behind.
`DeadNeverCompleted`, which `docs/ai-trade-scale.md:18` promises without exception,
is violated in the further configurations below.
Left out: the subscription's times, the twelve-hour catch-up window, batch
limits, totals for display, notifications. While modelling we met, and no
property states: a CREATE row stays RUNNING when BullMQ gives its job up; an
interrupted opening may leave a run QUEUING; the death of the web process leaves
a token used; two requests may write a smaller `totalEligible` over a larger.

## 3. Runs

| run | question | bounds and why they are enough |
|---|---|---|
| `payout_one` | one withdrawal through every kind of failure, two failures per behaviour, plus one operator audit | four nonces allow the first try, two retries and one more; two failures put a crash on top of a failed send; MaxAttempts 2 reaches the review |
| `payout_overlap_safe` | a job is redelivered while its first run is alive | two slots and two nonces let both runs send; no other failure |
| `payout_live` | liveness, with a web process that dies around the hand-over | one nonce suffices: without a send failure there is one transaction |
| `request_retry` | a request sent twice against another of the same user, under limits, with lost calls, signer changes, the payout, the script, suspensions, transfers | three calls is the least with a duplicate and a competitor; two environment events; each call's amount is within the limits and any two together are not; the local day changes within the UTC day |
| `salary_pay` | the finalisations of two concurrent jobs, any two failures of any kind after the creation | two users and two slots make two counts overlap; one attempt reaches FAILED at once |
| `salary_dead_letter` | expects a violation: a payment out of attempts has no dead letter | one user, one slot, one attempt, one failure |
| `salary_commands` | money and totals with both creators, an interrupted creation and two commands | one user and two slots: users share only the cycle row, which `salary_pay` covers; two commands race each other |
| `salary_live` | every ranked user is paid in spite of one failure | one slot; two attempts outlive one failure; more failures than attempts leave a row to the administrator |
| `account_reset` | a reset against sign-ins, a change and a second reset | an administrator and a user in two browsers, two changes or resets, three sessions, one failure |
| `kyc_review` | submissions from two tabs and by two users, two reviews by one administrator, a withdrawal's check | one failing image, save or restart; a second administrator and a failing read are further configurations |
| `wallets` | the books, ranks, income, funds and deposits of a chain of three, the last of whom registers late | three requests, failures unbounded: a transfer, what changes the rank it caused, and a repetition; two payments, two calls at once; the root, who has no upline to pay, only receives |
| `ai_trade` | both runs of one user in one slot, one rare event of any kind, safety and liveness | two attempts, one stall; the second trade finds the balance locked; two users are in `AiTradeUsers`. The recovery of a settlement that failed in BullMQ while its row is not DEAD takes two rare events and is not reached; with `MaxStalledCount = 0` one lost lock suffices, the properties hold, and without that branch of `Overdue` `LockedIsSettled` fails. One request: two on one token are only in the proof |

Deadlock is checked in the payout and salary runs: the machinery never stops
(the confirmation cycle, the operators or the scheduler's tick can always
step). The other runs end when their bounded calls, requests and changes are
used up, so they do not check it; `ai_trade` goes on for ever, but the
orchestrator's cycle would hide any other deadlock, and liveness is checked
instead. Symmetry is used in `payout_overlap_safe` and `wallets`, which check only
safety.

### 3.1 Further configurations

These are not among the runs of `PROJECT.json`; each answers a narrower question
(`tlc -config X.cfg M`).

| configuration | module | what TLC finds |
|---|---|---|
| `PayoutOverlap` | `MCWithdrawalPayout` | `AtMostOnePayout` is violated when a job is redelivered while its first run is alive: the reservation refuses only a stored hash (`processor.server.ts:37`), so two deliveries that both loaded the row both broadcast, whereas `test/automatic-withdrawal.test.ts:31` says "BullMQ retries cannot bypass database payout identity" |
| `PayoutRetryLost` | `MCWithdrawalPayout` | `RetryHappens` is violated: BullMQ remembers a finished job under its deterministic id for a day and ignores an `add` with a known id; the recovery marks the row ENQUEUED without looking |
| `PayoutUncertain` | `MCWithdrawalPayout` | `UncertainStaysInReview` is violated: run again, the delivery that put a withdrawal under review reconciles the signed hash and sets CONFIRMING, whereas `docs/automatic-withdrawals.md:38` leaves it in review |
| `RequestLimits` | `MCWithdrawalRequest` | no error: `QueuedWithinLimits` with two users and a clock that passes the end of a UTC day |
| `RequestFallback` | `MCWithdrawalRequest` | `FallbackIsReviewable` is violated: over a limit and without a signer a request is stored as ADMIN_FALLBACK with status MANUAL_REVIEW, which no administrator action accepts, whereas `docs/automatic-withdrawals.md:5` says it remains PENDING_ADMIN_REVIEW |
| `RequestDuplicate` | `MCWithdrawalRequest` | `DuplicateIsAnswered` is violated: the loser of two simultaneous calls looks for a job under a key no row has and answers 503 although the withdrawal exists |
| `SalaryRepair` | `MCSalaryCycle` | `CompletedIsCredited` is violated: the cycle row is committed before its payments; if the creator dies in between, later runs find the key taken and the repair script finalises a cycle without rows to COMPLETED |
| `SalaryRecover` | `MCSalaryCycle` | `PendingIsRecovered` is violated: a payment whose job and recovery job were both failed after stalling stays PENDING, because `attempts` did not grow and BullMQ keeps the failed id |
| `AccountResetUndone` | `AccountAccess` | `ResetPrevails` is violated: a change of password verifies the hash it read and writes without a condition, so it may undo a reset committed in between |
| `KycTwoAdmins` | `MCKycRecords` | `ApprovedIsLocked` is violated when two administrators review one record: a rejection decided on the read record overwrites an approval |
| `KycWedged` | `MCKycRecords` | `RetryIsServed` is violated: a save that failed stays the newest promise, and everybody who awaits it fails until a restart, whereas the message says "Please retry." |
| `KycUnreadable` | `MCKycRecords` | `ApprovedIsLocked` is violated when a read of the file fails: the error is taken for an empty file, and the next save writes it back |
| `WalletFees` | `MCWallets` | no error: `TypeOK` and `FeeWasShown`, a deduction is taken only if the dialog showed it |
| `DepositStale` | `MCWallets` | `CreditedIsCompleted` is violated: an older report saved late leaves a credited deposit EXPIRED or CONFIRMING |
| `TransferSwitched` | `MCWallets` | `ConfirmedDirection` is violated: the wallet selected in the form may change between the dialog and its request |
| `AiTradeUsers` | `MCAiTrade` | no error: two subscribers and two rare events, safety: `TypeOK`, `WalletIsTrades`, `CompletedIsSettled` |
| `AiTradeDead` | `MCAiTrade` | `DeadNeverCompleted` is violated when BullMQ delivers a job again whose row is DEAD, after the worker lost the lock before acknowledging: the row is RUNNING while the dead are counted, `eligible` may still be 0, and the session becomes COMPLETED, whereas `docs/ai-trade-scale.md:18` says of failed and dead jobs "they never allow `COMPLETED`" |
| `AiTradeUncounted` | `MCAiTrade` | `DeadNeverCompleted` is violated without any such delivery: of two manual placements one request fails between its job row and the count of rows, so `totalEligible` stays 1; its job ends DEAD after the dead were counted, the other's trade settles, and one settled trade of one eligible user makes the session COMPLETED (depth 36, about three minutes with four workers) |

## 4. Fairness

`WithdrawalPayout!Fairness` has weak fairness on what running processes do:
worker slots, deliveries, the confirmation cycle (`setInterval`), the recovery
loop, enqueueing and marking, retry delays, the stalled check on deliveries
whose worker is gone, and the chain executing and burying what it can. PM2
restarts every process (`ecosystem.config.js`), so a crash does not end this.
There is none on failures, operators (`Audit`, `ApplyStatus`) or on BullMQ's
day-long retention. `WithdrawalRequest` states no liveness: a call may be lost.
`SalaryCycle!Fairness` has weak fairness on creation, on the recovery of the
scheduler's tick, on each job's delivery and stalled check, and on each slot's
steps; PM2 restarts both processes. There is none on failures, operators or
BullMQ's retention.

`AccountAccess` has weak fairness on the server's steps of a request it took,
none on what users do. `KycRecords` has it on the steps of a call that began and
on the queue's save, which Node's event loop runs. `Wallets` states no liveness.
`AiTrade` has it on the clock, on the orchestrator's cycle, on worker slots and
calls, and on additions Redis still owes; PM2 restarts the processes. Rare
events are bounded by `MaxEvents` and never fair.

## 5. Proofs

TLAPS checks the theorems below for every value of the constants that satisfies
the named assumptions of the modules: any number of users, withdrawals, nonces,
jobs, requests and failures. `PROJECT.json` lists them with the property each
states. An assumption beyond those is part of the theorem's statement and
named here.

* **WithdrawalPayoutProofs.** `TypeCorrect` and `NonceOwnership` hold as they
  stand. `PaysOnce`, `NeverPaysARefund`, `CompletesPaidOnly`,
  `ClosesDecidedOnly`, `HashNeverReplaced` and `HonoursContract` (the
  refinement) assume `~Overlap`: no job is redelivered while its first run is
  alive; `PayoutOverlap.cfg` shows that at-most-once fails otherwise. None of the
  properties is inductive. The invariant `IInv` adds: a slot past `Load` holds
  the only live lock of its withdrawal (`LockInv`); where cycles are
  (`PollerInv`); what each attempt row says about chain and owner
  (`AttemptInv`); a stored hash is that of the newest attempt's transaction
  (`HashInv`); what the locals of a slot at each label imply (`SlotInv`); a
  receipt once read stays true (`ReconcileInv`); and what a refund, a
  completion and a closed job imply (`RefundInv`, `CompletedInv`). The heart of
  the argument is that a withdrawal with a signed attempt is never reserved a
  second nonce, because `mayBroadcastWithdrawal` looks at the signed hash and
  only the lock's holder can have signed since. `ReviewIsFinal` adds to it that a
  slot which decided to reserve still sees a row outside MANUAL_REVIEW.
* **WithdrawalRequestProofs.** `TypeCorrect`, `OnePerRequestAndDay`,
  `NeverAdopted`, `RefundsRejectedOnly`, `HonoursContract`, from `TypeOK`, `ModeInv` (a row's mode, status and job
  agree), `OneWithdrawal` and `RejectedIsRefunded`. `LimitsRespected` is about sums:
  `LimitInv` says that the rows are finitely many and that the queued amounts of
  every UTC day, whether or not the clock reached it, are within the limits, of
  all users together and of each; a commit adds at most one amount to one day.
* **SalaryCycleProofs.** `TypeCorrect` and `HonoursContract` hold for every
  value of the constants: `paySalary` credits only without a ledger entry and
  writes both in one transaction, and nothing else touches money.
  `TotalsNeverExceed` too: `TotalsInv` says that rows and counts call PAID only
  who is in the ledger, and that the total is the sum over some part of the
  ledger's users; a sum of non-negative salaries grows with its set.
  `CompletesCreditedOnly` assumes `Undisturbed`: the scheduler is the only
  creator, it lives until the rows are inserted, and no command is given.
  `SalaryRepair.cfg` shows what happens otherwise. `CompletedIsCredited` is not
  inductive, since a finalisation writes what it counted earlier; `IInv` adds
  that settled rows are true (`PaidInv`), that every user has a row before the
  first job exists (`CreationInv`), that operators are idle (`QuietInv`), and
  that a count stays true until it is written (`SnapInv`): the ledger only
  grows, and a row's rank is fixed when it is created.
* **AccountAccessProofs.** No assumption. `SignsOutEverywhere` is the argument
  about one READ COMMITTED transaction: a user's row is locked exactly by the
  transaction between its update and its commit (`RowIsHeld`), until that commit
  the rows its delete chose are the live sessions up to the newest it saw
  (`DeleteIsCurrent`), and no session at or below the last reset's mark is alive
  afterwards. `SuccessFollowsCommit` needs that a request past its commit has its
  audit entry; `AuditCountsSessions` that entry numbers do not exceed their count,
  so a new entry is new, and then that each sum of ended sessions grows by what
  the delete took.
* **KycRecordsProofs.** All under `OneReviewer`: the file is readable and one
  person decides about a user; `KycTwoAdmins.cfg` and `KycUnreadable.cfg` show
  that both are needed. `ApprovedStays`, `ImagesStay`, `HistoryTold`,
  `EligibleStays` rest on one fact: what a call is about to save is its own
  decision about the record as it is now (`Current`), although it read the
  record several awaits earlier. It holds because submissions of a user take
  turns (`TurnsOK`), a tab has one call at a time (`TabsOK`), and a call that
  waits for the queue waits for the newest save (`Queued`). `ImagesOK` follows a
  submission's images from the disk to the record, `Shape` says that version
  and status determine what the history must be.
* **WalletsProofs.** `PaidHasRow`, `FundsOnce`, `DepositsAreEarned`,
  `FirstTransferDecides` and `StarsCarryRewards` assume nothing about races.
  `DepositInv` ties rows, calls, reports and addresses; `IncomeInv` says what a
  first transfer may have distributed; `DocsInv` says of every document, *and of
  every document a transaction still holds a copy of*, that its entries and
  processed sets come from reports that were made, transfers that happened and
  stars that were reached.
  `DocumentsAddUp` also holds with races: `SumsInv` says that in every document,
  and in every copy a deposit or a registration will write back, the Spot balance
  is what its own ledger says. Income entries are traced to the rows of the
  distribution, so that a share that is payable is new to the sponsor's ledger.
  `DeductionsAreShown` follows every transfer entry that carries a form's present
  key back to the dialog (`FeeInv`; the keys of requests only grow).
  `BooksStayTogether` assumes nothing about races either: in every document outside
  `stale` the row of the Future wallet and the mirror agree, and so do the
  ledgers with all tables (`AgreeInv`); the one step that could break this, a write
  of an older copy, puts its owner into `stale`. That the sponsors form a tree is
  an assumption on the constant: a sponsor exists before its member does.
  `AllBooksAgree` joins `DocumentsAddUp` and `BooksStayTogether`.
  `RanksSettle` and `TransfersHealRanks` assume `Shallow`: every member can be given a
  level in 1 .. `Passes` + 1 below its sponsor's. Then the `k` lowest levels are
  final after `k` passes (`FixedPoint`), so the look behind the loop finds a fixed
  point; `RanksInv` adds that retained principals are natural, that who has
  entries in the ledger has a row, and that stars are earned *now*, since a change
  of a principal and the recalculation are one transaction; it is kept as long as
  nothing is stale (`RanksHold`), and the recalculation of a transfer starts from
  any stars, which is why it heals. The code passes 8
  times and the conditions of its ranks are not monotone (`directs` is 0, 3, 3, 2,
  2, 2, 2), so for a network deeper than nine levels nothing is promised. What is
  assumed of `Qualifying` and of the ranks' `team` is what the code has: 50 USDT,
  and at least one member.
* **AiTradeProofs.** No assumption. `TypeCorrect`; `MoneyIsExact`, the sums of
  locked principals and settled profits through every step of the pipeline;
  `SessionsCompleteSettled` from `SessionInv`: a trade has its row, a worker that
  runs a job has its row, and the count of settled trades a finalisation holds
  belongs to the session it finalises and is not larger than the real one.
  Nothing about `totalEligible` is needed beyond the value that was read: the
  statement does not depend on who changes it meanwhile.
* **SetSums.** `SumFunctionOnSet` folds over a set by CHOOSE. That its value does
  not depend on the choices is an induction over finite sets, which the library
  states with an operator parameter. `SetInduction` states it for a *set* of
  sets instead, and proves it from a least cardinality; sums of unions,
  additions, bounds and monotony follow.

Only model-checked: liveness, which needs ENABLED (`MinedIsCompleted`,
`QueuedIsDecided` of the payout and of the trades, `RankedIsPaid`,
`ResetIsAnswered`, `CallsEnd`, `LockedIsSettled`).

## 6. Plan

In order; each with its MC module, runs and, where it pays, proofs.

Done: `WithdrawalContract`, `WithdrawalPayout`, `WithdrawalRequest`,
`CreditContract`, `SalaryCycle`, `AccountAccess`, `KycRecords`, the wallet
family and `AiTrade`, model-checked, each with its proofs.

1. `NowPayments` against `CreditContract`.
2. `Outbox`: claim, deliver, retry, crash.

Theorems worth proving next:
the refinement of `CreditContract` by deposits and by trades.

## 7. Not modelled

* Presentation, logging, address parsing, support chat, banners, market data
  and the user interface beyond the forms named above: no state of
  their own, or nothing that interleaves. One-off migration and diagnostic
  scripts run alone.
* The notification outbox: written in the same transactions as what it reports,
  and delivered by a worker of its own that touches nothing else.
* `PUT /api/account/state`, which replaces wallet fields: no client calls it.
* The legacy AI worker (`lib/ai-bot-auto-trade.server.ts`), which PM2 does not
  start, and the auto-join route.
* Salary evaluation and schedule: the rows hold their result.
* Time of day beyond what a guard compares, batch limits, the twelve-hour
  catch-up window of sessions, totals kept for display.
* Reorganisations of the chain, and the database's isolation machinery: a
  Serializable transaction is one step.

`PROJECT.json` lists every component with its status.
