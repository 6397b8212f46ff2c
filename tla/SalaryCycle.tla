----------------------------- MODULE SalaryCycle -----------------------------
(***************************************************************************)
(* One salary cycle (lib/salary): its creation by the scheduler or by the  *)
(* run-current script, the payment jobs in BullMQ, the salary worker, the  *)
(* recovery of unpaid rows, the administrator's RETRY and RECONCILE, and   *)
(* the audit script that repairs a cycle.  Cycles share nothing but the    *)
(* wallets, so one is enough.                                              *)
(*                                                                         *)
(* A step ends where the code awaits the database or Redis; paySalary, one *)
(* Serializable transaction under row locks, is one step.                  *)
(***************************************************************************)
EXTENDS Integers, FiniteSets, Functions

CONSTANTS
    Users,
    Salary,          \* Salary[u]: of u's current rank; 0 without a rank
    OpeningBalance,  \* OpeningBalance[u]: spot balance of u at first
    Slots,           \* concurrent job slots of the salary worker
    Creators,        \* who may create the cycle: scheduler, script
    Commands,        \* which operator commands are given
    NoSlot, NoJob,
    MaxRetries,      \* SALARY_MAX_RETRIES
    FaultKinds,      \* the kinds of failure that may happen
    MaxFaults,       \* bound: how many failures may happen
    MaxCommands      \* bound: how many operator commands are given

ASSUME SalaryAssumption ==
    /\ IsFiniteSet(Users)
    /\ Salary \in [Users -> Nat] /\ OpeningBalance \in [Users -> Nat]
ASSUME ActorAssumption ==
    /\ Slots \cap {"admin", "script"} = {} /\ NoSlot \notin Slots
    /\ Creators \subseteq {"scheduler", "script"}
    /\ Commands \subseteq {"retry", "reconcile", "audit"}
ASSUME BoundAssumption ==
    /\ MaxRetries \in Nat \ {0} /\ MaxFaults \in Nat /\ MaxCommands \in Nat
    /\ FaultKinds \subseteq {"create", "enqueue", "pay", "finalize", "catch", "crash", "operator"}

VARIABLES
    cycle, totals,       \* status and totals of the SalaryCycle row
    payment, attempts,   \* columns of u's SalaryPayment row
    ledger,    \* users whose SalaryLedger row exists
    wallet,    \* wallet[u]: UserState.wallet, spot balance
    creator, stage, unqueued,  \* who creates the cycle, how far, jobs to add
    listed,    \* job ids the recovery loop is about to add
    bull, made, stalls, holder, \* BullMQ: state of a job, its attemptsMade,
               \* its stalled counter, the slot that runs it
    dead,      \* users with a job in the dead-letter queue
    pc, cur, snap, todo, \* locals of a slot or an operator
    commands, faults

row == <<cycle, totals, payment, attempts>>
money == <<ledger, wallet>>
creation == <<creator, stage, unqueued>>
queue == <<bull, made, stalls, holder>>
locals == <<cur, snap, todo>>
vars == <<row, money, creation, listed, queue, dead, pc, locals, commands, faults>>

-----------------------------------------------------------------------------
Operators == {"admin", "script"}
Actors == Slots \cup Operators
Ranked == {u \in Users : Salary[u] > 0}
MaxStalledCount == 1

\* A job id is SALARY_JOB:cycle:user, SALARY_RECOVER:payment:attempts, or
\* SALARY_RETRY and SALARY_RECONCILE:payment:time; the number tells the last two
\* kinds' ids apart.
Jobs ==
    ({"job"} \X Users \X {0})
        \cup ({"recover"} \X Users \X (0 .. MaxRetries - 1))
        \cup ({"admin"} \X Users \X (1 .. MaxCommands))
PayeeOf(j) == j[2]

PaymentStatus == {"none", "PENDING", "PAID", "SKIPPED", "FAILED"}
NoTotals == [paid |-> 0, skipped |-> 0, failed |-> 0, amount |-> 0]
NoSnap == [u \in Users |-> "none"]

Init ==
    /\ cycle = "none" /\ totals = NoTotals
    /\ payment = [u \in Users |-> "none"]
    /\ attempts = [u \in Users |-> 0]
    /\ ledger = {} /\ wallet = OpeningBalance
    /\ creator = "none" /\ stage = "absent" /\ unqueued = {}
    /\ listed = {}
    /\ bull = [j \in Jobs |-> "absent"]
    /\ made = [j \in Jobs |-> 0]
    /\ stalls = [j \in Jobs |-> 0]
    /\ holder = [j \in Jobs |-> NoSlot]
    /\ dead = {}
    /\ pc = [a \in Actors |-> "idle"]
    /\ cur = [s \in Slots |-> NoJob]
    /\ snap = [a \in Actors |-> NoSnap]
    /\ todo = [o \in Operators |-> {}]
    /\ commands = 0 /\ faults = 0

-----------------------------------------------------------------------------
(* Shared pieces *)

Fault(kind) == kind \in FaultKinds /\ faults < MaxFaults /\ faults' = faults + 1
Goto(a, l) == pc' = [pc EXCEPT ![a] = l]

\* Queue.add with a custom id: ignored while BullMQ remembers the id.
BullAdd(j) == bull' = [bull EXCEPT ![j] = IF @ = "absent" THEN "waiting" ELSE @]

\* Mutant: the ledger is not consulted.
paySalaryBlindly(u) ==
    LET credits == payment[u] \notin {"PAID", "SKIPPED"} /\ u \in Ranked IN
    /\ payment' = [payment EXCEPT ![u] =
            IF @ \in {"PAID", "SKIPPED"} THEN @ ELSE IF u \in Ranked THEN "PAID" ELSE "SKIPPED"]
    /\ ledger' = IF credits THEN ledger \cup {u} ELSE ledger
    /\ wallet' = IF credits THEN [wallet EXCEPT ![u] = @ + Salary[u]] ELSE wallet
    /\ attempts' = IF credits THEN [attempts EXCEPT ![u] = @ + 1] ELSE attempts

\* paySalary: PAID and SKIPPED rows are left alone, unranked ones skipped, and
\* a row whose ledger entry exists is only marked.
paySalary(u) ==
    LET credits == payment[u] \notin {"PAID", "SKIPPED"} /\ u \in Ranked \ ledger IN
    /\ payment' = [payment EXCEPT ![u] =
            IF @ \in {"PAID", "SKIPPED"} THEN @ ELSE IF u \in Ranked THEN "PAID" ELSE "SKIPPED"]
    /\ ledger' = IF credits THEN ledger \cup {u} ELSE ledger
    /\ wallet' = IF credits THEN [wallet EXCEPT ![u] = @ + Salary[u]] ELSE wallet
    /\ attempts' = IF credits THEN [attempts EXCEPT ![u] = @ + 1] ELSE attempts

-----------------------------------------------------------------------------
(* Creation: createSalaryCycleForDate *)

\* cycleKey is unique: a second creator finds the cycle and returns it.
Create(c) ==
    /\ cycle = "none"
    /\ cycle' = "PENDING"
    /\ creator' = c /\ stage' = "insert"
    /\ UNCHANGED <<totals, payment, attempts, money, unqueued, listed, queue>>
    /\ UNCHANGED <<dead, pc, locals, commands, faults>>

\* One createMany: the next batch of the evaluated users.
InsertBatch ==
    /\ stage = "insert"
    /\ \E batch \in SUBSET {u \in Users : payment[u] = "none"} :
        /\ batch # {}
        /\ payment' = [u \in Users |-> IF u \notin batch THEN payment[u]
                                       ELSE IF u \in Ranked THEN "PENDING" ELSE "SKIPPED"]
    /\ UNCHANGED <<cycle, totals, attempts, money, creation, listed, queue>>
    /\ UNCHANGED <<dead, pc, locals, commands, faults>>

\* All rows are there; the cycle is running, or done when nobody has a rank.
StartCycle ==
    /\ stage = "insert" /\ \A u \in Users : payment[u] # "none"
    /\ cycle' = IF Ranked = {} THEN "COMPLETED" ELSE "RUNNING"
    /\ totals' = [totals EXCEPT !.skipped = Cardinality(Users \ Ranked)]
    /\ stage' = IF Ranked = {} THEN "done" ELSE "enqueue"
    /\ unqueued' = Ranked
    /\ UNCHANGED <<payment, attempts, money, creator, listed, queue, dead, pc, locals>>
    /\ UNCHANGED <<commands, faults>>

EnqueuePayment(u) ==
    /\ stage = "enqueue" /\ u \in unqueued
    /\ BullAdd(<<"job", u, 0>>)
    /\ unqueued' = unqueued \ {u}
    /\ stage' = IF unqueued = {u} THEN "done" ELSE stage
    /\ UNCHANGED <<row, money, creator, listed, made, stalls, holder, dead, pc, locals>>
    /\ UNCHANGED <<commands, faults>>

\* The process dies, or the database or Redis refuses a statement.
CreatorDies ==
    /\ \/ stage = "insert" /\ Fault("create")
       \/ stage = "enqueue" /\ Fault("enqueue")
    /\ stage' = "dead" /\ unqueued' = {}
    /\ UNCHANGED <<row, money, creator, listed, queue, dead, pc, locals, commands>>

-----------------------------------------------------------------------------
(* recoverSalaryPayments, in the scheduler's tick after the creation *)

\* Mutant: only failed rows are recovered.
RecoverFailedOnly ==
    /\ creator = "scheduler" => stage \in {"done", "dead"}
    /\ listed = {}
    /\ listed' = {<<"recover", u, attempts[u]>> : u \in {v \in Users :
            payment[v] = "FAILED" /\ attempts[v] < MaxRetries}}
    /\ UNCHANGED <<row, money, creation, queue, dead, pc, locals, commands, faults>>

\* Mutant: exhausted rows are recovered as well.
RecoverExhausted ==
    /\ creator = "scheduler" => stage \in {"done", "dead"}
    /\ listed = {}
    /\ listed' = {<<"recover", u, attempts[u]>> : u \in {v \in Users :
            payment[v] \in {"PENDING", "FAILED"}}}
    /\ UNCHANGED <<row, money, creation, queue, dead, pc, locals, commands, faults>>

RecoverScan ==
    /\ creator = "scheduler" => stage \in {"done", "dead"}
    /\ listed = {}
    /\ listed' = {<<"recover", u, attempts[u]>> : u \in {v \in Users :
            payment[v] \in {"PENDING", "FAILED"} /\ attempts[v] < MaxRetries}}
    /\ UNCHANGED <<row, money, creation, queue, dead, pc, locals, commands, faults>>

RecoverAdd(j) ==
    /\ j \in listed
    /\ BullAdd(j)
    /\ listed' = listed \ {j}
    /\ UNCHANGED <<row, money, creation, made, stalls, holder, dead, pc, locals, commands, faults>>

\* The scheduler dies, or Redis refuses; the next tick lists the rows again.
RecoverLost ==
    /\ listed # {} /\ Fault("enqueue")
    /\ listed' = {}
    /\ UNCHANGED <<row, money, creation, queue, dead, pc, locals, commands>>

-----------------------------------------------------------------------------
(* The salary worker *)

Deliver(s, j) ==
    /\ pc[s] = "idle" /\ bull[j] = "waiting"
    /\ bull' = [bull EXCEPT ![j] = "active"]
    /\ holder' = [holder EXCEPT ![j] = s]
    /\ cur' = [cur EXCEPT ![s] = j]
    /\ Goto(s, "pay")
    /\ UNCHANGED <<row, money, creation, listed, made, stalls, dead, snap, todo, commands, faults>>

\* The delivery of slot s is over; BullMQ keeps the job with this state.
EndDelivery(s, state) ==
    LET j == cur[s] IN
    /\ bull' = [bull EXCEPT ![j] = state]
    /\ holder' = [holder EXCEPT ![j] = NoSlot]
    /\ cur' = [cur EXCEPT ![s] = NoJob]
    /\ snap' = [snap EXCEPT ![s] = NoSnap]
    /\ Goto(s, "idle")

\* job.attemptsMade + 1 >= SALARY_MAX_RETRIES
IsLast(s) == made[cur[s]] + 1 >= MaxRetries

\* The handler threw: BullMQ retries the job until its attempts are used up.
Rejected(s) ==
    /\ EndDelivery(s, IF IsLast(s) THEN "failed" ELSE "waiting")
    /\ made' = [made EXCEPT ![cur[s]] = @ + 1]
    /\ UNCHANGED <<stalls, todo>>

Pay(s) ==
    /\ pc[s] = "pay"
    /\ paySalary(PayeeOf(cur[s]))
    /\ Goto(s, "count")
    /\ UNCHANGED <<cycle, totals, creation, listed, queue, dead, locals, commands, faults>>

\* A serialization failure, a timeout, or a commit whose answer is lost.
PayFails(s) ==
    /\ pc[s] = "pay" /\ Fault("pay")
    /\ paySalary(PayeeOf(cur[s])) \/ UNCHANGED <<payment, attempts, money>>
    /\ Goto(s, "mark")
    /\ UNCHANGED <<cycle, totals, creation, listed, queue, dead, locals, commands>>

\* The catch block, before its last attempt: PENDING unless PAID, and rethrow.
MarkForRetry(s) ==
    LET u == PayeeOf(cur[s]) IN
    /\ pc[s] = "mark" /\ ~IsLast(s)
    /\ payment' = [payment EXCEPT ![u] = IF @ = "PAID" THEN @ ELSE "PENDING"]
    /\ attempts' = [attempts EXCEPT ![u] = IF payment[u] = "PAID" THEN @ ELSE @ + 1]
    /\ Rejected(s)
    /\ UNCHANGED <<cycle, totals, money, creation, listed, dead, commands, faults>>

\* The catch block after the last attempt: FAILED unless PAID.
MarkFailed(s) ==
    LET u == PayeeOf(cur[s]) IN
    /\ pc[s] = "mark" /\ IsLast(s)
    /\ payment' = [payment EXCEPT ![u] = IF @ = "PAID" THEN @ ELSE "FAILED"]
    /\ attempts' = [attempts EXCEPT ![u] = IF payment[u] = "PAID" THEN @ ELSE @ + 1]
    /\ Goto(s, "deadletter")
    /\ UNCHANGED <<cycle, totals, money, creation, listed, queue, dead, locals, commands, faults>>

\* BullMQ refuses an id with colons unless they separate three parts.
Accepts(parts) == parts \in {1, 3}
DeadLetterParts == 2    \* SALARY_DLQ:payment

\* Then the dead letter; a refused one is thrown out of the catch block.
DeadLetter(s) ==
    /\ pc[s] = "deadletter"
    /\ IF Accepts(DeadLetterParts)
       THEN /\ dead' = dead \cup {PayeeOf(cur[s])} /\ Goto(s, "recount")
            /\ UNCHANGED <<queue, locals>>
       ELSE Rejected(s) /\ UNCHANGED dead
    /\ UNCHANGED <<row, money, creation, listed, commands, faults>>

\* Something else in the catch block throws.
CatchThrows(s) ==
    /\ pc[s] \in {"mark", "deadletter", "recount", "rewrite"} /\ Fault("catch")
    /\ Rejected(s)
    /\ UNCHANGED <<row, money, creation, listed, dead, commands>>

WorkerCrash ==
    /\ Fault("crash")
    /\ pc' = [a \in Actors |-> IF a \in Slots THEN "idle" ELSE pc[a]]
    /\ cur' = [s \in Slots |-> NoJob]
    /\ snap' = [a \in Actors |-> IF a \in Slots THEN NoSnap ELSE snap[a]]
    /\ holder' = [j \in Jobs |-> NoSlot]
    /\ UNCHANGED <<row, money, creation, listed, bull, made, stalls, dead, todo, commands>>

\* BullMQ finds an active job that nobody runs.
Stalled(j) ==
    /\ bull[j] = "active" /\ holder[j] = NoSlot
    /\ bull' = [bull EXCEPT ![j] = IF stalls[j] < MaxStalledCount THEN "waiting" ELSE "failed"]
    /\ stalls' = [stalls EXCEPT ![j] = @ + 1]
    /\ UNCHANGED <<row, money, creation, listed, made, holder, dead, pc, locals, commands, faults>>

\* removeOnComplete.age: a completed job is forgotten after a day, a failed one
\* never (removeOnFail: false).
Forget(j) ==
    /\ bull[j] = "completed"
    /\ bull' = [bull EXCEPT ![j] = "absent"]
    /\ made' = [made EXCEPT ![j] = 0]
    /\ stalls' = [stalls EXCEPT ![j] = 0]
    /\ UNCHANGED <<row, money, creation, listed, holder, dead, pc, locals, commands, faults>>

-----------------------------------------------------------------------------
(* finalizeSalaryCycle, called by the worker (in its try and in its catch     *)
(* block), the admin route and the audit script                               *)

WithStatus(s, st) == {u \in Users : s[u] = st}

\* Mutant: rows that are still pending count as paid.
PaidOrPending(s) == {u \in Users : s[u] \in {"PAID", "PENDING"}}

PaidIn(s) == WithStatus(s, "PAID")

\* The groupBy
Count(a) ==
    /\ pc[a] \in {"count", "recount"}
    /\ snap' = [snap EXCEPT ![a] = payment]
    /\ Goto(a, IF pc[a] = "count" THEN "write" ELSE "rewrite")
    /\ UNCHANGED <<row, money, creation, listed, queue, dead, cur, todo, commands, faults>>

\* Mutant: failed rows are forgotten.
StatusIgnoringFailed(s) ==
    IF WithStatus(s, "PENDING") # {} THEN "RUNNING" ELSE "COMPLETED"

StatusOf(s) ==
    IF WithStatus(s, "PENDING") # {} THEN "RUNNING"
    ELSE IF WithStatus(s, "FAILED") # {} THEN "PARTIAL_FAILURE" ELSE "COMPLETED"

\* The update of the cycle row, from what was counted
WriteTotals(s) ==
    /\ cycle' = StatusOf(s)
    /\ totals' = [paid |-> Cardinality(PaidIn(s)),
                  skipped |-> Cardinality(WithStatus(s, "SKIPPED")),
                  failed |-> Cardinality(WithStatus(s, "FAILED")),
                  amount |-> SumFunctionOnSet(Salary, PaidIn(s))]

\* In a slot the job is completed, also when its last attempt failed.
SlotWrite(s) ==
    /\ pc[s] \in {"write", "rewrite"}
    /\ WriteTotals(snap[s])
    /\ EndDelivery(s, "completed")
    /\ UNCHANGED <<payment, attempts, money, creation, listed, made, stalls, dead, todo>>
    /\ UNCHANGED <<commands, faults>>

\* An error inside the try block is caught like a failed payment.
FinalizeFails(s) ==
    /\ pc[s] \in {"count", "write"} /\ Fault("finalize")
    /\ Goto(s, "mark")
    /\ UNCHANGED <<row, money, creation, listed, queue, dead, locals, commands>>

-----------------------------------------------------------------------------
(* Operators: the admin route and scripts/salary-audit.ts *)

Return(o) ==
    /\ Goto(o, "idle")
    /\ snap' = [snap EXCEPT ![o] = NoSnap]
    /\ todo' = [todo EXCEPT ![o] = {}]

Command(o, kind) ==
    /\ pc[o] = "idle" /\ kind \in Commands /\ commands < MaxCommands
    /\ commands' = commands + 1

\* RETRY reads the payment ...
RetryRead(u) ==
    /\ Command("admin", "retry")
    /\ payment[u] \notin {"none", "PAID"}
    /\ todo' = [todo EXCEPT !["admin"] = {u}]
    /\ Goto("admin", "reset")
    /\ UNCHANGED <<row, money, creation, listed, queue, dead, cur, snap, faults>>

\* ... and sets it PENDING, whatever it is by now.
RetryReset ==
    /\ pc["admin"] = "reset"
    /\ payment' = [u \in Users |-> IF u \in todo["admin"] THEN "PENDING" ELSE payment[u]]
    /\ Goto("admin", "add")
    /\ UNCHANGED <<cycle, totals, attempts, money, creation, listed, queue, dead, locals, commands, faults>>

RetryAdd(u) ==
    /\ pc["admin"] = "add" /\ u \in todo["admin"]
    /\ BullAdd(<<"admin", u, commands>>)
    /\ Return("admin")
    /\ UNCHANGED <<row, money, creation, listed, made, stalls, holder, dead, cur, commands, faults>>

\* RECONCILE lists the ranked rows that are not settled, adds a job for each and
\* finalises the cycle.
ReconcileRead ==
    /\ Command("admin", "reconcile")
    /\ cycle # "none"
    /\ todo' = [todo EXCEPT !["admin"] = {u \in Ranked : payment[u] \in {"PENDING", "FAILED"}}]
    /\ Goto("admin", "list")
    /\ UNCHANGED <<row, money, creation, listed, queue, dead, cur, snap, faults>>

ReconcileAdd(u) ==
    /\ pc["admin"] = "list" /\ u \in todo["admin"]
    /\ BullAdd(<<"admin", u, commands>>)
    /\ todo' = [todo EXCEPT !["admin"] = @ \ {u}]
    /\ UNCHANGED <<row, money, creation, listed, made, stalls, holder, dead, pc, cur, snap, commands, faults>>

\* The audit script, with --repair, pays every ranked row that is not PAID.
AuditRead ==
    /\ Command("script", "audit")
    /\ cycle # "none"
    /\ \E repair \in BOOLEAN :
        todo' = [todo EXCEPT !["script"] =
            IF repair THEN {u \in Ranked : payment[u] \notin {"none", "PAID"}} ELSE {}]
    /\ Goto("script", "list")
    /\ UNCHANGED <<row, money, creation, listed, queue, dead, cur, snap, faults>>

\* A failure is only noted.
AuditPay(u) ==
    /\ pc["script"] = "list" /\ u \in todo["script"]
    /\ \/ paySalary(u) /\ UNCHANGED faults
       \/ Fault("pay") /\ UNCHANGED <<payment, attempts, money>>
    /\ todo' = [todo EXCEPT !["script"] = @ \ {u}]
    /\ UNCHANGED <<cycle, totals, creation, listed, queue, dead, pc, cur, snap, commands>>

OperatorCounts(o) ==
    /\ pc[o] = "list" /\ todo[o] = {}
    /\ Goto(o, "count")
    /\ UNCHANGED <<row, money, creation, listed, queue, dead, locals, commands, faults>>

OperatorWrites(o) ==
    /\ pc[o] = "write"
    /\ WriteTotals(snap[o])
    /\ Return(o)
    /\ UNCHANGED <<payment, attempts, money, creation, listed, queue, dead, cur, commands, faults>>

OperatorDies(o) ==
    /\ pc[o] # "idle" /\ Fault("operator")
    /\ Return(o)
    /\ UNCHANGED <<row, money, creation, listed, queue, dead, cur, commands>>

-----------------------------------------------------------------------------
SlotStep(s) ==
    \/ Pay(s) \/ Count(s) \/ SlotWrite(s)
    \/ MarkForRetry(s) \/ MarkFailed(s) \/ DeadLetter(s)

CreatorStep ==
    InsertBatch \/ StartCycle \/ (\E u \in Users : EnqueuePayment(u))

OperatorStep ==
    \/ \E u \in Users : RetryRead(u) \/ RetryAdd(u) \/ ReconcileAdd(u) \/ AuditPay(u)
    \/ RetryReset \/ ReconcileRead \/ AuditRead
    \/ \E o \in Operators : OperatorCounts(o) \/ Count(o) \/ OperatorWrites(o)

Failure ==
    \/ CreatorDies \/ RecoverLost \/ WorkerCrash
    \/ \E s \in Slots : PayFails(s) \/ FinalizeFails(s) \/ CatchThrows(s)
    \/ \E o \in Operators : OperatorDies(o)

Next ==
    \/ \E c \in Creators : Create(c)
    \/ CreatorStep
    \/ RecoverScan
    \/ \E j \in Jobs : RecoverAdd(j) \/ Stalled(j) \/ Forget(j)
    \/ \E s \in Slots : SlotStep(s) \/ (\E j \in Jobs : Deliver(s, j))
    \/ OperatorStep
    \/ Failure

Spec == Init /\ [][Next]_vars

(***************************************************************************)
(* Fairness: PM2 restarts the scheduler and the worker; a dead delivery is *)
(* noticed; a job in the queue is delivered sooner or later.               *)
(***************************************************************************)
Fairness ==
    /\ WF_vars(\E c \in Creators : Create(c)) /\ WF_vars(CreatorStep)
    /\ WF_vars(RecoverScan)
    /\ \A j \in Jobs : WF_vars(RecoverAdd(j)) /\ WF_vars(Stalled(j))
    /\ \A j \in Jobs : WF_vars(\E s \in Slots : Deliver(s, j))
    /\ \A s \in Slots : WF_vars(SlotStep(s))

FairSpec == Spec /\ Fairness
-----------------------------------------------------------------------------
(* Properties *)

\* Every variable has its type, and a local has its value where it is used.
TypeOK ==
    /\ cycle \in {"none", "PENDING", "RUNNING", "COMPLETED", "PARTIAL_FAILURE"}
    /\ DOMAIN totals = {"paid", "skipped", "failed", "amount"}
    /\ payment \in [Users -> PaymentStatus]
    /\ attempts \in [Users -> Nat]
    /\ ledger \subseteq Ranked
    /\ wallet \in [Users -> Nat]
    /\ creator \in {"none", "scheduler", "script"}
    /\ stage \in {"absent", "insert", "enqueue", "done", "dead"}
    /\ unqueued \subseteq Users
    /\ listed \subseteq Jobs
    /\ bull \in [Jobs -> {"absent", "waiting", "active", "completed", "failed"}]
    /\ made \in [Jobs -> Nat]
    /\ stalls \in [Jobs -> Nat]
    /\ holder \in [Jobs -> Slots \cup {NoSlot}]
    /\ dead \subseteq Users
    /\ pc \in [Actors -> {"idle", "pay", "mark", "deadletter", "count", "write",
                          "recount", "rewrite", "reset", "add", "list"}]
    /\ cur \in [Slots -> Jobs \cup {NoJob}]
    /\ snap \in [Actors -> [Users -> PaymentStatus]]
    /\ todo \in [Operators -> SUBSET Users]
    /\ commands \in Nat
    /\ faults \in Nat
    /\ \A s \in Slots : pc[s] # "idle" => cur[s] \in Jobs

Contract == INSTANCE CreditContract WITH
    Keys <- Users, Owner <- [u \in Users |-> u], Amount <- Salary,
    credited <- ledger, balance <- wallet

\* A user's salary of the cycle is credited at most once and exactly, although
\* several jobs, the repair script and the administrator's retry may pay the same
\* row, and the answer of a commit may be lost.
ImplementsContract == Contract!Spec

\* A cycle shown as COMPLETED has credited every user who had a rank when it was
\* created, whatever the finalisations of concurrent jobs counted.
CompletedIsCredited == cycle = "COMPLETED" => Ranked \subseteq ledger

\* The total of a cycle never claims more than the ledger holds, even when a
\* finalisation writes what it counted long before.
TotalsAreCredited == totals.amount <= SumFunctionOnSet(Salary, ledger)

Busy(u) == \E s \in Slots : pc[s] # "idle" /\ PayeeOf(cur[s]) = u

\* A payment left FAILED is in the dead-letter queue: "dead-letters exhausted jobs".
FailedIsDeadLettered ==
    \A u \in Users : payment[u] = "FAILED" /\ ~Busy(u) => u \in dead

\* Every ranked user is eventually paid, in spite of a creator that dies while it
\* enqueues, a worker that dies, or a payment or a finalisation that fails.
RankedIsPaid == \A u \in Ranked : <>(u \in ledger)

\* "Worker restart recovers pending records": a row does not stay PENDING.
PendingIsRecovered ==
    \A u \in Ranked : payment[u] = "PENDING" ~> payment[u] # "PENDING"
=============================================================================
