------------------------- MODULE SalaryCycleProofs -------------------------
(***************************************************************************)
(* Theorems about SalaryCycle for any number of users and job slots, any   *)
(* salaries and any bounds.                                                *)
(***************************************************************************)
EXTENDS SalaryCycle, SetSums

\* A job belongs to one of the users.
LEMMA PayeeType ==
    ASSUME NEW j \in Jobs PROVE PayeeOf(j) \in Users
BY DEF Jobs, PayeeOf

\* The transaction of paySalary keeps the types of what it writes.
LEMMA PayType ==
    ASSUME TypeOK, NEW u \in Users, paySalary(u)
    PROVE  /\ payment' \in [Users -> PaymentStatus] /\ attempts' \in [Users -> Nat]
           /\ ledger' \subseteq Ranked /\ wallet' \in [Users -> Nat]
<1>1. /\ payment \in [Users -> PaymentStatus] /\ attempts \in [Users -> Nat]
      /\ ledger \subseteq Ranked /\ wallet \in [Users -> Nat]
  BY DEF TypeOK
<1>2. Salary[u] \in Nat
  BY SalaryAssumption
<1>3. payment' \in [Users -> PaymentStatus]
  BY <1>1 DEF paySalary, PaymentStatus
<1>4. wallet' \in [Users -> Nat]
  BY <1>1, <1>2 DEF paySalary
<1>5. attempts' \in [Users -> Nat]
  BY <1>1 DEF paySalary
<1>6. ledger' \subseteq Ranked
  BY <1>1 DEF paySalary
<1> QED BY <1>3, <1>4, <1>5, <1>6

\* The initial state has its types.
LEMMA InitType == Init => TypeOK
<1> SUFFICES ASSUME Init PROVE TypeOK OBVIOUS
<1>1. wallet \in [Users -> Nat]
  BY SalaryAssumption DEF Init
<1>2. DOMAIN totals = {"paid", "skipped", "failed", "amount"}
  BY DEF Init, NoTotals
<1>3. snap \in [Actors -> [Users -> PaymentStatus]]
  BY DEF Init, NoSnap, PaymentStatus
<1>4. /\ payment \in [Users -> PaymentStatus] /\ attempts \in [Users -> Nat]
      /\ bull \in [Jobs -> {"absent", "waiting", "active", "completed", "failed"}]
      /\ made \in [Jobs -> Nat] /\ stalls \in [Jobs -> Nat]
      /\ holder \in [Jobs -> Slots \cup {NoSlot}]
  BY DEF Init, PaymentStatus
<1>5. /\ cur \in [Slots -> Jobs \cup {NoJob}] /\ todo \in [Operators -> SUBSET Users]
      /\ \A s \in Slots : pc[s] = "idle"
  BY DEF Init, Actors
<1> QED BY <1>1, <1>2, <1>3, <1>4, <1>5 DEF Init, TypeOK

\* What an action that pays, counts, or ends a delivery leaves alone.
LEMMA NextType == TypeOK /\ [Next]_vars => TypeOK'
<1> SUFFICES ASSUME TypeOK, [Next]_vars PROVE TypeOK' OBVIOUS
<1> USE ActorAssumption DEF row, money, creation, queue, locals, Goto, Fault, Actors, Operators
<1>1. ASSUME NEW c \in Creators, Create(c) PROVE TypeOK'
  BY <1>1 DEF TypeOK, Create
<1>2. CASE InsertBatch
  BY <1>2 DEF TypeOK, InsertBatch, PaymentStatus
<1>3. CASE StartCycle
  BY <1>3 DEF TypeOK, StartCycle, Ranked
<1>4. ASSUME NEW u \in Users, EnqueuePayment(u) PROVE TypeOK'
  BY <1>4 DEF TypeOK, EnqueuePayment, BullAdd
<1>5. CASE CreatorDies
  BY <1>5 DEF TypeOK, CreatorDies
<1>6. CASE RecoverScan
  <2>1. listed' \subseteq Jobs
    BY <1>6, BoundAssumption DEF RecoverScan, TypeOK, Jobs
  <2> QED BY <1>6, <2>1 DEF TypeOK, RecoverScan
<1>7. ASSUME NEW j \in Jobs, RecoverAdd(j) PROVE TypeOK'
  BY <1>7 DEF TypeOK, RecoverAdd, BullAdd
<1>8. CASE RecoverLost
  BY <1>8 DEF TypeOK, RecoverLost
<1>9. ASSUME NEW j \in Jobs, Stalled(j) PROVE TypeOK'
  BY <1>9 DEF TypeOK, Stalled
<1>10. ASSUME NEW j \in Jobs, Forget(j) PROVE TypeOK'
  BY <1>10 DEF TypeOK, Forget
<1>11. ASSUME NEW s \in Slots, NEW j \in Jobs, Deliver(s, j) PROVE TypeOK'
  BY <1>11 DEF TypeOK, Deliver
<1>12. ASSUME NEW s \in Slots, Pay(s) PROVE TypeOK'
  <2>1. cur[s] \in Jobs /\ PayeeOf(cur[s]) \in Users
    BY <1>12, PayeeType DEF TypeOK, Pay
  <2>2. PICK u \in Users : paySalary(u)
    BY <1>12, <2>1 DEF Pay
  <2> QED BY <1>12, <2>2, PayType DEF TypeOK, Pay
<1>13. ASSUME NEW s \in Slots, PayFails(s) PROVE TypeOK'
  <2>1. cur[s] \in Jobs /\ PayeeOf(cur[s]) \in Users
    BY <1>13, PayeeType DEF TypeOK, PayFails
  <2>2. CASE paySalary(PayeeOf(cur[s]))
    <3>1. PICK u \in Users : paySalary(u)
      BY <2>2, <2>1
    <3> QED BY <1>13, <3>1, PayType DEF TypeOK, PayFails
  <2>3. CASE UNCHANGED <<payment, attempts, money>>
    BY <1>13, <2>3 DEF TypeOK, PayFails
  <2> QED BY <1>13, <2>2, <2>3 DEF PayFails
<1>14. ASSUME NEW s \in Slots, MarkForRetry(s) PROVE TypeOK'
  <2>1. payment' \in [Users -> PaymentStatus]
    BY <1>14 DEF TypeOK, MarkForRetry, PaymentStatus
  <2>2. attempts' \in [Users -> Nat]
    <3> DEFINE u == PayeeOf(cur[s])
               next == IF payment[u] = "PAID" THEN attempts[u] ELSE attempts[u] + 1
    <3>1. cur[s] \in Jobs
      BY <1>14 DEF TypeOK, MarkForRetry
    <3>2. u \in Users
      BY <3>1, PayeeType
    <3>3. next \in Nat
      BY <3>2 DEF TypeOK
    <3>4. attempts' = [attempts EXCEPT ![u] = next]
      BY <1>14 DEF MarkForRetry
    <3> HIDE DEF u, next
    <3> QED BY <3>3, <3>4 DEF TypeOK
  <2>3. Rejected(s)
    BY <1>14 DEF MarkForRetry
  <2>4. NoSnap \in [Users -> PaymentStatus]
    BY DEF NoSnap, PaymentStatus
  <2>5. /\ bull' \in [Jobs -> {"absent", "waiting", "active", "completed", "failed"}]
        /\ made' \in [Jobs -> Nat]
        /\ holder' \in [Jobs -> Slots \cup {NoSlot}]
        /\ snap' \in [Actors -> [Users -> PaymentStatus]]
    <3>1. bull' = [bull EXCEPT ![cur[s]] = IF IsLast(s) THEN "failed" ELSE "waiting"]
      BY <2>3 DEF Rejected, EndDelivery
    <3>2. holder' = [holder EXCEPT ![cur[s]] = NoSlot] /\ snap' = [snap EXCEPT ![s] = NoSnap]
      BY <2>3 DEF Rejected, EndDelivery
    <3>3. made' = [made EXCEPT ![cur[s]] = @ + 1]
      BY <2>3 DEF Rejected
    <3>4. cur[s] \in Jobs
      BY <1>14 DEF TypeOK, MarkForRetry
    <3>5. made' \in [Jobs -> Nat]
      BY <3>3, <3>4 DEF TypeOK
    <3> QED BY <3>1, <3>2, <3>5, <2>4 DEF TypeOK
  <2>6. /\ cur' = [cur EXCEPT ![s] = NoJob] /\ pc' = [pc EXCEPT ![s] = "idle"]
        /\ UNCHANGED <<stalls, todo>>
    BY <2>3 DEF Rejected, EndDelivery
  <2>7. /\ UNCHANGED <<cycle, totals, ledger, wallet, creator, stage, unqueued, listed>>
        /\ UNCHANGED <<dead, commands, faults>>
    BY <1>14 DEF MarkForRetry
  <2> QED BY <2>1, <2>2, <2>5, <2>6, <2>7 DEF TypeOK
<1>15. ASSUME NEW s \in Slots, MarkFailed(s) PROVE TypeOK'
  <2>1. payment' \in [Users -> PaymentStatus]
    BY <1>15 DEF TypeOK, MarkFailed, PaymentStatus
  <2>2. attempts' \in [Users -> Nat]
    <3> DEFINE u == PayeeOf(cur[s])
               next == IF payment[u] = "PAID" THEN attempts[u] ELSE attempts[u] + 1
    <3>1. cur[s] \in Jobs
      BY <1>15 DEF TypeOK, MarkFailed
    <3>2. u \in Users
      BY <3>1, PayeeType
    <3>3. next \in Nat
      BY <3>2 DEF TypeOK
    <3>4. attempts' = [attempts EXCEPT ![u] = next]
      BY <1>15 DEF MarkFailed
    <3> HIDE DEF u, next
    <3> QED BY <3>3, <3>4 DEF TypeOK
  <2>3. /\ pc[s] = "mark" /\ pc' = [pc EXCEPT ![s] = "deadletter"]
        /\ UNCHANGED <<cycle, totals, ledger, wallet, creator, stage, unqueued, listed>>
        /\ UNCHANGED <<bull, made, stalls, holder, cur, snap, todo, dead, commands, faults>>
    BY <1>15 DEF MarkFailed
  <2> QED BY <2>1, <2>2, <2>3 DEF TypeOK
<1>16. ASSUME NEW s \in Slots, DeadLetter(s) PROVE TypeOK'
  <2>1. cur[s] \in Jobs /\ PayeeOf(cur[s]) \in Users
    BY <1>16, PayeeType DEF TypeOK, DeadLetter
  <2>2. CASE Accepts(DeadLetterParts)
    BY <1>16, <2>1, <2>2 DEF TypeOK, DeadLetter
  <2>3. CASE ~Accepts(DeadLetterParts)
    <3>1. /\ Rejected(s) /\ pc[s] = "deadletter"
          /\ UNCHANGED <<dead, row, money, creation, listed, commands, faults>>
      BY <1>16, <2>3 DEF DeadLetter
    <3> QED BY <3>1 DEF TypeOK, Rejected, EndDelivery, PaymentStatus, NoSnap, IsLast
  <2> QED BY <2>2, <2>3
<1>17. ASSUME NEW s \in Slots, CatchThrows(s) PROVE TypeOK'
  BY <1>17 DEF TypeOK, CatchThrows, Rejected, EndDelivery, PaymentStatus, NoSnap, IsLast
<1>18. CASE WorkerCrash
  <2>1. NoSnap \in [Users -> PaymentStatus]
    BY DEF NoSnap, PaymentStatus
  <2>2. snap' \in [Actors -> [Users -> PaymentStatus]]
    BY <1>18, <2>1 DEF TypeOK, WorkerCrash
  <2> QED BY <1>18, <2>2 DEF TypeOK, WorkerCrash
<1>19. ASSUME NEW a \in Actors, Count(a) PROVE TypeOK'
  BY <1>19 DEF TypeOK, Count
<1>20. ASSUME NEW s \in Slots, SlotWrite(s) PROVE TypeOK'
  BY <1>20 DEF TypeOK, SlotWrite, WriteTotals, StatusOf, EndDelivery, NoSnap, PaymentStatus
<1>21. ASSUME NEW s \in Slots, FinalizeFails(s) PROVE TypeOK'
  BY <1>21 DEF TypeOK, FinalizeFails
<1>22. ASSUME NEW u \in Users, RetryRead(u) PROVE TypeOK'
  BY <1>22 DEF TypeOK, RetryRead, Command
<1>23. CASE RetryReset
  BY <1>23 DEF TypeOK, RetryReset, PaymentStatus
<1>24. ASSUME NEW u \in Users, RetryAdd(u) PROVE TypeOK'
  BY <1>24 DEF TypeOK, RetryAdd, BullAdd, Return, NoSnap, PaymentStatus
<1>25. CASE ReconcileRead
  BY <1>25 DEF TypeOK, ReconcileRead, Command, Ranked
<1>26. ASSUME NEW u \in Users, ReconcileAdd(u) PROVE TypeOK'
  BY <1>26 DEF TypeOK, ReconcileAdd, BullAdd
<1>27. CASE AuditRead
  BY <1>27 DEF TypeOK, AuditRead, Command, Ranked
<1>28. ASSUME NEW u \in Users, AuditPay(u) PROVE TypeOK'
  <2>1. CASE paySalary(u)
    BY <1>28, <2>1, PayType DEF TypeOK, AuditPay
  <2>2. CASE UNCHANGED <<payment, attempts, money>>
    BY <1>28, <2>2 DEF TypeOK, AuditPay
  <2> QED BY <1>28, <2>1, <2>2 DEF AuditPay
<1>29. ASSUME NEW o \in Operators, OperatorCounts(o) PROVE TypeOK'
  BY <1>29 DEF TypeOK, OperatorCounts
<1>30. ASSUME NEW o \in Operators, OperatorWrites(o) PROVE TypeOK'
  BY <1>30 DEF TypeOK, OperatorWrites, WriteTotals, StatusOf, Return, NoSnap, PaymentStatus
<1>31. ASSUME NEW o \in Operators, OperatorDies(o) PROVE TypeOK'
  BY <1>31 DEF TypeOK, OperatorDies, Return, NoSnap, PaymentStatus
<1>32. CASE UNCHANGED vars
  BY <1>32 DEF TypeOK, vars
<1> QED
  BY <1>1, <1>2, <1>3, <1>4, <1>5, <1>6, <1>7, <1>8, <1>9, <1>10, <1>11, <1>12, <1>13,
     <1>14, <1>15, <1>16, <1>17, <1>18, <1>19, <1>20, <1>21, <1>22, <1>23, <1>24, <1>25,
     <1>26, <1>27, <1>28, <1>29, <1>30, <1>31, <1>32
     DEF Next, CreatorStep, SlotStep, OperatorStep, Failure

\* Every variable keeps its type; in particular no salary goes to a user without
\* a rank.
THEOREM TypeCorrect == Spec => []TypeOK
BY InitType, NextType, PTL DEF Spec

-----------------------------------------------------------------------------
(* The contract: a salary is credited once and exactly *)

\* paySalary credits as the contract says, or not at all.
LEMMA PayIsCredit ==
    ASSUME TypeOK, NEW u \in Users, paySalary(u)
    PROVE  Contract!Credit(u) \/ UNCHANGED money
BY DEF paySalary, Contract!Credit, money, TypeOK

\* Every step is a credit of the contract or none.
LEMMA NextKeepsContract ==
    ASSUME TypeOK, [Next]_vars
    PROVE  [Contract!Next]_(Contract!creditVars)
<1> DEFINE Step == Contract!Next \/ UNCHANGED money
<1>1. ASSUME NEW s \in Slots, Pay(s) \/ PayFails(s) PROVE Step
  <2>1. cur[s] \in Jobs /\ PayeeOf(cur[s]) \in Users
    BY <1>1, PayeeType DEF TypeOK, Pay, PayFails
  <2>2. paySalary(PayeeOf(cur[s])) \/ UNCHANGED money
    BY <1>1 DEF Pay, PayFails, money
  <2> QED BY <2>1, <2>2, PayIsCredit DEF Contract!Next
<1>2. ASSUME NEW u \in Users, AuditPay(u) PROVE Step
  <2>1. paySalary(u) \/ UNCHANGED money
    BY <1>2 DEF AuditPay, money
  <2> QED BY <2>1, PayIsCredit DEF Contract!Next
<1>3. ASSUME NEW s \in Slots,
        \/ MarkForRetry(s) \/ MarkFailed(s) \/ DeadLetter(s) \/ CatchThrows(s)
        \/ SlotWrite(s) \/ FinalizeFails(s) \/ (\E j \in Jobs : Deliver(s, j))
      PROVE UNCHANGED money
  BY <1>3 DEF MarkForRetry, MarkFailed, DeadLetter, CatchThrows, SlotWrite, FinalizeFails, Deliver,
     Rejected
<1>4. ASSUME NEW a \in Actors, Count(a) PROVE UNCHANGED money
  BY <1>4 DEF Count
<1>5. ASSUME \/ \E c \in Creators : Create(c)
             \/ CreatorStep \/ CreatorDies \/ RecoverScan \/ RecoverLost \/ WorkerCrash
             \/ \E j \in Jobs : RecoverAdd(j) \/ Stalled(j) \/ Forget(j)
      PROVE UNCHANGED money
  BY <1>5 DEF Create, CreatorStep, InsertBatch, StartCycle, EnqueuePayment, CreatorDies,
     RecoverScan, RecoverLost, WorkerCrash, RecoverAdd, Stalled, Forget
<1>6. ASSUME \/ \E u \in Users : RetryRead(u) \/ RetryAdd(u) \/ ReconcileAdd(u)
             \/ RetryReset \/ ReconcileRead \/ AuditRead
             \/ \E o \in Operators : OperatorCounts(o) \/ OperatorWrites(o) \/ OperatorDies(o)
      PROVE UNCHANGED money
  BY <1>6 DEF RetryRead, RetryAdd, ReconcileAdd, RetryReset, ReconcileRead, AuditRead,
     OperatorCounts, OperatorWrites, OperatorDies
<1>7. CASE UNCHANGED vars
  BY <1>7 DEF vars, Contract!creditVars, money
<1>8. CASE Next
  <2>1. Step
    BY <1>8, <1>1, <1>2, <1>3, <1>4, <1>5, <1>6
       DEF Next, SlotStep, OperatorStep, Failure, Actors
  <2> QED BY <2>1 DEF Contract!creditVars, money
<1> QED BY <1>7, <1>8

\* Every step of the salary machinery is a step the credit contract allows.
THEOREM HonoursContract == Spec => ImplementsContract
<1>1. Init => Contract!Init
  BY SalaryAssumption DEF Init, Contract!Init
<1>2. TypeOK /\ [Next]_vars => [Contract!Next]_(Contract!creditVars)
  BY NextKeepsContract
<1> QED BY <1>1, <1>2, TypeCorrect, PTL DEF Spec, ImplementsContract, Contract!Spec

-----------------------------------------------------------------------------
(* A completed cycle has credited everyone.  It needs a creation that nobody *)
(* interrupts or races: the scheduler is the only creator, the process lives *)
(* until the rows are inserted, and nobody gives a command.                  *)

Undisturbed ==
    Creators \subseteq {"scheduler"} /\ "create" \notin FaultKinds /\ Commands = {}

\* A settled row says the truth: paid ones are in the ledger, skipped ones have no
\* rank.
PaidInv ==
    \A u \in Users : /\ payment[u] = "PAID" => u \in ledger
                     /\ payment[u] = "SKIPPED" => u \notin Ranked

\* While the cycle and its rows are created, nothing else happens to it; afterwards
\* every user has a row.
CreationInv ==
    /\ stage = "absent" => cycle = "none" /\ \A u \in Users : payment[u] = "none"
    /\ stage = "insert" => cycle = "PENDING" /\ creator = "scheduler"
    /\ stage \in {"absent", "insert"} =>
            /\ listed = {}
            /\ \A j \in Jobs : bull[j] = "absent"
            /\ \A s \in Slots : pc[s] = "idle"
    /\ stage \in {"enqueue", "done", "dead"} =>
            cycle # "none" /\ \A u \in Users : payment[u] # "none"

\* Nobody gives a command.
QuietInv == \A o \in Operators : pc[o] = "idle"

\* What was counted and not written yet is still true of what it calls settled.
SnapInv ==
    \A a \in Actors : pc[a] \in {"write", "rewrite"} =>
        \A u \in Users : /\ snap[a][u] # "none"
                         /\ snap[a][u] = "PAID" => u \in ledger
                         /\ snap[a][u] = "SKIPPED" => u \notin Ranked

IInv == TypeOK /\ PaidInv /\ CreationInv /\ QuietInv /\ SnapInv /\ CompletedIsCredited

\* What a slot may do, and what can happen when nobody gives a command.
SlotAction(s) ==
    \/ SlotStep(s) \/ PayFails(s) \/ FinalizeFails(s) \/ CatchThrows(s)
    \/ \E j \in Jobs : Deliver(s, j)

QuietNext ==
    \/ (\E c \in Creators : Create(c)) \/ InsertBatch \/ StartCycle
    \/ (\E u \in Users : EnqueuePayment(u)) \/ CreatorDies
    \/ RecoverScan \/ RecoverLost \/ WorkerCrash
    \/ \E j \in Jobs : RecoverAdd(j) \/ Stalled(j) \/ Forget(j)
    \/ \E s \in Slots : SlotAction(s)

\* An idle operator without commands stays idle.
LEMMA NoOperatorStep ==
    ASSUME TypeOK, QuietInv, Commands = {}, Next PROVE QuietNext
<1>1. ASSUME NEW u \in Users PROVE ~(RetryRead(u) \/ RetryAdd(u) \/ ReconcileAdd(u) \/ AuditPay(u))
  BY DEF QuietInv, Operators, RetryRead, Command, RetryAdd, ReconcileAdd, AuditPay
<1>2. ~(RetryReset \/ ReconcileRead \/ AuditRead)
  BY DEF QuietInv, Operators, RetryReset, ReconcileRead, AuditRead, Command
<1>3. ASSUME NEW o \in Operators
      PROVE ~(OperatorCounts(o) \/ Count(o) \/ OperatorWrites(o) \/ OperatorDies(o))
  BY DEF QuietInv, OperatorCounts, Count, OperatorWrites, OperatorDies
<1>4. ~OperatorStep
  BY <1>1, <1>2, <1>3 DEF OperatorStep
<1> QED BY <1>3, <1>4 DEF Next, QuietNext, SlotAction, CreatorStep, Failure

\* A slot moves its own label only, and leaves the creation alone.
LEMMA SlotFrame ==
    ASSUME TypeOK, NEW s \in Slots, SlotAction(s)
    PROVE  /\ \A a \in Actors \ {s} : pc'[a] = pc[a] /\ snap'[a] = snap[a]
           /\ UNCHANGED <<creator, stage, unqueued, listed>>
           /\ pc[s] # "idle" \/ \E j \in Jobs : bull[j] = "waiting"
<1> USE DEF creation, queue, locals, Goto, TypeOK, Actors
<1>1. CASE Pay(s) \/ PayFails(s) \/ FinalizeFails(s)
  BY <1>1 DEF Pay, PayFails, FinalizeFails
<1>2. CASE Count(s) \/ SlotWrite(s)
  BY <1>2 DEF Count, SlotWrite, EndDelivery
<1>3. CASE MarkForRetry(s) \/ CatchThrows(s)
  BY <1>3 DEF MarkForRetry, CatchThrows, Rejected, EndDelivery
<1>4. CASE MarkFailed(s) \/ DeadLetter(s)
  BY <1>4 DEF MarkFailed, DeadLetter, Rejected, EndDelivery
<1>5. ASSUME NEW j \in Jobs, Deliver(s, j) PROVE
           /\ \A a \in Actors \ {s} : pc'[a] = pc[a] /\ snap'[a] = snap[a]
           /\ UNCHANGED <<creator, stage, unqueued, listed>>
           /\ pc[s] # "idle" \/ \E i \in Jobs : bull[i] = "waiting"
  BY <1>5 DEF Deliver
<1> QED BY <1>1, <1>2, <1>3, <1>4, <1>5 DEF SlotAction, SlotStep

\* While nothing is in the queue, no slot does anything.
LEMMA NoSlotStep ==
    ASSUME TypeOK, CreationInv, stage \in {"absent", "insert"}, NEW s \in Slots
    PROVE  ~SlotAction(s)
BY SlotFrame DEF CreationInv

\* Undisturbed, the operators stay idle.
LEMMA QuietKept ==
    ASSUME TypeOK, QuietInv, QuietNext PROVE QuietInv'
<1> USE ActorAssumption DEF QuietInv, Operators, locals
<1>1. ASSUME NEW s \in Slots, SlotAction(s) PROVE QuietInv'
  BY <1>1, SlotFrame DEF Actors
<1>2. CASE WorkerCrash
  BY <1>2 DEF WorkerCrash, Actors
<1>3. CASE \/ (\E c \in Creators : Create(c)) \/ InsertBatch \/ StartCycle
           \/ (\E u \in Users : EnqueuePayment(u)) \/ CreatorDies
  BY <1>3 DEF Create, InsertBatch, StartCycle, EnqueuePayment, CreatorDies
<1>4. CASE \/ RecoverScan \/ RecoverLost
           \/ \E j \in Jobs : RecoverAdd(j) \/ Stalled(j) \/ Forget(j)
  BY <1>4 DEF RecoverScan, RecoverLost, RecoverAdd, Stalled, Forget
<1> QED BY <1>1, <1>2, <1>3, <1>4 DEF QuietNext

\* What a slot does to the rows: none is lost, and what is settled stays true.
LEMMA SlotRows ==
    ASSUME TypeOK, PaidInv, NEW s \in Slots, SlotAction(s)
    PROVE  /\ PaidInv' /\ ledger \subseteq ledger'
           /\ \A u \in Users : payment[u] # "none" => payment'[u] # "none"
<1> DEFINE G == /\ PaidInv' /\ ledger \subseteq ledger'
                /\ \A u \in Users : payment[u] # "none" => payment'[u] # "none"
<1>1. ASSUME NEW u \in Users, paySalary(u) PROVE G
  BY <1>1 DEF paySalary, PaidInv, TypeOK, Ranked
<1>2. ASSUME UNCHANGED <<payment, ledger>> PROVE G
  BY <1>2 DEF PaidInv, Ranked
<1>3. ASSUME pc[s] # "idle" PROVE PayeeOf(cur[s]) \in Users
  BY <1>3, PayeeType DEF TypeOK
<1>4. CASE Pay(s) \/ PayFails(s)
  BY <1>4, <1>1, <1>2, <1>3 DEF Pay, PayFails, money
<1>5. CASE MarkForRetry(s) \/ MarkFailed(s)
  <2>1. PICK next \in {"PENDING", "FAILED"} : payment' =
            [payment EXCEPT ![PayeeOf(cur[s])] = IF @ = "PAID" THEN @ ELSE next]
    BY <1>5 DEF MarkForRetry, MarkFailed
  <2>2. UNCHANGED ledger
    BY <1>5 DEF MarkForRetry, MarkFailed, money
  <2> QED BY <2>1, <2>2 DEF PaidInv, TypeOK, Ranked
<1>6. CASE \/ FinalizeFails(s) \/ Count(s) \/ SlotWrite(s) \/ DeadLetter(s) \/ CatchThrows(s)
           \/ \E j \in Jobs : Deliver(s, j)
  <2>1. UNCHANGED <<payment, ledger>>
    BY <1>6 DEF FinalizeFails, Count, SlotWrite, DeadLetter, CatchThrows, Deliver, row, money
  <2> QED BY <2>1, <1>2
<1> QED BY <1>4, <1>5, <1>6 DEF SlotAction, SlotStep

\* A row settled as paid has its ledger entry, and the ledger only grows.
LEMMA PaidKept ==
    ASSUME TypeOK, PaidInv, QuietNext PROVE PaidInv' /\ ledger \subseteq ledger'
<1> USE DEF PaidInv, Ranked, row, money
<1>1. ASSUME NEW s \in Slots, SlotAction(s) PROVE PaidInv' /\ ledger \subseteq ledger'
  BY <1>1, SlotRows
<1>2. CASE InsertBatch
  BY <1>2 DEF InsertBatch
<1>3. CASE \/ (\E c \in Creators : Create(c)) \/ StartCycle
           \/ (\E u \in Users : EnqueuePayment(u)) \/ CreatorDies
           \/ RecoverScan \/ RecoverLost \/ WorkerCrash
           \/ \E j \in Jobs : RecoverAdd(j) \/ Stalled(j) \/ Forget(j)
  BY <1>3 DEF Create, StartCycle, EnqueuePayment, CreatorDies, RecoverScan, RecoverLost,
     WorkerCrash, RecoverAdd, Stalled, Forget
<1> QED BY <1>1, <1>2, <1>3 DEF QuietNext

\* The rows are complete before the first job exists, because recovery waits for
\* the creation in the scheduler's tick.
LEMMA CreationKept ==
    ASSUME TypeOK, PaidInv, CreationInv, Undisturbed, QuietNext PROVE CreationInv'
<1> USE DEF CreationInv, row, money, creation, queue
<1>1. ASSUME NEW s \in Slots, SlotAction(s) PROVE CreationInv'
  <2>1. stage \in {"enqueue", "done", "dead"}
    BY <1>1, NoSlotStep DEF TypeOK
  <2>2. stage' = stage
    BY <1>1, SlotFrame
  <2>3. \A u \in Users : payment'[u] # "none"
    BY <1>1, <2>1, SlotRows
  <2>4. cycle' # "none"
    BY <1>1, <2>1 DEF SlotAction, SlotStep, Pay, PayFails, Count, SlotWrite, WriteTotals, StatusOf,
       MarkForRetry, MarkFailed, DeadLetter, CatchThrows, FinalizeFails, Deliver
  <2> QED BY <2>1, <2>2, <2>3, <2>4
<1>2. ASSUME NEW c \in Creators, Create(c) PROVE CreationInv'
  BY <1>2 DEF Create, Undisturbed, TypeOK
<1>3. CASE InsertBatch
  BY <1>3 DEF InsertBatch
<1>4. CASE StartCycle
  BY <1>4 DEF StartCycle
<1>5. ASSUME NEW u \in Users, EnqueuePayment(u) PROVE CreationInv'
  BY <1>5 DEF EnqueuePayment
<1>6. CASE CreatorDies
  BY <1>6 DEF CreatorDies, Undisturbed, Fault
<1>7. CASE RecoverScan
  <2>1. CASE stage \in {"enqueue", "done", "dead"}
    BY <1>7, <2>1 DEF RecoverScan
  <2>2. CASE stage = "absent"
    <3>1. listed' = {}
      BY <1>7, <2>2 DEF RecoverScan
    <3> QED BY <1>7, <2>2, <3>1 DEF RecoverScan
  <2> QED BY <1>7, <2>1, <2>2 DEF RecoverScan, TypeOK
<1>8. ASSUME NEW j \in Jobs, RecoverAdd(j) \/ Stalled(j) \/ Forget(j) PROVE CreationInv'
  BY <1>8 DEF RecoverAdd, Stalled, Forget
<1>9. CASE RecoverLost
  BY <1>9 DEF RecoverLost
<1>10. CASE WorkerCrash
  BY <1>10 DEF WorkerCrash, Actors, TypeOK
<1> QED BY <1>1, <1>2, <1>3, <1>4, <1>5, <1>6, <1>7, <1>8, <1>9, <1>10 DEF QuietNext

\* A count stays true until it is written: the ledger only grows, and a row's rank
\* is fixed.
LEMMA SnapKept ==
    ASSUME TypeOK, PaidInv, CreationInv, QuietInv, SnapInv, QuietNext PROVE SnapInv'
<1> USE DEF SnapInv, row, money, creation, queue, locals
<1>1. ledger \subseteq ledger'
  BY PaidKept
<1>2. ASSUME UNCHANGED <<pc, snap>> PROVE SnapInv'
  BY <1>1, <1>2 DEF Ranked
<1>3. ASSUME NEW s \in Slots, SlotAction(s) PROVE SnapInv'
  <2> DEFINE Good(a) == pc'[a] \in {"write", "rewrite"} =>
          \A u \in Users : /\ snap'[a][u] # "none"
                           /\ snap'[a][u] = "PAID" => u \in ledger'
                           /\ snap'[a][u] = "SKIPPED" => u \notin Ranked
  <2>1. \A a \in Actors \ {s} : Good(a)
    BY <1>1, <1>3, SlotFrame DEF Ranked
  <2>2. s \in Actors
    BY DEF Actors
  <2>3. CASE Count(s)
    <3>1. stage \in {"enqueue", "done", "dead"}
      BY <1>3, NoSlotStep DEF TypeOK
    <3>2. \A u \in Users : payment[u] # "none"
      BY <3>1 DEF CreationInv
    <3>3. snap'[s] = payment
      BY <2>2, <2>3 DEF Count, TypeOK
    <3> QED BY <1>1, <2>1, <3>2, <3>3 DEF PaidInv, Ranked
  <2>4. CASE ~Count(s)
    <3>1. pc'[s] \notin {"write", "rewrite"}
      BY <1>3, <2>2, <2>4 DEF SlotAction, SlotStep, Pay, PayFails, SlotWrite, EndDelivery, MarkForRetry,
         MarkFailed, DeadLetter, CatchThrows, FinalizeFails, Deliver, Rejected, Goto, TypeOK
    <3> QED BY <2>1, <3>1
  <2> QED BY <2>3, <2>4
<1>4. CASE WorkerCrash
  BY <1>1, <1>4 DEF WorkerCrash, QuietInv, Actors
<1>5. CASE \/ (\E c \in Creators : Create(c)) \/ InsertBatch \/ StartCycle
           \/ (\E u \in Users : EnqueuePayment(u)) \/ CreatorDies
           \/ RecoverScan \/ RecoverLost
           \/ \E j \in Jobs : RecoverAdd(j) \/ Stalled(j) \/ Forget(j)
  BY <1>2, <1>5 DEF Create, InsertBatch, StartCycle, EnqueuePayment, CreatorDies,
     RecoverScan, RecoverLost, RecoverAdd, Stalled, Forget
<1> QED BY <1>3, <1>4, <1>5 DEF QuietNext

\* A cycle becomes COMPLETED from a count that is still true.
LEMMA CompletedKept ==
    ASSUME TypeOK, SnapInv, CompletedIsCredited, QuietNext, ledger \subseteq ledger'
    PROVE  CompletedIsCredited'
<1> USE DEF CompletedIsCredited, Ranked, row
<1>1. ASSUME NEW s \in Slots, SlotWrite(s) PROVE CompletedIsCredited'
  <2>1. pc[s] \in {"write", "rewrite"} /\ cycle' = StatusOf(snap[s])
    BY <1>1 DEF SlotWrite, WriteTotals
  <2>2. s \in Actors /\ snap[s] \in [Users -> PaymentStatus]
    BY DEF TypeOK, Actors
  <2>3. ASSUME StatusOf(snap[s]) = "COMPLETED", NEW u \in Users
        PROVE  snap[s][u] \in {"PAID", "SKIPPED"}
    BY <2>1, <2>2, <2>3 DEF StatusOf, WithStatus, SnapInv, PaymentStatus
  <2>4. ASSUME StatusOf(snap[s]) = "COMPLETED", NEW u \in Users, Salary[u] > 0
        PROVE  u \in ledger
    BY <2>1, <2>2, <2>3, <2>4 DEF SnapInv
  <2> QED BY <2>1, <2>4
<1>2. CASE StartCycle
  BY <1>2 DEF StartCycle
<1>3. ASSUME UNCHANGED cycle PROVE CompletedIsCredited'
  BY <1>3
<1>4. ASSUME NEW c \in Creators, Create(c) PROVE CompletedIsCredited'
  BY <1>4 DEF Create
<1>5. ASSUME NEW s \in Slots, SlotAction(s), ~SlotWrite(s) PROVE UNCHANGED cycle
  BY <1>5 DEF SlotAction, SlotStep, Pay, PayFails, Count, MarkForRetry, MarkFailed, DeadLetter,
     CatchThrows, FinalizeFails, Deliver
<1>6. ASSUME \/ InsertBatch \/ (\E u \in Users : EnqueuePayment(u)) \/ CreatorDies
             \/ RecoverScan \/ RecoverLost \/ WorkerCrash
             \/ \E j \in Jobs : RecoverAdd(j) \/ Stalled(j) \/ Forget(j)
      PROVE  UNCHANGED cycle
  BY <1>6 DEF InsertBatch, EnqueuePayment, CreatorDies, RecoverScan, RecoverLost,
     WorkerCrash, RecoverAdd, Stalled, Forget
<1> QED BY <1>1, <1>2, <1>3, <1>4, <1>5, <1>6 DEF QuietNext

\* Undisturbed by the process's death during the creation, a second creator or a
\* command, a cycle shown as COMPLETED has credited every ranked user, for any
\* number of slots, recoveries, retries, crashes and lost answers.
THEOREM CompletesCreditedOnly ==
    ASSUME Undisturbed PROVE Spec => []CompletedIsCredited
<1>1. Init => IInv
  <2> SUFFICES ASSUME Init PROVE IInv OBVIOUS
  <2>1. TypeOK
    BY InitType
  <2>2. PaidInv /\ CreationInv /\ CompletedIsCredited
    BY DEF Init, PaidInv, CreationInv, CompletedIsCredited, Actors
  <2>3. QuietInv /\ SnapInv
    BY DEF Init, QuietInv, SnapInv, Actors
  <2> QED BY <2>1, <2>2, <2>3 DEF IInv
<1>2. IInv /\ [Next]_vars => IInv'
  <2> SUFFICES ASSUME IInv, [Next]_vars PROVE IInv' OBVIOUS
  <2>1. TypeOK'
    BY NextType DEF IInv
  <2>2. CASE Next
    <3>1. QuietNext
      BY <2>2, NoOperatorStep DEF IInv, Undisturbed
    <3>2. PaidInv' /\ ledger \subseteq ledger'
      BY <3>1, PaidKept DEF IInv
    <3>3. CreationInv' /\ QuietInv' /\ SnapInv'
      BY <3>1, CreationKept, QuietKept, SnapKept DEF IInv
    <3>4. CompletedIsCredited'
      BY <3>1, <3>2, CompletedKept DEF IInv
    <3> QED BY <2>1, <3>2, <3>3, <3>4 DEF IInv
  <2>3. CASE UNCHANGED vars
    BY <2>1, <2>3 DEF IInv, vars, row, money, creation, queue, locals, PaidInv, CreationInv,
       QuietInv, SnapInv, CompletedIsCredited, Ranked, Operators
  <2> QED BY <2>2, <2>3
<1>3. IInv => CompletedIsCredited
  BY DEF IInv
<1> QED BY <1>1, <1>2, <1>3, PTL DEF Spec

-----------------------------------------------------------------------------
(* The total never claims more than the ledger holds.  A finalisation may write *)
(* what it counted long before, so the total is not the sum of the ledger; it  *)
(* is the sum of some part of it, whatever the creation and the commands did.  *)

\* Who is paid, or was when somebody counted, is in the ledger, and the total is
\* what some of those in the ledger earn.
TotalsInv ==
    /\ \A u \in Users : payment[u] = "PAID" => u \in ledger
    /\ \A a \in Actors : \A u \in Users : snap[a][u] = "PAID" => u \in ledger
    /\ \E paid \in SUBSET ledger : totals.amount = SumFunctionOnSet(Salary, paid)

\* The total is larger if more users are paid.
LEMMA TotalsBounded == TypeOK /\ TotalsInv => TotalsAreCredited
<1> SUFFICES ASSUME TypeOK, TotalsInv PROVE TotalsAreCredited OBVIOUS
<1>1. PICK paid \in SUBSET ledger : totals.amount = SumFunctionOnSet(Salary, paid)
  BY DEF TotalsInv
<1>2. ledger \subseteq Users
  BY DEF TypeOK, Ranked
<1>3. IsFiniteSet(ledger) /\ \A u \in ledger : Salary[u] \in Nat
  BY <1>2, SalaryAssumption, FS_Subset
<1> QED BY <1>1, <1>3, SumMonotone DEF TotalsAreCredited

\* Nothing is counted before the first payment.
LEMMA TotalsStart == Init => TotalsInv
<1> SUFFICES ASSUME Init PROVE TotalsInv OBVIOUS
<1>1. totals.amount = SumFunctionOnSet(Salary, {}) /\ {} \in SUBSET ledger
  BY SumEmpty DEF Init, NoTotals
<1>2. \A u \in Users : payment[u] = "none" /\ \A a \in Actors : snap[a][u] = "none"
  BY DEF Init, NoSnap
<1> QED BY <1>1, <1>2 DEF TotalsInv

\* What is counted and not written keeps its meaning while the ledger grows.
LEMMA TotalsGrow ==
    ASSUME TotalsInv, ledger \subseteq ledger', totals'.amount = totals.amount,
           \A u \in Users : payment'[u] = "PAID" => u \in ledger',
           \A a \in Actors : \A u \in Users : snap'[a][u] = "PAID" => u \in ledger' \/ snap[a][u] = "PAID"
    PROVE  TotalsInv'
<1>1. PICK paid \in SUBSET ledger : totals.amount = SumFunctionOnSet(Salary, paid)
  BY DEF TotalsInv
<1>2. \E p \in SUBSET ledger' : totals'.amount = SumFunctionOnSet(Salary, p)
  BY <1>1
<1>3. \A a \in Actors : \A u \in Users : snap'[a][u] = "PAID" => u \in ledger'
  BY DEF TotalsInv
<1> QED BY <1>2, <1>3 DEF TotalsInv

\* What a finalisation counted is written as the cycle's total.
LEMMA TotalsWritten ==
    ASSUME TypeOK, TotalsInv, NEW a \in Actors, WriteTotals(snap[a]), UNCHANGED <<payment, money>>,
           snap' = [snap EXCEPT ![a] = NoSnap]
    PROVE  TotalsInv'
<1>1. PaidIn(snap[a]) \subseteq ledger
  BY DEF PaidIn, WithStatus, TotalsInv
<1>2. totals'.amount = SumFunctionOnSet(Salary, PaidIn(snap[a]))
  BY DEF WriteTotals
<1>3. \E p \in SUBSET ledger' : totals'.amount = SumFunctionOnSet(Salary, p)
  BY <1>1, <1>2 DEF money
<1>4. \A c \in Actors : \A u \in Users : snap'[c][u] = "PAID" => snap[c][u] = "PAID"
  BY DEF NoSnap, TypeOK
<1> QED BY <1>3, <1>4 DEF TotalsInv, money

\* What was counted as paid stays in the ledger until it is written.
LEMMA TotalsKept == TypeOK /\ TotalsInv /\ [Next]_vars => TotalsInv'
<1> SUFFICES ASSUME TypeOK, TotalsInv, [Next]_vars PROVE TotalsInv' OBVIOUS
<1> USE DEF row, money, queue, locals
<1>1. ASSUME UNCHANGED <<payment, money, totals>>,
             \A a \in Actors : \A u \in Users : snap'[a][u] = "PAID" => snap[a][u] = "PAID"
      PROVE  TotalsInv'
  BY <1>1, TotalsGrow DEF TotalsInv
<1>2. ASSUME NEW u \in Users, paySalary(u), UNCHANGED <<totals, snap>> PROVE TotalsInv'
  <2>1. ledger \subseteq ledger' /\ \A v \in Users : payment'[v] = "PAID" => v \in ledger'
    BY <1>2 DEF paySalary, TotalsInv, TypeOK
  <2> QED BY <1>2, <2>1, TotalsGrow
<1>3. ASSUME UNCHANGED <<money, snap>>, totals'.amount = totals.amount,
             \A u \in Users : payment'[u] = "PAID" => payment[u] = "PAID"
      PROVE  TotalsInv'
  BY <1>3, TotalsGrow DEF TotalsInv
<1>4. ASSUME NEW s \in Slots, Pay(s) \/ PayFails(s) PROVE TotalsInv'
  <2>1. PayeeOf(cur[s]) \in Users
    BY <1>4, PayeeType DEF TypeOK, Pay, PayFails
  <2>2. UNCHANGED <<totals, snap>>
    BY <1>4 DEF Pay, PayFails
  <2>3. paySalary(PayeeOf(cur[s])) \/ UNCHANGED <<payment, money>>
    BY <1>4 DEF Pay, PayFails
  <2> QED BY <2>1, <2>2, <2>3, <1>1, <1>2
<1>5. ASSUME NEW u \in Users, AuditPay(u) PROVE TotalsInv'
  <2>1. UNCHANGED <<totals, snap>> /\ (paySalary(u) \/ UNCHANGED <<payment, money>>)
    BY <1>5 DEF AuditPay
  <2> QED BY <2>1, <1>1, <1>2
<1>6. ASSUME NEW s \in Slots, MarkForRetry(s) \/ MarkFailed(s) PROVE TotalsInv'
  <2>1. PICK next \in {"PENDING", "FAILED"} : payment' =
            [payment EXCEPT ![PayeeOf(cur[s])] = IF @ = "PAID" THEN @ ELSE next]
    BY <1>6 DEF MarkForRetry, MarkFailed
  <2>2. \A u \in Users : payment'[u] = "PAID" => payment[u] = "PAID"
    BY <2>1 DEF TypeOK
  <2>3. UNCHANGED <<money, totals>>
    BY <1>6 DEF MarkForRetry, MarkFailed
  <2>4. snap' = snap \/ snap' = [snap EXCEPT ![s] = NoSnap]
    BY <1>6 DEF MarkForRetry, MarkFailed, Rejected, EndDelivery
  <2>5. \A a \in Actors : \A u \in Users : snap'[a][u] = "PAID" => snap[a][u] = "PAID"
    BY <2>4 DEF TypeOK, NoSnap
  <2> QED BY <2>2, <2>3, <2>5, TotalsGrow DEF TotalsInv
<1>7. ASSUME NEW s \in Slots, \/ DeadLetter(s) \/ FinalizeFails(s) \/ CatchThrows(s)
                              \/ \E j \in Jobs : Deliver(s, j)
      PROVE  TotalsInv'
  <2>1. UNCHANGED <<payment, money, totals>>
    BY <1>7 DEF DeadLetter, FinalizeFails, CatchThrows, Deliver
  <2>2. snap' = snap \/ snap' = [snap EXCEPT ![s] = NoSnap]
    BY <1>7 DEF DeadLetter, FinalizeFails, CatchThrows, Deliver, Rejected, EndDelivery
  <2>3. \A a \in Actors : \A u \in Users : snap'[a][u] = "PAID" => snap[a][u] = "PAID"
    BY <2>2 DEF TypeOK, NoSnap
  <2> QED BY <2>1, <2>3, <1>1
<1>8. ASSUME NEW a \in Actors, Count(a) PROVE TotalsInv'
  <2>1. snap' = [snap EXCEPT ![a] = payment] /\ UNCHANGED <<payment, money, totals>>
    BY <1>8 DEF Count
  <2>2. \A c \in Actors : \A u \in Users : snap'[c][u] = "PAID" => u \in ledger
    BY <2>1 DEF TotalsInv, TypeOK
  <2> QED BY <2>1, <2>2, TotalsGrow DEF TotalsInv
<1>9. ASSUME NEW s \in Slots, SlotWrite(s) PROVE TotalsInv'
  BY <1>9, TotalsWritten DEF SlotWrite, EndDelivery, Actors
<1>10. ASSUME NEW o \in Operators, OperatorWrites(o) PROVE TotalsInv'
  BY <1>10, TotalsWritten DEF OperatorWrites, Return, Actors
<1>11. CASE InsertBatch
  <2>1. \A u \in Users : payment'[u] = "PAID" => payment[u] = "PAID"
    BY <1>11 DEF InsertBatch
  <2> QED BY <1>11, <2>1, <1>3 DEF InsertBatch
<1>12. CASE StartCycle
  <2>1. totals'.amount = totals.amount
    BY <1>12 DEF StartCycle, TypeOK
  <2> QED BY <1>12, <2>1, <1>3 DEF StartCycle
<1>13. CASE RetryReset
  <2>1. \A u \in Users : payment'[u] = "PAID" => payment[u] = "PAID"
    BY <1>13 DEF RetryReset
  <2> QED BY <1>13, <2>1, <1>3 DEF RetryReset
<1>14. ASSUME NEW o \in Operators, OperatorDies(o) PROVE TotalsInv'
  <2>1. UNCHANGED <<payment, money, totals>> /\ snap' = [snap EXCEPT ![o] = NoSnap]
    BY <1>14 DEF OperatorDies, Return
  <2>2. \A a \in Actors : \A u \in Users : snap'[a][u] = "PAID" => snap[a][u] = "PAID"
    BY <2>1 DEF TypeOK, NoSnap
  <2> QED BY <2>1, <2>2, <1>1
<1>15. ASSUME NEW u \in Users, RetryAdd(u) PROVE TotalsInv'
  <2>1. UNCHANGED <<payment, money, totals>> /\ snap' = [snap EXCEPT !["admin"] = NoSnap]
    BY <1>15 DEF RetryAdd, Return
  <2>2. \A a \in Actors : \A v \in Users : snap'[a][v] = "PAID" => snap[a][v] = "PAID"
    BY <2>1 DEF TypeOK, NoSnap
  <2> QED BY <2>1, <2>2, <1>1
<1>16. CASE WorkerCrash
  <2>1. UNCHANGED <<payment, money, totals>>
    BY <1>16 DEF WorkerCrash
  <2>2. \A a \in Actors : \A u \in Users : snap'[a][u] = "PAID" => snap[a][u] = "PAID"
    BY <1>16 DEF WorkerCrash, NoSnap
  <2> QED BY <2>1, <2>2, <1>1
<1>17. ASSUME \/ (\E c \in Creators : Create(c)) \/ (\E u \in Users : EnqueuePayment(u)) \/ CreatorDies
              \/ RecoverScan \/ RecoverLost
              \/ \E j \in Jobs : RecoverAdd(j) \/ Stalled(j) \/ Forget(j)
       PROVE  TotalsInv'
  <2>1. UNCHANGED <<payment, money, totals, snap>>
    BY <1>17 DEF Create, EnqueuePayment, CreatorDies, RecoverScan, RecoverLost, RecoverAdd, Stalled, Forget
  <2> QED BY <2>1, <1>1
<1>18. ASSUME \/ \E u \in Users : RetryRead(u) \/ ReconcileAdd(u)
              \/ ReconcileRead \/ AuditRead \/ \E o \in Operators : OperatorCounts(o)
       PROVE  TotalsInv'
  <2>1. UNCHANGED <<payment, money, totals, snap>>
    BY <1>18 DEF RetryRead, ReconcileAdd, ReconcileRead, AuditRead, OperatorCounts
  <2> QED BY <2>1, <1>1
<1>19. CASE UNCHANGED vars
  <2>1. UNCHANGED <<payment, money, totals, snap>>
    BY <1>19 DEF vars
  <2> QED BY <2>1, <1>1
<1> QED
  BY <1>4, <1>5, <1>6, <1>7, <1>8, <1>9, <1>10, <1>11, <1>12, <1>13, <1>14, <1>15, <1>16,
     <1>17, <1>18, <1>19 DEF Next, CreatorStep, SlotStep, OperatorStep, Failure, Actors

\* Whoever creates the cycle, whatever fails and whatever the administrator and the
\* script command, a cycle's total never claims more than the ledger holds: the sum
\* of the salaries of whoever the finalisation saw paid.
THEOREM TotalsNeverExceed == Spec => []TotalsAreCredited
<1>1. TypeOK /\ TotalsInv => TotalsAreCredited
  BY TotalsBounded
<1> QED BY <1>1, TotalsStart, TotalsKept, TypeCorrect, PTL DEF Spec
=============================================================================
