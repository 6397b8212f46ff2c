------------------------------ MODULE AiTrade ------------------------------
(***************************************************************************)
(* One slot of the AI trade pipeline: manual placements by intent tokens,  *)
(* the orchestrator's cycle, the two BullMQ queues, the workers, and the   *)
(* two financial transactions on the Future wallet.                        *)
(***************************************************************************)
EXTENDS Integers, FiniteSets, FiniteSetsExt

CONSTANTS
    Users,
    Places,             \* <<trade type, user>>: who may join which run of the slot
    Opening, Rate,      \* balances in cents, rates in hundredths of a per cent
    Workers, Calls,     \* slots of the workers, requests of the browser
    MaxRetries,         \* AI_TRADE_MAX_RETRIES
    MaxStalledCount,    \* of BullMQ
    MaxEvents           \* bound: faults and other rare events

Runs == {p[1] : p \in Places}
AllJobs == {"CREATE", "SETTLE"} \X Places
Manual == {p \in Places : p[1] = "MANUAL"}
NoJob == <<"NONE", "NONE">>

ASSUME AiTradeAssumption ==
    /\ Places \subseteq {"AI_BOT", "MANUAL"} \X Users /\ IsFiniteSet(Places)
    /\ Opening \in [Users -> Nat] /\ Rate \in [Users -> Nat]
    /\ MaxRetries \in Nat \ {0} /\ MaxStalledCount \in Nat /\ MaxEvents \in Nat

VARIABLES
    clock,      \* "live" while placements are open, "due" when the session settles
    run,        \* TradeSessionRun: status and totalEligible
    row,        \* AiTradeJob.status by job, "none" while there is no row
    bull,       \* the BullMQ jobs
    hanging,    \* additions the caller no longer waits for
    trade,      \* AiFinancialTrade
    wallet,     \* AiFinancialWallet
    active,     \* users whose AI Bot subscription is ACTIVE
    worker, cycle, call,
    intent,     \* AiTradeIntent: "none", "unused" or "used"
    told,       \* the last answer a user saw
    events

vars == <<clock, run, row, bull, hanging, trade, wallet, active, worker, cycle,
          call, intent, told, events>>
financialVars == <<trade, wallet>>
requestVars == <<intent, call, told>>

NoBull == [state |-> "none", made |-> 0, stalls |-> 0]
NoTrade == [status |-> "none", principal |-> 0, profit |-> 0]
IdleWorker == [pc |-> "idle", job |-> NoJob, made |-> 0, held |-> FALSE]
Unread == [pending |-> -1, dead |-> -1, trades |-> -1, settled |-> -1]
NewCycle == [pc |-> "open", todo |-> {}, seen |-> Unread]
IdleCall == [pc |-> "idle", place |-> NoJob, consumed |-> FALSE, waiting |-> FALSE, count |-> 0]

Init ==
    /\ clock = "live"
    /\ run = [r \in Runs |-> [status |-> "QUEUING", eligible |-> 0]]
    /\ row = [j \in AllJobs |-> "none"] /\ bull = [j \in AllJobs |-> NoBull] /\ hanging = {}
    /\ trade = [p \in Places |-> NoTrade]
    /\ wallet = [u \in Users |-> [available |-> Opening[u], locked |-> 0, profit |-> 0]]
    /\ active = Users
    /\ worker = [w \in Workers |-> IdleWorker] /\ cycle = NewCycle
    /\ intent = [p \in Manual |-> "none"] /\ call = [c \in Calls |-> IdleCall]
    /\ told = [p \in Manual |-> "none"]
    /\ events = 0

Rare == events < MaxEvents /\ events' = events + 1

\* the session settles ten minutes after the last placement: no request of a
\* browser lasts that long
Tick ==
    /\ clock = "live" /\ clock' = "due" /\ \A c \in Calls : call[c].pc \in {"idle", "done"}
    /\ UNCHANGED <<run, row, bull, hanging, financialVars, active, worker, cycle,
                   requestVars, events>>

-----------------------------------------------------------------------------
(* BullMQ: an id that is known is not added again; failed jobs are kept,   *)
(* completed ones for a day.                                               *)

Added(b, jobs) ==
    [j \in AllJobs |-> IF j \in jobs /\ b[j].state = "none"
                    THEN [NoBull EXCEPT !.state = "waiting"] ELSE b[j]]

\* removeOnComplete
Evict(j) ==
    /\ bull[j].state = "completed" /\ row[j] = "DEAD" /\ clock = "due" /\ Rare
    /\ bull' = [bull EXCEPT ![j] = NoBull]
    /\ UNCHANGED <<clock, run, row, hanging, financialVars, active, worker, cycle, requestVars>>

\* boundedQueueOperation gave up, Redis executes the command later
AddArrives(j) ==
    /\ j \in hanging /\ hanging' = hanging \ {j} /\ bull' = Added(bull, {j})
    /\ UNCHANGED <<clock, run, row, financialVars, active, worker, cycle, requestVars, events>>

\* the job after a throw of its worker
Thrown(j) ==
    [bull[j] EXCEPT !.made = @ + 1, !.state = IF bull[j].made + 1 < MaxRetries THEN "waiting" ELSE "failed"]

\* the job after its lock was lost
Stalled(j) ==
    [bull[j] EXCEPT !.stalls = @ + 1,
                    !.state = IF bull[j].stalls + 1 > MaxStalledCount THEN "failed" ELSE "waiting"]

-----------------------------------------------------------------------------
(* The two transactions, in cents.                                         *)

calculatePrincipal(balance) == (balance + 50) \div 100
calculateProfit(balance, rate) == (balance * rate + 5000) \div 10000

\* createTradeForUser raises no error
Creatable(p) ==
    /\ p[1] = "AI_BOT" => p[2] \in active
    /\ trade[p].status = "none" =>
         LET principal == calculatePrincipal(wallet[p[2]].available)
         IN principal > 0 /\ principal <= wallet[p[2]].available

\* a trade with the execution key is returned as it is; the row of the
\* settlement is created with the trade
createTradeForUser(p) ==
    LET balance == wallet[p[2]].available
        principal == calculatePrincipal(balance)
    IN IF trade[p].status # "none"
       THEN UNCHANGED <<financialVars, row>>
       ELSE /\ trade' = [trade EXCEPT ![p] =
                  [status |-> "LOCKED", principal |-> principal,
                   profit |-> calculateProfit(balance, Rate[p[2]])]]
            /\ wallet' = [wallet EXCEPT ![p[2]].available = @ - principal,
                                        ![p[2]].locked = @ + principal]
            /\ row' = [row EXCEPT ![<<"SETTLE", p>>] = "QUEUED"]

\* settleTrade raises no error
Settlable(p) ==
    /\ trade[p].status # "none"
    /\ trade[p].status = "LOCKED" => wallet[p[2]].locked >= trade[p].principal

Settles(p) ==
    /\ trade' = [trade EXCEPT ![p].status = "SETTLED"]
    /\ wallet' = [wallet EXCEPT ![p[2]].available = @ + trade[p].principal + trade[p].profit,
                                ![p[2]].locked = @ - trade[p].principal,
                                ![p[2]].profit = @ + trade[p].profit]

\* mutant: neither the status nor the two ledger keys are looked at
settleTradeAgain(p) == Settles(p)

\* a settled trade, whose two ledger rows were written with its status, is
\* returned as it is
settleTrade(p) == IF trade[p].status = "SETTLED" THEN UNCHANGED financialVars ELSE Settles(p)

\* an AI Bot subscription ends and its status is written
Expire(u) ==
    /\ u \in active /\ Rare /\ active' = active \ {u}
    /\ UNCHANGED <<clock, run, row, bull, hanging, financialVars, worker, cycle, requestVars>>

-----------------------------------------------------------------------------
(* worker.ts, execute: one slot of a worker.                               *)

WorkerAt(w, pc) == worker' = [worker EXCEPT ![w].pc = pc]
WorkerRests(w) == worker' = [worker EXCEPT ![w] = IdleWorker]
SlotVars == <<clock, hanging, active, cycle, requestVars>>

\* a settlement that was added early is delayed until the session settles
Ready(j) == bull[j].state = "waiting" /\ (j[1] = "SETTLE" => clock = "due")

Take(w, j) ==
    /\ worker[w].pc = "idle" /\ Ready(j)
    /\ bull' = [bull EXCEPT ![j].state = "active"]
    /\ row' = [row EXCEPT ![j] = "RUNNING"]
    /\ worker' = [worker EXCEPT ![w] = [pc |-> "run", job |-> j, made |-> bull[j].made, held |-> TRUE]]
    /\ UNCHANGED <<SlotVars, run, financialVars, events>>

\* the first write fails, outside of the try block
TakeFails(w, j) ==
    /\ worker[w].pc = "idle" /\ Ready(j) /\ Rare
    /\ bull' = [bull EXCEPT ![j] = Thrown(j)]
    /\ UNCHANGED <<SlotVars, run, row, financialVars, worker>>

\* withPostgresSerializationRetry: an attempt that lost against another
\* transaction has changed nothing, and the last one counts
Transact(j) ==
    IF j[1] = "CREATE" THEN createTradeForUser(j[2])
    ELSE settleTrade(j[2]) /\ UNCHANGED row

Possible(j) == IF j[1] = "CREATE" THEN Creatable(j[2]) ELSE Settlable(j[2])

\* SUBSCRIPTION_EXPIRED, no principal to lock, too little locked: permanent
Execute(w) ==
    LET j == worker[w].job IN
    /\ worker[w].pc = "run"
    /\ IF Possible(j) THEN WorkerAt(w, "ok") /\ Transact(j)
       ELSE WorkerAt(w, "permanent") /\ UNCHANGED <<financialVars, row>>
    /\ UNCHANGED <<SlotVars, run, bull, events>>

\* classify: an error of the database or of the network is transient or not;
\* the transaction may have been committed nevertheless
ExecuteFails(w) ==
    LET j == worker[w].job IN
    /\ worker[w].pc = "run" /\ Possible(j) /\ Rare
    /\ \E kind \in {"permanent", "transient"} : WorkerAt(w, kind)
    /\ \/ UNCHANGED <<financialVars, row>>
       \/ Transact(j)
    /\ UNCHANGED <<SlotVars, run, bull>>

Complete(w) ==
    /\ worker[w].pc = "ok" /\ WorkerAt(w, "ack")
    /\ row' = [row EXCEPT ![worker[w].job] = "COMPLETED"]
    /\ UNCHANGED <<SlotVars, run, bull, financialVars, events>>

CompleteFails(w) ==
    /\ worker[w].pc = "ok" /\ Rare
    /\ \E kind \in {"permanent", "transient"} : WorkerAt(w, kind)
    /\ UNCHANGED <<SlotVars, run, row, bull, financialVars>>

Last(w) ==
    \/ worker[w].pc = "permanent"
    \/ worker[w].pc = "transient" /\ worker[w].made + 1 >= MaxRetries

\* mutant: the error is not thrown on
Swallow(w) ==
    /\ bull' = IF worker[w].held THEN [bull EXCEPT ![worker[w].job].state = "completed"] ELSE bull
    /\ WorkerRests(w)

\* the job is returned to BullMQ, which ignores a worker that lost the lock
Throw(w) ==
    /\ bull' = IF worker[w].held THEN [bull EXCEPT ![worker[w].job] = Thrown(worker[w].job)] ELSE bull
    /\ WorkerRests(w)

Catch(w) ==
    /\ worker[w].pc \in {"permanent", "transient"}
    /\ row' = [row EXCEPT ![worker[w].job] = IF Last(w) THEN "DEAD" ELSE "FAILED"]
    /\ IF Last(w) THEN WorkerAt(w, "letter") /\ UNCHANGED bull ELSE Throw(w)
    /\ UNCHANGED <<SlotVars, run, financialVars, events>>

\* the dead letter, then the session run
Bury(w) ==
    /\ worker[w].pc = "letter" /\ WorkerAt(w, "ack")
    /\ run' = [run EXCEPT ![worker[w].job[2][1]].status = "PARTIAL_FAILURE"]
    /\ UNCHANGED <<SlotVars, row, bull, financialVars, events>>

CatchFails(w) ==
    /\ worker[w].pc \in {"permanent", "transient", "letter"} /\ Rare /\ Throw(w)
    /\ UNCHANGED <<SlotVars, run, row, financialVars>>

Acknowledge(w) ==
    /\ worker[w].pc = "ack" /\ WorkerRests(w)
    /\ bull' = IF worker[w].held THEN [bull EXCEPT ![worker[w].job].state = "completed"] ELSE bull
    /\ UNCHANGED <<SlotVars, run, row, financialVars, events>>

\* the process dies, or its event loop stands still until the lock is lost
LosesLock(w) ==
    /\ worker[w].pc # "idle" /\ worker[w].held /\ Rare
    /\ bull' = [bull EXCEPT ![worker[w].job] = Stalled(worker[w].job)]
    /\ \/ WorkerRests(w)
       \/ worker' = [worker EXCEPT ![w].held = FALSE]
    /\ UNCHANGED <<SlotVars, run, row, financialVars>>

WorkerStep(w) ==
    \/ \E j \in AllJobs : Take(w, j)
    \/ Execute(w) \/ Complete(w) \/ Catch(w) \/ Bury(w) \/ Acknowledge(w)

WorkerFault(w) ==
    \/ \E j \in AllJobs : TakeFails(w, j)
    \/ ExecuteFails(w) \/ CompleteFails(w) \/ CatchFails(w) \/ LosesLock(w)

-----------------------------------------------------------------------------
(* The orchestrator's cycle: five phases, each over everything it finds.   *)

Goto(pc) == cycle' = [cycle EXCEPT !.pc = pc]
CycleVars == <<clock, financialVars, active, worker, requestVars>>
Jobs(kind, places) == {kind} \X places

\* an operation that failed ends the cycle; at most one of its additions was
\* sent and not waited for
AddSome(jobs) ==
    \E done \in SUBSET jobs :
        /\ bull' = Added(bull, done)
        /\ hanging' \in {hanging} \cup {hanging \cup {j} : j \in jobs \ done}

\* scheduleSessionsForUser: the run is opened for subscribers
Scheduled(p) == p[1] = "AI_BOT" /\ p[2] \in active

\* enqueueUser passes over a creation that has begun or is decided
Openable == {p \in Places : Scheduled(p) /\ row[<<"CREATE", p>>] \in {"none", "QUEUED", "FAILED"}}
Queued(r, jobs) == [j \in AllJobs |-> IF j \in jobs /\ r[j] = "none" THEN "QUEUED" ELSE r[j]]
Created(r, kind) == Cardinality({p \in Places : p[1] = kind /\ r[<<"CREATE", p>>] # "none"})

openDueSessions ==
    /\ cycle.pc = "open" /\ Goto("settle")
    /\ row' = Queued(row, Jobs("CREATE", Openable)) /\ bull' = Added(bull, Jobs("CREATE", Openable))
    /\ run' = IF Openable = {} THEN run
              ELSE [run EXCEPT !["AI_BOT"] = [status |-> "RUNNING", eligible |-> Created(row', "AI_BOT")]]
    /\ UNCHANGED <<CycleVars, hanging, events>>

OpenFails ==
    /\ cycle.pc = "open" /\ cycle' = NewCycle /\ Rare
    /\ \E seen \in SUBSET Openable : \E last \in SUBSET seen :
          /\ Cardinality(last) <= 1 /\ row' = Queued(row, Jobs("CREATE", seen))
          /\ bull' = Added(bull, Jobs("CREATE", seen \ last))
          /\ hanging' \in {hanging, hanging \cup Jobs("CREATE", last)}
    /\ UNCHANGED <<CycleVars, run>>

\* ai-trade-catch-up --apply: a process of its own opens the sessions of one user
CatchUp(u) ==
    LET mine == Jobs("CREATE", {p \in Openable : p[2] = u}) IN
    /\ mine # {} /\ Rare /\ row' = Queued(row, mine) /\ bull' = Added(bull, mine)
    /\ run' = [run EXCEPT !["AI_BOT"] = [status |-> "RUNNING", eligible |-> Created(row', "AI_BOT")]]
    /\ UNCHANGED <<CycleVars, cycle, hanging>>

Locked(kinds) == {p \in Places : p[1] \in kinds /\ trade[p].status = "LOCKED"}
Due == IF clock = "due" THEN {r \in Runs : run[r].status \in {"RUNNING", "PARTIAL_FAILURE"}} ELSE {}
Settling(runs) == [r \in Runs |-> IF r \in runs THEN [run[r] EXCEPT !.status = "SETTLING"] ELSE run[r]]
Settleable(runs) == {j \in Jobs("SETTLE", Locked(runs)) : row[j] = "QUEUED"}

enqueueDueSettlements ==
    /\ cycle.pc = "settle" /\ Goto("recover")
    /\ run' = Settling(Due) /\ bull' = Added(bull, Settleable(Due))
    /\ UNCHANGED <<CycleVars, row, hanging, events>>

SettleFails ==
    /\ cycle.pc = "settle" /\ cycle' = NewCycle /\ Rare
    /\ \E runs \in SUBSET Due : run' = Settling(runs) /\ AddSome(Settleable(runs))
    /\ UNCHANGED <<CycleVars, row>>

\* classifySettlementRecovery and enqueueSettlementRecovery: a job the queue
\* still knows is left to it, unless it failed there
Overdue ==
    {j \in Jobs("SETTLE", Locked(Runs)) :
        clock = "due" /\ row[j] # "COMPLETED" /\ bull[j].state \in {"none", "failed"}}

Recovered(jobs) ==
    /\ row' = [j \in AllJobs |-> IF j \in jobs THEN "QUEUED" ELSE row[j]]
    /\ bull' = [j \in AllJobs |-> IF j \in jobs THEN [bull[j] EXCEPT !.state = "waiting"] ELSE bull[j]]

recoverOverdueSettlementJobs ==
    /\ cycle.pc = "recover" /\ Goto("queued") /\ Recovered(Overdue)
    /\ UNCHANGED <<CycleVars, run, hanging, events>>

RecoverFails ==
    /\ cycle.pc = "recover" /\ cycle' = NewCycle /\ Rare
    /\ \E jobs \in SUBSET Overdue : Recovered(jobs)
    /\ UNCHANGED <<CycleVars, run, hanging>>

\* finalizeSessions begins with the ids and totalEligible of its sessions
recoverQueuedJobs ==
    /\ cycle.pc = "queued"
    /\ cycle' = [cycle EXCEPT !.pc = "finalize",
                    !.todo = {<<r, run[r].eligible>> : r \in
                                 {s \in Runs : run[s].status \in {"SETTLING", "PARTIAL_FAILURE"}}}]
    /\ bull' = Added(bull, {j \in AllJobs : row[j] = "QUEUED"})
    /\ UNCHANGED <<CycleVars, row, run, hanging, events>>

RecoverQueuedFails ==
    /\ cycle.pc = "queued" /\ cycle' = NewCycle /\ Rare
    /\ AddSome({j \in AllJobs : row[j] = "QUEUED"})
    /\ UNCHANGED <<CycleVars, row, run>>

\* then four counts of one session, in any order
RowsIn(r, states) == Cardinality({j \in AllJobs : j[2][1] = r /\ row[j] \in states})
TradesIn(r, states) == Cardinality({p \in Places : p[1] = r /\ trade[p].status \in states})
Pending == {"QUEUED", "RUNNING", "FAILED"}
CountOf(r) ==
    [pending |-> RowsIn(r, Pending), dead |-> RowsIn(r, {"DEAD"}),
     trades |-> TradesIn(r, {"LOCKED", "SETTLED"}), settled |-> TradesIn(r, {"SETTLED"})]

Finalizing == CHOOSE t \in cycle.todo : TRUE

Count ==
    /\ cycle.pc = "finalize" /\ cycle.todo # {}
    /\ \E name \in {n \in DOMAIN Unread : cycle.seen[n] = -1} :
          cycle' = [cycle EXCEPT !.seen[name] = CountOf(Finalizing[1])[name]]
    /\ UNCHANGED <<CycleVars, row, run, bull, hanging, events>>

\* mutant: failed jobs are not waited for, nor compared with the eligible
ConclusiveEarly(n, eligible) == n.dead = 0 /\ n.settled = n.trades

Conclusive(n, eligible) == n.pending = 0 /\ n.dead = 0 /\ n.trades = eligible /\ n.settled = n.trades

finalizeSession ==
    LET r == Finalizing[1]
        n == cycle.seen
    IN /\ cycle.pc = "finalize" /\ cycle.todo # {} /\ \A name \in DOMAIN n : n[name] # -1
       /\ run' = [run EXCEPT ![r].status =
                     IF Conclusive(n, Finalizing[2]) THEN "COMPLETED"
                     ELSE IF n.dead > 0 THEN "PARTIAL_FAILURE" ELSE @]
       /\ cycle' = [cycle EXCEPT !.todo = @ \ {Finalizing}, !.seen = Unread]
       /\ UNCHANGED <<CycleVars, row, bull, hanging, events>>

CycleEnds ==
    /\ cycle.pc = "finalize" /\ cycle.todo = {} /\ cycle' = NewCycle
    /\ UNCHANGED <<CycleVars, row, run, bull, hanging, events>>

FinalizeFails ==
    /\ cycle.pc = "finalize" /\ cycle.todo # {} /\ cycle' = NewCycle /\ Rare
    /\ UNCHANGED <<CycleVars, row, run, bull, hanging>>

CycleStep ==
    \/ openDueSessions \/ enqueueDueSettlements \/ recoverOverdueSettlementJobs
    \/ recoverQueuedJobs \/ Count \/ finalizeSession \/ CycleEnds

CycleFault == OpenFails \/ SettleFails \/ RecoverFails \/ RecoverQueuedFails \/ FinalizeFails

-----------------------------------------------------------------------------
(* Manual placements: the token, and the request that consumes it.         *)

RequestVars == <<clock, financialVars, active, worker, cycle>>

createTradeIntent(p) ==
    /\ clock = "live" /\ intent[p] = "none" /\ wallet[p[2]].available > 0
    /\ \A q \in Places : q[2] = p[2] => trade[q].status = "none"
    /\ intent' = [intent EXCEPT ![p] = "unused"]
    /\ UNCHANGED <<RequestVars, run, row, bull, hanging, call, told, events>>

CallAt(c, pc) == call' = [call EXCEPT ![c].pc = pc]

\* placeIntentTrade reads the token
placeIntentTrade(c, p) ==
    /\ call[c].pc = "idle" /\ clock = "live" /\ intent[p] # "none"
    /\ call' = [call EXCEPT ![c] = [pc |-> intent[p], place |-> p, consumed |-> FALSE,
                                    waiting |-> TRUE, count |-> 0]]
    /\ UNCHANGED <<RequestVars, run, row, bull, hanging, intent, told, events>>

\* an error, of the request or after eight seconds: the token is given back
Free(c) == intent' = IF call[c].consumed THEN [intent EXCEPT ![call[c].place] = "unused"] ELSE intent
Tell(c, answer) == told' = IF call[c].waiting THEN [told EXCEPT ![call[c].place] = answer] ELSE told
Ended == [IdleCall EXCEPT !.pc = "done"]
Ends(c) == call' = [call EXCEPT ![c] = Ended]
Refuse(c) == Free(c) /\ Tell(c, "retry") /\ Ends(c)

\* ... and consumes it, unless another request has meanwhile; a token that was
\* already used when it was read is gone on with
Consume(c) ==
    LET p == call[c].place IN
    /\ call[c].pc \in {"unused", "used"}
    /\ IF call[c].pc = "unused" /\ intent[p] = "used"
       THEN Tell(c, "used") /\ Ends(c) /\ UNCHANGED intent
       ELSE /\ intent' = [intent EXCEPT ![p] = "used"] /\ UNCHANGED told
            /\ call' = [call EXCEPT ![c].pc = "find", ![c].consumed = intent[p] = "unused"]
    /\ UNCHANGED <<RequestVars, run, row, bull, hanging, events>>

JobOf(c) == <<"CREATE", call[c].place>>

FindRow(c) ==
    /\ call[c].pc = "find"
    /\ CallAt(c, CASE row[JobOf(c)] = "none" -> "create"
                   [] row[JobOf(c)] \in {"QUEUED", "FAILED"} -> "add" [] OTHER -> "count")
    /\ UNCHANGED <<RequestVars, run, row, bull, hanging, intent, told, events>>

CreateRow(c) ==
    /\ call[c].pc = "create"
    /\ IF row[JobOf(c)] = "none"
       THEN /\ row' = [row EXCEPT ![JobOf(c)] = "QUEUED"] /\ CallAt(c, "add")
            /\ UNCHANGED <<intent, told>>
       ELSE Refuse(c) /\ UNCHANGED row
    /\ UNCHANGED <<RequestVars, run, bull, hanging, events>>

AddJob(c) ==
    /\ call[c].pc = "add" /\ bull' = Added(bull, {JobOf(c)}) /\ CallAt(c, "count")
    /\ UNCHANGED <<RequestVars, run, row, hanging, intent, told, events>>

CountRows(c) ==
    /\ call[c].pc = "count"
    /\ call' = [call EXCEPT ![c].pc = "status", ![c].count = Created(row, call[c].place[1])]
    /\ UNCHANGED <<RequestVars, run, row, bull, hanging, intent, told, events>>

SetStatus(c) ==
    /\ call[c].pc = "status" /\ Tell(c, "queued") /\ Ends(c)
    /\ run' = [run EXCEPT ![call[c].place[1]] = [status |-> "RUNNING", eligible |-> call[c].count]]
    /\ UNCHANGED <<RequestVars, row, bull, hanging, intent, events>>

\* an error before the token is known to be consumed: it is not given back
ConsumeFails(c) ==
    /\ call[c].pc \in {"unused", "used"} /\ Rare /\ Tell(c, "retry") /\ Ends(c)
    /\ intent' \in {intent, [intent EXCEPT ![call[c].place] = "used"]}
    /\ UNCHANGED <<RequestVars, run, row, bull, hanging>>

Enqueueing(c) == call[c].pc \in {"find", "create", "add", "count", "status"}

\* an error of the database or of the queue, which may still get the job
CallFails(c) ==
    /\ Enqueueing(c) /\ Rare /\ Refuse(c)
    /\ \/ UNCHANGED hanging
       \/ call[c].pc = "add" /\ hanging' = hanging \cup {JobOf(c)}
    /\ UNCHANGED <<RequestVars, run, row, bull>>

\* boundedApiOperation: the caller is told to retry, the work goes on
CallTimesOut(c) ==
    /\ Enqueueing(c) /\ call[c].waiting /\ Rare /\ Free(c) /\ Tell(c, "retry")
    /\ call' = [call EXCEPT ![c].waiting = FALSE, ![c].consumed = FALSE]
    /\ UNCHANGED <<RequestVars, run, row, bull, hanging>>

\* the server's process dies: tokens stay consumed, hanging additions are lost
WebDies ==
    /\ Rare /\ \E c \in Calls : call[c].pc \notin {"idle", "done"}
    /\ call' = [c \in Calls |-> IF call[c].pc = "idle" THEN call[c] ELSE Ended]
    /\ hanging' = {j \in hanging : j[2][1] # "MANUAL"}
    /\ UNCHANGED <<RequestVars, run, row, bull, intent, told>>

CallStep(c) ==
    \/ Consume(c) \/ FindRow(c) \/ CreateRow(c)
    \/ AddJob(c) \/ CountRows(c) \/ SetStatus(c)

CallFault(c) == ConsumeFails(c) \/ CallFails(c) \/ CallTimesOut(c)

-----------------------------------------------------------------------------
Next ==
    \/ Tick \/ \E u \in Users : Expire(u) \/ CatchUp(u)
    \/ \E j \in AllJobs : Evict(j) \/ AddArrives(j)
    \/ \E w \in Workers : WorkerStep(w) \/ WorkerFault(w)
    \/ CycleStep \/ CycleFault
    \/ \E p \in Manual : createTradeIntent(p) \/ \E c \in Calls : placeIntentTrade(c, p)
    \/ \E c \in Calls : CallStep(c) \/ CallFault(c)
    \/ WebDies

Spec == Init /\ [][Next]_vars

\* the processes are restarted and go on, Redis answers in the end
FairSpec ==
    /\ Spec /\ WF_vars(Tick) /\ WF_vars(CycleStep)
    /\ \A w \in Workers : WF_vars(WorkerStep(w))
    /\ \A c \in Calls : WF_vars(CallStep(c))
    /\ WF_vars(\E j \in AllJobs : AddArrives(j))

-----------------------------------------------------------------------------
Row == {"none", "QUEUED", "RUNNING", "COMPLETED", "FAILED", "DEAD"}
Tally == Nat \cup {-1}

\* Every variable keeps its type; no balance of the Future wallet is negative.
TypeOK ==
    /\ clock \in {"live", "due"} /\ active \subseteq Users /\ events \in Nat
    /\ run \in [Runs -> [status : {"QUEUING", "RUNNING", "SETTLING", "PARTIAL_FAILURE", "COMPLETED"},
                         eligible : Nat]]
    /\ row \in [AllJobs -> Row]
    /\ bull \in [AllJobs -> [state : {"none", "waiting", "active", "completed", "failed"},
                             made : Nat, stalls : Nat]]
    /\ hanging \subseteq AllJobs
    /\ trade \in [Places -> [status : {"none", "LOCKED", "SETTLED"}, principal : Nat, profit : Nat]]
    /\ wallet \in [Users -> [available : Nat, locked : Nat, profit : Nat]]
    /\ worker \in [Workers -> [pc : {"idle", "run", "ok", "permanent", "transient", "letter", "ack"},
                               job : AllJobs \cup {NoJob}, made : Nat, held : BOOLEAN]]
    /\ \A w \in Workers : worker[w].pc # "idle" => worker[w].job \in AllJobs
    /\ cycle \in [pc : {"open", "settle", "recover", "queued", "finalize"}, todo : SUBSET (Runs \X Nat),
                  seen : [pending : Tally, dead : Tally, trades : Tally, settled : Tally]]
    /\ intent \in [Manual -> {"none", "unused", "used"}]
    /\ call \in [Calls -> [pc : {"idle", "unused", "used", "find", "create", "add", "count", "status", "done"},
                           place : Manual \cup {NoJob}, consumed : BOOLEAN, waiting : BOOLEAN,
                           count : Nat]]
    /\ \A c \in Calls : call[c].pc \notin {"idle", "done"} => call[c].place \in Manual
    /\ told \in [Manual -> {"none", "queued", "retry", "used"}]

PlacesOf(u) == {p \in Places : p[2] = u}

\* The Future wallet is the opening balance and what its trades did to it,
\* each locked once and settled at most once, however often a job is delivered.
WalletIsTrades ==
    \A u \in Users :
        LET locked == MapThenSumSet(LAMBDA p : trade[p].principal, Locked(Runs) \cap PlacesOf(u))
            profit == MapThenSumSet(LAMBDA p : trade[p].profit,
                                    {p \in PlacesOf(u) : trade[p].status = "SETTLED"})
        IN wallet[u] = [available |-> Opening[u] - locked + profit, locked |-> locked, profit |-> profit]

Completes(r) == run[r].status # "COMPLETED" /\ run'[r].status = "COMPLETED"
SettledOf(r) == {p \in Places : p[1] = r /\ trade[p].status = "SETTLED"}
QueuedFor(r) == {p \in Places : p[1] = r /\ row[<<"CREATE", p>>] # "none"}

\* A session is COMPLETED only when as many of its trades are settled as the
\* finalization had read in totalEligible, before it took the four counts one
\* after the other: if that was everybody queued, everybody queued is settled.
CompletedIsSettled ==
    [][\A r \in Runs : Completes(r) =>
          \E t \in cycle.todo :
              /\ t[1] = r /\ Cardinality(SettledOf(r)) >= t[2]
              /\ t[2] = Cardinality(QueuedFor(r)) => QueuedFor(r) \subseteq SettledOf(r)]_vars

\* "Failed/dead jobs ... never allow COMPLETED": nobody whose creation failed for
\* good is left behind by a COMPLETED session, counted or not.
DeadNeverCompleted ==
    \A p \in Places :
        run[p[1]].status = "COMPLETED" /\ row[<<"CREATE", p>>] \in {"FAILED", "DEAD"}
            => trade[p].status = "SETTLED"

\* "does not repeat a completed job that produced no financial settlement": no
\* trade ever waits for a person because its settlement counts as done.
NoManualReview == \A p \in Locked(Runs) : row[<<"SETTLE", p>>] # "COMPLETED"

\* Every locked principal comes back, or the settlement is a dead letter.
LockedIsSettled ==
    \A p \in Places :
        trade[p].status = "LOCKED" ~> (trade[p].status = "SETTLED" \/ row[<<"SETTLE", p>>] = "DEAD")

\* A user who was told that the trade is queued gets a trade, or a dead letter
\* says why not, as long as BullMQ has not given the job up itself.
QueuedIsDecided ==
    \A p \in Manual :
        told[p] = "queued" ~>
            \/ trade[p].status # "none" \/ row[<<"CREATE", p>>] = "DEAD"
            \/ bull[<<"CREATE", p>>].state = "failed"
=============================================================================
