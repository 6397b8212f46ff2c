--------------------------- MODULE AiTradeProofs ---------------------------
(***************************************************************************)
(* Theorems about AiTrade for any number of users, workers and requests:   *)
(* the Future wallet is its opening balance and its trades, and a session  *)
(* completes only when as many are settled as its finalization counted.    *)
(***************************************************************************)
EXTENDS AiTrade, SetSums

-----------------------------------------------------------------------------
(* The sums of WalletIsTrades, over a table of trades.                     *)

Trade == [status : {"none", "LOCKED", "SETTLED"}, principal : Nat, profit : Nat]
Having(t, u, status) == {p \in PlacesOf(u) : t[p].status = status}
Principals(t, u) == SumFunctionOnSet([p \in Places |-> t[p].principal], Having(t, u, "LOCKED"))
Profits(t, u) == SumFunctionOnSet([p \in Places |-> t[p].profit], Having(t, u, "SETTLED"))

Books(t, v) ==
    \A u \in Users :
        v[u] = [available |-> Opening[u] - Principals(t, u) + Profits(t, u),
                locked |-> Principals(t, u), profit |-> Profits(t, u)]

\* The sums of the property are those sums.
LEMMA BooksAreTrades ==
    ASSUME TypeOK PROVE WalletIsTrades <=> Books(trade, wallet)
<1> USE AiTradeAssumption
<1>1. ASSUME NEW S \in SUBSET Places
      PROVE  MapThenSumSet(LAMBDA p : trade[p].principal, S)
                = SumFunctionOnSet([p \in Places |-> trade[p].principal], S)
  <2> DEFINE f == [p \in Places |-> trade[p].principal]
             Iterates(iter) == iter = [s \in SUBSET S |->
                IF s = {} THEN 0 ELSE trade[First(s)].principal + iter[Rest(s)]]
             iter == CHOOSE i : Iterates(i)
  <2>1. IsFiniteSet(S)
    BY FS_Subset
  <2>2. \A s \in SUBSET S : s # {} => f[First(s)] = trade[First(s)].principal
    BY DEF First
  <2>3. \A i : Iterates(i) <=> Adds(i, f, SUBSET S)
    BY <2>2 DEF Adds
  <2>4. \E i : Iterates(i)
    BY <2>1, <2>3, SumExists
  <2>5. Adds(iter, f, SUBSET S)
    BY <2>3, <2>4
  <2>6. MapThenSumSet(LAMBDA p : trade[p].principal, S) = iter[S]
    BY DEF MapThenSumSet, MapThenFoldSet, First, Rest
  <2> HIDE DEF iter, f
  <2>7. SumFunctionOnSet(f, S) = iter[S]
    BY <2>1, <2>5, SumOfPart
  <2> QED BY <2>6, <2>7 DEF f
<1>2. ASSUME NEW S \in SUBSET Places
      PROVE  MapThenSumSet(LAMBDA p : trade[p].profit, S)
                = SumFunctionOnSet([p \in Places |-> trade[p].profit], S)
  <2> DEFINE f == [p \in Places |-> trade[p].profit]
             Iterates(iter) == iter = [s \in SUBSET S |->
                IF s = {} THEN 0 ELSE trade[First(s)].profit + iter[Rest(s)]]
             iter == CHOOSE i : Iterates(i)
  <2>1. IsFiniteSet(S)
    BY FS_Subset
  <2>2. \A s \in SUBSET S : s # {} => f[First(s)] = trade[First(s)].profit
    BY DEF First
  <2>3. \A i : Iterates(i) <=> Adds(i, f, SUBSET S)
    BY <2>2 DEF Adds
  <2>4. \E i : Iterates(i)
    BY <2>1, <2>3, SumExists
  <2>5. Adds(iter, f, SUBSET S)
    BY <2>3, <2>4
  <2>6. MapThenSumSet(LAMBDA p : trade[p].profit, S) = iter[S]
    BY DEF MapThenSumSet, MapThenFoldSet, First, Rest
  <2> HIDE DEF iter, f
  <2>7. SumFunctionOnSet(f, S) = iter[S]
    BY <2>1, <2>5, SumOfPart
  <2> QED BY <2>6, <2>7 DEF f
<1>3. \A u \in Users :
        /\ Locked(Runs) \cap PlacesOf(u) = Having(trade, u, "LOCKED")
        /\ {p \in PlacesOf(u) : trade[p].status = "SETTLED"} = Having(trade, u, "SETTLED")
        /\ Having(trade, u, "LOCKED") \in SUBSET Places
        /\ Having(trade, u, "SETTLED") \in SUBSET Places
  BY DEF Locked, Runs, PlacesOf, Having
<1>4. \A u \in Users :
        /\ MapThenSumSet(LAMBDA p : trade[p].principal, Locked(Runs) \cap PlacesOf(u))
              = Principals(trade, u)
        /\ MapThenSumSet(LAMBDA p : trade[p].profit, {p \in PlacesOf(u) : trade[p].status = "SETTLED"})
              = Profits(trade, u)
  BY <1>1, <1>2, <1>3 DEF Principals, Profits
<1> QED BY <1>4 DEF WalletIsTrades, Books

\* The sums are numbers.
LEMMA SumsAreNumbers ==
    ASSUME NEW t \in [Places -> Trade], NEW u
    PROVE  Principals(t, u) \in Nat /\ Profits(t, u) \in Nat
<1>1. \A s : IsFiniteSet(Having(t, u, s)) /\ Having(t, u, s) \subseteq Places
  BY AiTradeAssumption, FS_Subset DEF Having, PlacesOf
<1>2. \A p \in Places : t[p].principal \in Nat /\ t[p].profit \in Nat
  BY DEF Trade
<1> QED BY <1>1, <1>2, SumNonNegative DEF Principals, Profits

\* A trade that is opened adds its principal to its owner's locked balance.
LEMMA OpeningAdds ==
    ASSUME NEW t \in [Places -> Trade], NEW p \in Places, t[p].status = "none",
           NEW n \in [Places -> Trade], n[p].status = "LOCKED",
           \A q \in Places : q # p => n[q] = t[q], NEW u \in Users
    PROVE  /\ Principals(n, u) = Principals(t, u) + (IF u = p[2] THEN n[p].principal ELSE 0)
           /\ Profits(n, u) = Profits(t, u)
<1> DEFINE L == Having(t, u, "LOCKED")
           f == [q \in Places |-> t[q].principal]
           g == [q \in Places |-> n[q].principal]
           x == n[p].principal
<1>0. n \in [Places -> Trade] /\ n[p].status = "LOCKED" /\ x \in Nat
      /\ \A q \in Places : q # p => n[q] = t[q]
  BY DEF Trade
<1>1. /\ IsFiniteSet(L) /\ L \subseteq Places /\ p \notin L
      /\ Having(n, u, "LOCKED") = IF u = p[2] THEN L \cup {p} ELSE L
  <2>1. L \subseteq Places /\ p \notin L
    BY DEF Having, PlacesOf
  <2>2. Having(n, u, "LOCKED") = IF u = p[2] THEN L \cup {p} ELSE L
    BY <1>0 DEF Having, PlacesOf
  <2> QED BY <2>1, <2>2, AiTradeAssumption, FS_Subset
<1>2. Having(n, u, "SETTLED") = Having(t, u, "SETTLED") /\ p \notin Having(t, u, "SETTLED")
      /\ IsFiniteSet(Having(t, u, "SETTLED"))
  <2>1. Having(t, u, "SETTLED") \subseteq Places
    BY DEF Having, PlacesOf
  <2>2. Having(n, u, "SETTLED") = Having(t, u, "SETTLED") /\ p \notin Having(t, u, "SETTLED")
    BY <1>0 DEF Having, PlacesOf
  <2> QED BY <2>1, <2>2, AiTradeAssumption, FS_Subset
<1>3. Profits(n, u) = Profits(t, u)
  <2>1. \A q \in Having(t, u, "SETTLED") :
           [r \in Places |-> n[r].profit][q] = [r \in Places |-> t[r].profit][q]
    BY <1>0, <1>2 DEF Having, PlacesOf
  <2> QED BY <1>2, <2>1, SumSame DEF Profits
<1>4. \A q \in L : g[q] = f[q]
  BY <1>0, <1>1
<1>5. g[p] = x /\ \A q \in Places : g[q] \in Int
  BY <1>0 DEF Trade
<1>6. Principals(t, u) = SumFunctionOnSet(f, L)
      /\ Principals(n, u) = SumFunctionOnSet(g, Having(n, u, "LOCKED"))
  BY DEF Principals
<1> HIDE DEF f, g, L
<1>7. SumFunctionOnSet(g, L) = SumFunctionOnSet(f, L)
  BY <1>1, <1>4, SumSame
<1>8. SumFunctionOnSet(g, L \cup {p}) = SumFunctionOnSet(g, L) + x
  <2>1. \A q \in L : g[q] \in Int
    BY <1>1, <1>5
  <2>2. g[p] \in Int
    BY <1>5
  <2>3. SumFunctionOnSet(g, L \cup {p}) = SumFunctionOnSet(g, L) + g[p]
    BY <1>1, <2>1, <2>2, SumAdd
  <2> QED BY <1>5, <2>3
<1>9. CASE u = p[2]
  BY <1>1, <1>3, <1>6, <1>7, <1>8, <1>9
<1>10. CASE u # p[2]
  BY <1>1, <1>3, <1>6, <1>7, <1>10, SumsAreNumbers
<1> QED BY <1>9, <1>10

\* A trade that is settled moves its principal out of the locked balance and adds its profit.
LEMMA SettlingMoves ==
    ASSUME NEW t \in [Places -> Trade], NEW p \in Places, t[p].status = "LOCKED",
           NEW n \in [Places -> Trade], n[p].status = "SETTLED",
           n[p].principal = t[p].principal, n[p].profit = t[p].profit,
           \A q \in Places : q # p => n[q] = t[q], NEW u \in Users
    PROVE  /\ Principals(n, u) = Principals(t, u) - (IF u = p[2] THEN t[p].principal ELSE 0)
           /\ Profits(n, u) = Profits(t, u) + (IF u = p[2] THEN t[p].profit ELSE 0)
<1> DEFINE L == Having(n, u, "LOCKED")
           S == Having(t, u, "SETTLED")
           f == [q \in Places |-> t[q].principal]
           g == [q \in Places |-> t[q].profit]
<1>0. n \in [Places -> Trade] /\ n[p].status = "SETTLED"
      /\ \A q \in Places : n[q].principal = t[q].principal /\ n[q].profit = t[q].profit
                           /\ (q # p => n[q].status = t[q].status)
  BY DEF Trade
<1>1. /\ IsFiniteSet(L) /\ L \subseteq Places /\ p \notin L
      /\ IsFiniteSet(S) /\ S \subseteq Places /\ p \notin S
  <2>1. L \subseteq Places /\ S \subseteq Places
    BY DEF Having, PlacesOf
  <2>2. p \notin L /\ p \notin S
    BY <1>0 DEF Having
  <2> QED BY <2>1, <2>2, AiTradeAssumption, FS_Subset
<1>2. /\ Having(t, u, "LOCKED") = IF u = p[2] THEN L \cup {p} ELSE L
      /\ Having(n, u, "SETTLED") = IF u = p[2] THEN S \cup {p} ELSE S
  BY <1>0 DEF Having, PlacesOf
<1>3. f = [q \in Places |-> n[q].principal] /\ g = [q \in Places |-> n[q].profit]
  BY <1>0
<1>4. /\ Principals(n, u) = SumFunctionOnSet(f, L)
      /\ Principals(t, u) = SumFunctionOnSet(f, Having(t, u, "LOCKED"))
      /\ Profits(n, u) = SumFunctionOnSet(g, Having(n, u, "SETTLED"))
      /\ Profits(t, u) = SumFunctionOnSet(g, S)
  BY <1>3 DEF Principals, Profits
<1>5. /\ f[p] = t[p].principal /\ g[p] = t[p].profit
      /\ \A q \in Places : f[q] \in Int /\ g[q] \in Int
  BY DEF Trade
<1> HIDE DEF f, g, L, S
<1>6. /\ SumFunctionOnSet(f, L \cup {p}) = SumFunctionOnSet(f, L) + t[p].principal
      /\ SumFunctionOnSet(g, S \cup {p}) = SumFunctionOnSet(g, S) + t[p].profit
  <2>1. (\A q \in L : f[q] \in Int) /\ (\A q \in S : g[q] \in Int)
    BY <1>1, <1>5
  <2>2. f[p] \in Int /\ g[p] \in Int
    BY <1>5
  <2>3. SumFunctionOnSet(f, L \cup {p}) = SumFunctionOnSet(f, L) + f[p]
    BY <1>1, <2>1, <2>2, SumAdd
  <2>4. SumFunctionOnSet(g, S \cup {p}) = SumFunctionOnSet(g, S) + g[p]
    BY <1>1, <2>1, <2>2, SumAdd
  <2> QED BY <1>5, <2>3, <2>4
<1>7. /\ Principals(n, u) \in Nat /\ Profits(n, u) \in Nat /\ Principals(t, u) \in Nat
      /\ Profits(t, u) \in Nat /\ t[p].principal \in Nat
  BY <1>0, SumsAreNumbers DEF Trade
<1>8. CASE u = p[2]
  <2>1. Principals(t, u) = Principals(n, u) + t[p].principal
    BY <1>2, <1>4, <1>6, <1>8
  <2>2. Profits(n, u) = Profits(t, u) + t[p].profit
    BY <1>2, <1>4, <1>6, <1>8
  <2> QED BY <1>7, <1>8, <2>1, <2>2
<1>9. CASE u # p[2]
  BY <1>2, <1>4, <1>7, <1>9
<1> QED BY <1>8, <1>9
-----------------------------------------------------------------------------
(* Types.                                                                  *)

RunRow == [status : {"QUEUING", "RUNNING", "SETTLING", "PARTIAL_FAILURE", "COMPLETED"},
           eligible : Nat]
BullJob == [state : {"none", "waiting", "active", "completed", "failed"}, made : Nat, stalls : Nat]
Bulls == [AllJobs -> BullJob]
Account == [available : Nat, locked : Nat, profit : Nat]
Slot == [pc : {"idle", "run", "ok", "permanent", "transient", "letter", "ack"},
         job : AllJobs \cup {NoJob}, made : Nat, held : BOOLEAN]
SlotsOK == /\ worker \in [Workers -> Slot]
           /\ \A w \in Workers : worker[w].pc # "idle" => worker[w].job \in AllJobs
Seen == [pending : Tally, dead : Tally, trades : Tally, settled : Tally]
Cycle == [pc : {"open", "settle", "recover", "queued", "finalize"}, todo : SUBSET (Runs \X Nat), seen : Seen]
Call == [pc : {"idle", "unused", "used", "find", "create", "add", "count", "status", "done"},
         place : Manual \cup {NoJob}, consumed : BOOLEAN, waiting : BOOLEAN, count : Nat]
CallsOK == /\ call \in [Calls -> Call]
           /\ \A c \in Calls : call[c].pc \notin {"idle", "done"} => call[c].place \in Manual
MoneyOK == trade \in [Places -> Trade] /\ wallet \in [Users -> Account]
RunsOK == run \in [Runs -> RunRow]
RowsOK == row \in [AllJobs -> Row]
BullOK == bull \in Bulls
RestOK == /\ clock \in {"live", "due"} /\ active \subseteq Users /\ events \in Nat
          /\ hanging \subseteq AllJobs
Answer == {"none", "queued", "retry", "used"}
AnswersOK == intent \in [Manual -> {"none", "unused", "used"}] /\ told \in [Manual -> Answer]
CycleOK == cycle \in Cycle

Types == /\ SlotsOK /\ CallsOK /\ MoneyOK /\ RunsOK /\ RowsOK /\ BullOK /\ RestOK /\ AnswersOK
         /\ CycleOK

\* The conjuncts of the type invariant, grouped by who writes them.
LEMMA TypesAreTypeOK == TypeOK <=> Types
BY DEF TypeOK, Types, SlotsOK, CallsOK, MoneyOK, RunsOK, RowsOK, BullOK, RestOK, AnswersOK, CycleOK,
       RunRow, BullJob, Bulls, Account, Slot, Seen, Cycle, Call, Trade, Answer

\* What a job and a place are.
LEMMA PlaceTypes ==
    ASSUME NEW p \in Places
    PROVE  /\ p[1] \in Runs /\ p[2] \in Users
           /\ <<"CREATE", p>> \in AllJobs /\ <<"SETTLE", p>> \in AllJobs
BY AiTradeAssumption DEF Runs, AllJobs

\* A job is a kind and a place.
LEMMA JobTypes ==
    ASSUME NEW j \in AllJobs
    PROVE  j[1] \in {"CREATE", "SETTLE"} /\ j[2] \in Places /\ j = <<j[1], j[2]>>
BY DEF AllJobs

\* What BullMQ does to its jobs leaves them jobs.
LEMMA BullTypes ==
    ASSUME BullOK
    PROVE  /\ \A jobs : Added(bull, jobs) \in Bulls
           /\ \A j \in AllJobs : Thrown(j) \in BullJob /\ Stalled(j) \in BullJob
           /\ NoBull \in BullJob
<1> USE DEF BullOK, Bulls, BullJob
<1>1. NoBull \in BullJob
  BY DEF NoBull
<1>2. ASSUME NEW jobs PROVE Added(bull, jobs) \in Bulls
  BY DEF Added, NoBull
<1>3. ASSUME NEW j \in AllJobs PROVE Thrown(j) \in BullJob /\ Stalled(j) \in BullJob
  <2>1. bull[j] \in BullJob
    OBVIOUS
  <2> DEFINE b == bull[j]
  <2>2. /\ b \in BullJob /\ b.made + 1 \in Nat /\ b.stalls + 1 \in Nat
        /\ Thrown(j) = [b EXCEPT !.made = b.made + 1,
                          !.state = IF b.made + 1 < MaxRetries THEN "waiting" ELSE "failed"]
        /\ Stalled(j) = [b EXCEPT !.stalls = b.stalls + 1,
                          !.state = IF b.stalls + 1 > MaxStalledCount THEN "failed" ELSE "waiting"]
    BY <2>1 DEF Thrown, Stalled
  <2> HIDE DEF b
  <2>3. Thrown(j) \in BullJob
    <3>1. CASE b.made + 1 < MaxRetries
      BY <2>2, <3>1
    <3>2. CASE ~(b.made + 1 < MaxRetries)
      BY <2>2, <3>2
    <3> QED BY <3>1, <3>2
  <2>4. Stalled(j) \in BullJob
    <3>1. CASE b.stalls + 1 > MaxStalledCount
      BY <2>2, <3>1
    <3>2. CASE ~(b.stalls + 1 > MaxStalledCount)
      BY <2>2, <3>2
    <3> QED BY <3>1, <3>2
  <2> QED BY <2>3, <2>4
<1> QED BY <1>1, <1>2, <1>3

\* A principal is at most the balance it is taken from, and a profit is not a loss.
LEMMA Amounts ==
    ASSUME NEW b \in Nat, NEW r \in Nat
    PROVE  calculatePrincipal(b) \in Nat /\ calculateProfit(b, r) \in Nat
<1>1. (b + 50) \div 100 \in Nat
  OBVIOUS
<1>2. b * r \in Nat
  OBVIOUS
<1>3. (b * r + 5000) \div 10000 \in Nat
  BY <1>2
<1> QED BY <1>1, <1>3 DEF calculatePrincipal, calculateProfit

\* The transactions leave balances that are not negative.
LEMMA CreateTypes ==
    ASSUME Types, NEW p \in Places, Creatable(p), createTradeForUser(p)
    PROVE  MoneyOK' /\ RowsOK'
<1>1. p[2] \in Users /\ <<"SETTLE", p>> \in AllJobs
  BY PlaceTypes
<1>2. CASE trade[p].status # "none"
  BY <1>2 DEF createTradeForUser, financialVars, Types, MoneyOK, RowsOK
<1>3. CASE trade[p].status = "none"
  <2> DEFINE b == wallet[p[2]].available
             x == calculatePrincipal(b)
             y == calculateProfit(b, Rate[p[2]])
  <2>1. b \in Nat /\ Rate[p[2]] \in Nat /\ wallet[p[2]] \in Account
    BY <1>1, AiTradeAssumption DEF Types, MoneyOK, Account
  <2>2. x \in Nat /\ y \in Nat /\ x <= b
    BY <1>3, <2>1, Amounts DEF Creatable
  <2>3. /\ trade' = [trade EXCEPT ![p] = [status |-> "LOCKED", principal |-> x, profit |-> y]]
        /\ wallet' = [wallet EXCEPT ![p[2]].available = @ - x, ![p[2]].locked = @ + x]
        /\ row' = [row EXCEPT ![<<"SETTLE", p>>] = "QUEUED"]
    BY <1>3 DEF createTradeForUser
  <2> HIDE DEF x, y
  <2>4. trade' \in [Places -> Trade]
    BY <2>2, <2>3 DEF Types, MoneyOK, Trade
  <2>5. b - x \in Nat /\ wallet[p[2]].locked + x \in Nat
    BY <2>1, <2>2 DEF Account
  <2>6. wallet' \in [Users -> Account]
    BY <2>1, <2>3, <2>5 DEF Types, MoneyOK, Account
  <2>7. row' \in [AllJobs -> Row]
    BY <2>3 DEF Types, RowsOK, Row
  <2> QED BY <2>4, <2>6, <2>7 DEF MoneyOK, RowsOK
<1> QED BY <1>2, <1>3

\* A settlement moves a locked principal back and adds the profit.
LEMMA SettleTypes ==
    ASSUME Types, NEW p \in Places, settleTrade(p), Settlable(p)
    PROVE  MoneyOK'
<1>1. p[2] \in Users
  BY PlaceTypes
<1>2. CASE trade[p].status = "SETTLED"
  BY <1>2 DEF settleTrade, financialVars, Types, MoneyOK
<1>3. CASE trade[p].status # "SETTLED"
  <2>1. wallet[p[2]] \in Account /\ trade[p] \in Trade
    BY <1>1 DEF Types, MoneyOK
  <2>2. /\ wallet[p[2]].available + trade[p].principal + trade[p].profit \in Nat
        /\ wallet[p[2]].locked - trade[p].principal \in Nat
        /\ wallet[p[2]].profit + trade[p].profit \in Nat
    BY <1>3, <2>1 DEF Settlable, Account, Trade
  <2>3. /\ trade' = [trade EXCEPT ![p].status = "SETTLED"]
        /\ wallet' = [wallet EXCEPT
                ![p[2]].available = @ + trade[p].principal + trade[p].profit,
                ![p[2]].locked = @ - trade[p].principal,
                ![p[2]].profit = @ + trade[p].profit]
    BY <1>3 DEF settleTrade, Settles
  <2>4. trade' \in [Places -> Trade]
    BY <2>3 DEF Types, MoneyOK, Trade
  <2>5. wallet' \in [Users -> Account]
    BY <1>1, <2>1, <2>2, <2>3 DEF Types, MoneyOK, Account
  <2> QED BY <2>4, <2>5 DEF MoneyOK
<1> QED BY <1>2, <1>3

\* Both transactions leave rows and money of their types.
LEMMA TransactTypes ==
    ASSUME Types, NEW j \in AllJobs, Possible(j), Transact(j)
    PROVE  MoneyOK' /\ RowsOK'
BY JobTypes, CreateTypes, SettleTypes DEF Transact, Possible, Types, RowsOK

\* The parts of Types that a step leaves alone.
LEMMA TypesKept ==
    ASSUME Types
    PROVE  /\ UNCHANGED worker => SlotsOK'
           /\ UNCHANGED call => CallsOK'
           /\ UNCHANGED financialVars => MoneyOK'
           /\ UNCHANGED run => RunsOK'
           /\ UNCHANGED row => RowsOK'
           /\ UNCHANGED bull => BullOK'
           /\ UNCHANGED <<clock, hanging, active, events>> => RestOK'
           /\ UNCHANGED <<intent, told>> => AnswersOK'
           /\ UNCHANGED cycle => CycleOK'
BY DEF Types, financialVars, SlotsOK, CallsOK, MoneyOK, RunsOK, RowsOK, BullOK, RestOK, AnswersOK, CycleOK

\* What moves a worker's slot keeps the slots.
LEMMA SlotTypes ==
    ASSUME Types, NEW w \in Workers
    PROVE  /\ WorkerRests(w) => SlotsOK'
           /\ \A pc \in {"ok", "permanent", "transient", "letter", "ack"} :
                 worker[w].pc # "idle" /\ WorkerAt(w, pc) => SlotsOK'
           /\ worker[w].pc # "idle" => worker[w].job \in AllJobs
<1> USE DEF Types, SlotsOK, Slot
<1>1. WorkerRests(w) => SlotsOK'
  BY DEF WorkerRests, IdleWorker
<1>2. ASSUME NEW pc \in {"ok", "permanent", "transient", "letter", "ack"}, worker[w].pc # "idle",
             WorkerAt(w, pc)
      PROVE  SlotsOK'
  BY <1>2 DEF WorkerAt
<1> QED BY <1>1, <1>2

\* A worker's undisturbed steps, one by one.
LEMMA WorkerStepTypes ==
    ASSUME Types, NEW w \in Workers, WorkerStep(w) PROVE Types'
<1> USE DEF SlotVars, requestVars
<1>1. ASSUME NEW j \in AllJobs, Take(w, j) PROVE Types'
  <2>1. BullOK'
    BY <1>1 DEF Take, Types, BullOK, Bulls, BullJob
  <2>2. RowsOK'
    BY <1>1 DEF Take, Types, RowsOK, Row
  <2>3. SlotsOK'
    <3>1. bull[j].made \in Nat
      BY DEF Types, BullOK, Bulls, BullJob
    <3> QED BY <1>1, <3>1 DEF Take, Types, SlotsOK, Slot
  <2> QED BY <1>1, <2>1, <2>2, <2>3, TypesKept DEF Take, Types, RestOK
<1>2. ASSUME Execute(w) PROVE Types'
  <2>1. worker[w].job \in AllJobs
    BY <1>2, SlotTypes DEF Execute
  <2>2. SlotsOK'
    BY <1>2, SlotTypes DEF Execute
  <2>3. MoneyOK' /\ RowsOK'
    BY <1>2, <2>1, TypesKept, TransactTypes DEF Execute
  <2> QED BY <1>2, <2>2, <2>3, TypesKept DEF Execute, Types, RestOK
<1>3. ASSUME Complete(w) PROVE Types'
  <2>1. SlotsOK'
    BY <1>3, SlotTypes DEF Complete
  <2>2. RowsOK'
    BY <1>3 DEF Complete, Types, RowsOK, Row
  <2> QED BY <1>3, <2>1, <2>2, TypesKept DEF Complete, Types, RestOK
<1>4. ASSUME Catch(w) PROVE Types'
  <2>1. SlotsOK'
    BY <1>4, SlotTypes DEF Catch, Throw
  <2>2. RowsOK'
    BY <1>4 DEF Catch, Types, RowsOK, Row
  <2>3. BullOK'
    <3>1. worker[w].job \in AllJobs
      BY <1>4, SlotTypes DEF Catch
    <3>2. bull \in Bulls /\ Thrown(worker[w].job) \in BullJob
      BY <3>1, BullTypes DEF Types, BullOK
    <3>3. UNCHANGED bull \/ bull' = [bull EXCEPT ![worker[w].job] = Thrown(worker[w].job)]
      BY <1>4 DEF Catch, Throw
    <3> QED BY <3>2, <3>3 DEF BullOK, Bulls
  <2> QED BY <1>4, <2>1, <2>2, <2>3, TypesKept DEF Catch, Types, RestOK
<1>5. ASSUME Bury(w) PROVE Types'
  <2>1. SlotsOK'
    BY <1>5, SlotTypes DEF Bury
  <2>2. RunsOK'
    BY <1>5 DEF Bury, Types, RunsOK, RunRow
  <2> QED BY <1>5, <2>1, <2>2, TypesKept DEF Bury, Types, RestOK
<1>6. ASSUME Acknowledge(w) PROVE Types'
  <2>1. SlotsOK'
    BY <1>6, SlotTypes DEF Acknowledge
  <2>2. BullOK'
    BY <1>6 DEF Acknowledge, Types, BullOK, Bulls, BullJob
  <2> QED BY <1>6, <2>1, <2>2, TypesKept DEF Acknowledge, Types, RestOK
<1> QED BY <1>1, <1>2, <1>3, <1>4, <1>5, <1>6 DEF WorkerStep

\* A worker's failures change no money but what Transact did.
LEMMA WorkerFaultTypes ==
    ASSUME Types, NEW w \in Workers, WorkerFault(w) PROVE Types'
<1> USE DEF SlotVars, requestVars
<1>0. ASSUME Rare, UNCHANGED <<clock, hanging, active>> PROVE RestOK'
  BY <1>0 DEF Rare, Types, RestOK
<1>1. ASSUME NEW j \in AllJobs, TakeFails(w, j) PROVE Types'
  <2>1. BullOK'
    <3>1. bull \in Bulls /\ Thrown(j) \in BullJob
      BY BullTypes DEF Types, BullOK
    <3> QED BY <1>1, <3>1 DEF TakeFails, BullOK, Bulls
  <2> QED BY <1>0, <1>1, <2>1, TypesKept DEF TakeFails, Types
<1>2. ASSUME ExecuteFails(w) PROVE Types'
  <2>1. worker[w].job \in AllJobs
    BY <1>2, SlotTypes DEF ExecuteFails
  <2>2. SlotsOK'
    BY <1>2, SlotTypes DEF ExecuteFails
  <2>3. MoneyOK' /\ RowsOK'
    BY <1>2, <2>1, TypesKept, TransactTypes DEF ExecuteFails
  <2> QED BY <1>0, <1>2, <2>2, <2>3, TypesKept DEF ExecuteFails, Types
<1>3. ASSUME CompleteFails(w) PROVE Types'
  <2>1. SlotsOK'
    BY <1>3, SlotTypes DEF CompleteFails
  <2> QED BY <1>0, <1>3, <2>1, TypesKept DEF CompleteFails, Types
<1>4. ASSUME CatchFails(w) PROVE Types'
  <2>1. SlotsOK'
    BY <1>4, SlotTypes DEF CatchFails, Throw
  <2>2. BullOK'
    <3>1. worker[w].job \in AllJobs
      BY <1>4, SlotTypes DEF CatchFails
    <3>2. bull \in Bulls /\ Thrown(worker[w].job) \in BullJob
      BY <3>1, BullTypes DEF Types, BullOK
    <3>3. UNCHANGED bull \/ bull' = [bull EXCEPT ![worker[w].job] = Thrown(worker[w].job)]
      BY <1>4 DEF CatchFails, Throw
    <3> QED BY <3>2, <3>3 DEF BullOK, Bulls
  <2> QED BY <1>0, <1>4, <2>1, <2>2, TypesKept DEF CatchFails, Types
<1>5. ASSUME LosesLock(w) PROVE Types'
  <2>1. SlotsOK'
    <3>1. ASSUME worker' = [worker EXCEPT ![w].held = FALSE] PROVE SlotsOK'
      BY <3>1 DEF Types, SlotsOK, Slot
    <3> QED BY <1>5, <3>1, SlotTypes DEF LosesLock
  <2>2. BullOK'
    <3>1. worker[w].job \in AllJobs
      BY <1>5, SlotTypes DEF LosesLock
    <3>2. bull \in Bulls /\ Stalled(worker[w].job) \in BullJob
      BY <3>1, BullTypes DEF Types, BullOK
    <3> QED BY <1>5, <3>2 DEF LosesLock, BullOK, Bulls
  <2> QED BY <1>0, <1>5, <2>1, <2>2, TypesKept DEF LosesLock, Types
<1> QED BY <1>1, <1>2, <1>3, <1>4, <1>5 DEF WorkerFault

\* Counts over the places of a run.
LEMMA CountTypes ==
    /\ \A r, kind : Created(r, kind) \in Nat
    /\ \A r, states : TradesIn(r, states) \in Nat /\ RowsIn(r, states) \in Nat
    /\ \A r : CountOf(r) \in Seen
<1>1. ASSUME NEW r, NEW kind PROVE Created(r, kind) \in Nat
  <2>1. {p \in Places : p[1] = kind /\ r[<<"CREATE", p>>] # "none"} \subseteq Places
    OBVIOUS
  <2> QED BY <2>1, AiTradeAssumption, FS_Subset, FS_CardinalityType DEF Created
<1>2. IsFiniteSet(AllJobs)
  <2>1. IsFiniteSet({"CREATE", "SETTLE"})
    <3>1. {"CREATE", "SETTLE"} = ({} \cup {"CREATE"}) \cup {"SETTLE"}
      OBVIOUS
    <3>2. IsFiniteSet({} \cup {"CREATE"})
      BY FS_EmptySet, FS_AddElement
    <3> QED BY <3>1, <3>2, FS_AddElement
  <2> QED BY <2>1, AiTradeAssumption, FS_Product DEF AllJobs
<1>3. ASSUME NEW r, NEW states PROVE TradesIn(r, states) \in Nat /\ RowsIn(r, states) \in Nat
  <2>1. {p \in Places : p[1] = r /\ trade[p].status \in states} \subseteq Places
    OBVIOUS
  <2>2. {j \in AllJobs : j[2][1] = r /\ row[j] \in states} \subseteq AllJobs
    OBVIOUS
  <2> QED BY <1>2, <2>1, <2>2, AiTradeAssumption, FS_Subset, FS_CardinalityType DEF TradesIn, RowsIn
<1>4. ASSUME NEW r PROVE CountOf(r) \in Seen
  BY <1>3 DEF CountOf, Seen, Tally
<1> QED BY <1>1, <1>3, <1>4

\* What opens jobs leaves rows and jobs.
LEMMA QueueTypes ==
    ASSUME Types, NEW jobs
    PROVE  /\ Queued(row, jobs) \in [AllJobs -> Row]
           /\ Recovered(jobs) => RowsOK' /\ BullOK'
           /\ jobs \subseteq AllJobs => (AddSome(jobs) => BullOK' /\ hanging' \subseteq AllJobs)
<1>1. Queued(row, jobs) \in [AllJobs -> Row]
  BY DEF Queued, Types, RowsOK, Row
<1>2. ASSUME Recovered(jobs) PROVE RowsOK' /\ BullOK'
  BY <1>2 DEF Recovered, Types, RowsOK, Row, BullOK, Bulls, BullJob
<1>3. ASSUME jobs \subseteq AllJobs, AddSome(jobs) PROVE BullOK' /\ hanging' \subseteq AllJobs
  <2>1. PICK done \in SUBSET jobs :
          /\ bull' = Added(bull, done)
          /\ hanging' \in {hanging} \cup {hanging \cup {j} : j \in jobs \ done}
    BY <1>3 DEF AddSome
  <2>2. BullOK'
    BY <2>1, BullTypes DEF Types, BullOK
  <2>3. hanging' \subseteq AllJobs
    BY <1>3, <2>1 DEF Types, RestOK
  <2> QED BY <2>2, <2>3
<1> QED BY <1>1, <1>2, <1>3

\* The clock, expired subscriptions and the queue.
LEMMA EnvironmentTypes ==
    ASSUME Types
    PROVE  /\ Tick => Types'
           /\ \A u \in Users : Expire(u) \/ CatchUp(u) => Types'
           /\ \A j \in AllJobs : Evict(j) \/ AddArrives(j) => Types'
           /\ UNCHANGED vars => Types'
<1> USE DEF SlotVars, requestVars
<1>1. ASSUME Tick PROVE Types'
  BY <1>1, TypesKept DEF Tick, Types, RestOK
<1>2. ASSUME NEW u \in Users, Expire(u) PROVE Types'
  BY <1>2, TypesKept DEF Expire, Rare, Types, RestOK
<1>3. ASSUME NEW j \in AllJobs, Evict(j) PROVE Types'
  <2>1. BullOK'
    BY <1>3, BullTypes DEF Evict, Types, BullOK, Bulls
  <2>2. RestOK'
    BY <1>3 DEF Evict, Rare, Types, RestOK
  <2> QED BY <1>3, <2>1, <2>2, TypesKept DEF Evict, Types
<1>4. ASSUME NEW j \in AllJobs, AddArrives(j) PROVE Types'
  <2>1. BullOK'
    BY <1>4, BullTypes DEF AddArrives, Types, BullOK
  <2>2. RestOK'
    BY <1>4 DEF AddArrives, Types, RestOK
  <2> QED BY <1>4, <2>1, <2>2, TypesKept DEF AddArrives, Types
<1>5. ASSUME UNCHANGED vars PROVE Types'
  BY <1>5, TypesKept DEF vars, financialVars, Types
<1>6. ASSUME NEW u \in Users, CatchUp(u) PROVE Types'
  <2> DEFINE mine == Jobs("CREATE", {p \in Openable : p[2] = u})
  <2>1. /\ row' = Queued(row, mine) /\ bull' = Added(bull, mine)
        /\ run' = [run EXCEPT !["AI_BOT"] =
                      [status |-> "RUNNING", eligible |-> Created(row', "AI_BOT")]]
    BY <1>6 DEF CatchUp
  <2> HIDE DEF mine
  <2>2. RowsOK'
    BY <2>1, QueueTypes DEF RowsOK
  <2>3. BullOK'
    BY <2>1, BullTypes DEF Types, BullOK
  <2>4. RunsOK'
    BY <2>1, CountTypes DEF Types, RunsOK, RunRow
  <2>5. RestOK'
    BY <1>6 DEF CatchUp, CycleVars, Rare, Types, RestOK
  <2> QED BY <1>6, <2>2, <2>3, <2>4, <2>5, TypesKept DEF CatchUp, CycleVars, Types
<1> QED BY <1>1, <1>2, <1>3, <1>4, <1>5, <1>6

\* A cycle that starts over has read nothing.
LEMMA CycleStarts ==
    ASSUME Types
    PROVE  /\ NewCycle \in Cycle
           /\ \A pc \in {"open", "settle", "recover", "queued", "finalize"} : Goto(pc) => CycleOK'
<1>1. Unread \in Seen
  BY DEF Unread, Seen, Tally
<1>2. NewCycle \in Cycle
  BY <1>1 DEF NewCycle, Cycle
<1>3. ASSUME NEW pc \in {"open", "settle", "recover", "queued", "finalize"}, Goto(pc) PROVE CycleOK'
  BY <1>3 DEF Goto, Types, CycleOK, Cycle
<1> QED BY <1>2, <1>3

\* The five phases of the orchestrator's cycle.
LEMMA CycleStepTypes ==
    ASSUME Types, CycleStep PROVE Types'
<1> USE DEF CycleVars, requestVars
<1>1. ASSUME openDueSessions PROVE Types'
  <2>1. RowsOK'
    BY <1>1, QueueTypes DEF openDueSessions, RowsOK
  <2>2. BullOK'
    BY <1>1, BullTypes DEF openDueSessions, BullOK, Types
  <2>3. RunsOK'
    BY <1>1, CountTypes DEF openDueSessions, Types, RunsOK, RunRow
  <2>4. CycleOK'
    BY <1>1, CycleStarts DEF openDueSessions
  <2> QED BY <1>1, <2>1, <2>2, <2>3, <2>4, TypesKept DEF openDueSessions, Types, RestOK
<1>2. ASSUME enqueueDueSettlements PROVE Types'
  <2>1. BullOK'
    BY <1>2, BullTypes DEF enqueueDueSettlements, BullOK, Types
  <2>2. RunsOK'
    BY <1>2 DEF enqueueDueSettlements, Settling, Types, RunsOK, RunRow
  <2>3. CycleOK'
    BY <1>2, CycleStarts DEF enqueueDueSettlements
  <2> QED BY <1>2, <2>1, <2>2, <2>3, TypesKept DEF enqueueDueSettlements, Types, RestOK
<1>3. ASSUME recoverOverdueSettlementJobs PROVE Types'
  <2>1. RowsOK' /\ BullOK'
    BY <1>3, QueueTypes DEF recoverOverdueSettlementJobs
  <2>2. CycleOK'
    BY <1>3, CycleStarts DEF recoverOverdueSettlementJobs
  <2> QED BY <1>3, <2>1, <2>2, TypesKept DEF recoverOverdueSettlementJobs, Types, RestOK
<1>4. ASSUME recoverQueuedJobs PROVE Types'
  <2>1. BullOK'
    BY <1>4, BullTypes DEF recoverQueuedJobs, BullOK, Types
  <2>2. CycleOK'
    <3>1. {<<r, run[r].eligible>> :
              r \in {s \in Runs : run[s].status \in {"SETTLING", "PARTIAL_FAILURE"}}}
            \in SUBSET (Runs \X Nat)
      BY DEF Types, RunsOK, RunRow
    <3> QED BY <1>4, <3>1 DEF recoverQueuedJobs, Types, CycleOK, Cycle
  <2> QED BY <1>4, <2>1, <2>2, TypesKept DEF recoverQueuedJobs, Types, RestOK
<1>5. ASSUME Count PROVE Types'
  <2>1. PICK name \in DOMAIN Unread : cycle' = [cycle EXCEPT !.seen[name] = CountOf(Finalizing[1])[name]]
    BY <1>5 DEF Count
  <2>2. CycleOK'
    <3>1. CountOf(Finalizing[1]) \in Seen
      BY CountTypes
    <3>2. DOMAIN Unread = {"pending", "dead", "trades", "settled"}
      BY DEF Unread
    <3>3. CountOf(Finalizing[1])[name] \in Tally /\ name \in {"pending", "dead", "trades", "settled"}
      BY <3>1, <3>2 DEF Seen
    <3>4. cycle \in Cycle /\ cycle.seen \in Seen
      BY DEF Types, CycleOK, Cycle
    <3>5. [cycle.seen EXCEPT ![name] = CountOf(Finalizing[1])[name]] \in Seen
      BY <3>3, <3>4 DEF Seen
    <3>6. cycle' = [cycle EXCEPT !.seen = [cycle.seen EXCEPT ![name] = CountOf(Finalizing[1])[name]]]
      BY <2>1
    <3> QED BY <3>4, <3>5, <3>6 DEF CycleOK, Cycle
  <2> QED BY <1>5, <2>2, TypesKept DEF Count, Types, RestOK
<1>6. ASSUME finalizeSession PROVE Types'
  <2>1. RunsOK'
    BY <1>6 DEF finalizeSession, Types, RunsOK, RunRow
  <2>2. CycleOK'
    <3>1. Unread \in Seen
      BY DEF Unread, Seen, Tally
    <3> QED BY <1>6, <3>1 DEF finalizeSession, Types, CycleOK, Cycle
  <2> QED BY <1>6, <2>1, <2>2, TypesKept DEF finalizeSession, Types, RestOK
<1>7. ASSUME CycleEnds PROVE Types'
  BY <1>7, CycleStarts, TypesKept DEF CycleEnds, Types, CycleOK, RestOK
<1> QED BY <1>1, <1>2, <1>3, <1>4, <1>5, <1>6, <1>7 DEF CycleStep

\* A phase that failed has done a part of its work.
LEMMA CycleFaultTypes ==
    ASSUME Types, CycleFault PROVE Types'
<1> USE DEF CycleVars, requestVars
<1>0. ASSUME cycle' = NewCycle PROVE CycleOK'
  BY <1>0, CycleStarts DEF CycleOK
<1>1. ASSUME OpenFails PROVE Types'
  <2>1. PICK seen \in SUBSET Openable : \E last \in SUBSET seen :
          /\ row' = Queued(row, Jobs("CREATE", seen))
          /\ bull' = Added(bull, Jobs("CREATE", seen \ last))
          /\ hanging' \in {hanging, hanging \cup Jobs("CREATE", last)}
    BY <1>1 DEF OpenFails
  <2>2. RowsOK'
    BY <2>1, QueueTypes DEF RowsOK
  <2>3. BullOK'
    BY <2>1, BullTypes DEF BullOK, Types
  <2>4. RestOK'
    BY <1>1, <2>1 DEF OpenFails, Rare, Openable, Jobs, AllJobs, Types, RestOK
  <2> QED BY <1>0, <1>1, <2>2, <2>3, <2>4, TypesKept DEF OpenFails, Types
<1>2. ASSUME SettleFails PROVE Types'
  <2>1. PICK runs \in SUBSET Due : run' = Settling(runs) /\ AddSome(Settleable(runs))
    BY <1>2 DEF SettleFails
  <2>2. RunsOK'
    BY <2>1 DEF Settling, Types, RunsOK, RunRow
  <2>3. Settleable(runs) \subseteq AllJobs
    BY DEF Settleable, Jobs, Locked, AllJobs
  <2>4. BullOK' /\ hanging' \subseteq AllJobs
    BY <2>1, <2>3, QueueTypes
  <2> QED BY <1>0, <1>2, <2>2, <2>4, TypesKept DEF SettleFails, Rare, Types, RestOK
<1>3. ASSUME RecoverFails PROVE Types'
  <2>1. RowsOK' /\ BullOK'
    BY <1>3, QueueTypes DEF RecoverFails
  <2> QED BY <1>0, <1>3, <2>1, TypesKept DEF RecoverFails, Rare, Types, RestOK
<1>4. ASSUME RecoverQueuedFails PROVE Types'
  <2>1. {j \in AllJobs : row[j] = "QUEUED"} \subseteq AllJobs
    OBVIOUS
  <2>2. BullOK' /\ hanging' \subseteq AllJobs
    BY <1>4, <2>1, QueueTypes DEF RecoverQueuedFails
  <2> QED BY <1>0, <1>4, <2>2, TypesKept DEF RecoverQueuedFails, Rare, Types, RestOK
<1>5. ASSUME FinalizeFails PROVE Types'
  BY <1>0, <1>5, TypesKept DEF FinalizeFails, Rare, Types, RestOK
<1> QED BY <1>1, <1>2, <1>3, <1>4, <1>5 DEF CycleFault

\* Answers, tokens and the end of a request keep their types.
LEMMA AnswerTypes ==
    ASSUME Types, NEW c \in Calls
    PROVE  /\ Free(c) => intent' \in [Manual -> {"none", "unused", "used"}]
           /\ \A answer \in Answer : Tell(c, answer) => told' \in [Manual -> Answer]
           /\ Ends(c) => CallsOK'
           /\ \A pc \in {"create", "add", "count"} :
                 call[c].pc \notin {"idle", "done"} /\ CallAt(c, pc) => CallsOK'
           /\ call[c].pc \notin {"idle", "done"} =>
                 /\ call[c].place \in Manual /\ call[c].place \in Places
                 /\ JobOf(c) \in AllJobs
<1>1. Free(c) => intent' \in [Manual -> {"none", "unused", "used"}]
  BY DEF Free, Types, AnswersOK
<1>2. \A answer \in Answer : Tell(c, answer) => told' \in [Manual -> Answer]
  BY DEF Tell, Types, AnswersOK
<1>3. Ends(c) => CallsOK'
  <2>1. Ended \in Call /\ Ended.pc = "done"
    BY DEF Ended, IdleCall, Call
  <2> QED BY <2>1 DEF Ends, Types, CallsOK
<1>4. ASSUME NEW pc \in {"create", "add", "count"}, call[c].pc \notin {"idle", "done"}, CallAt(c, pc)
      PROVE  CallsOK'
  BY <1>4 DEF CallAt, Types, CallsOK, Call
<1>5. ASSUME call[c].pc \notin {"idle", "done"}
      PROVE  call[c].place \in Manual /\ call[c].place \in Places /\ JobOf(c) \in AllJobs
  BY <1>5, PlaceTypes DEF Types, CallsOK, Manual, JobOf
<1> QED BY <1>1, <1>2, <1>3, <1>4, <1>5

\* The steps of a request that places a trade.
LEMMA CallStepTypes ==
    ASSUME Types, NEW c \in Calls, CallStep(c) PROVE Types'
<1> USE DEF RequestVars
<1>0. UNCHANGED <<clock, hanging, active, events>> => RestOK'
  BY TypesKept
<1>1. ASSUME FindRow(c) PROVE Types'
  <2>1. CallsOK'
    BY <1>1, AnswerTypes DEF FindRow
  <2> QED BY <1>1, <2>1, TypesKept DEF FindRow, Types
<1>2. ASSUME CreateRow(c) PROVE Types'
  <2>1. CallsOK'
    BY <1>2, AnswerTypes DEF CreateRow, Refuse
  <2>2. RowsOK'
    BY <1>2, TypesKept DEF CreateRow, Types, RowsOK, Row
  <2>3. AnswersOK'
    BY <1>2, AnswerTypes, TypesKept DEF CreateRow, Refuse, AnswersOK, Answer
  <2> QED BY <1>2, <2>1, <2>2, <2>3, TypesKept DEF CreateRow, Types
<1>3. ASSUME AddJob(c) PROVE Types'
  <2>1. CallsOK'
    BY <1>3, AnswerTypes DEF AddJob
  <2>2. BullOK'
    BY <1>3, BullTypes DEF AddJob, BullOK, Types
  <2> QED BY <1>3, <2>1, <2>2, TypesKept DEF AddJob, Types
<1>4. ASSUME CountRows(c) PROVE Types'
  <2>1. CallsOK'
    <3>1. Created(row, call[c].place[1]) \in Nat
      BY CountTypes
    <3> QED BY <1>4, <3>1 DEF CountRows, Types, CallsOK, Call
  <2> QED BY <1>4, <2>1, TypesKept DEF CountRows, Types
<1>5. ASSUME SetStatus(c) PROVE Types'
  <2>1. CallsOK'
    BY <1>5, AnswerTypes DEF SetStatus
  <2>2. RunsOK'
    <3>1. call[c].count \in Nat
      BY DEF Types, CallsOK, Call
    <3> QED BY <1>5, <3>1 DEF SetStatus, Types, RunsOK, RunRow
  <2>3. AnswersOK'
    BY <1>5, AnswerTypes DEF SetStatus, AnswersOK, Answer, Types
  <2> QED BY <1>5, <2>1, <2>2, <2>3, TypesKept DEF SetStatus, Types
<1>6. ASSUME Consume(c) PROVE Types'
  <2>1. call[c].place \in Manual /\ call[c] \in Call
    BY <1>6, AnswerTypes DEF Consume, Types, CallsOK
  <2>2. CallsOK'
    <3>1. ASSUME call' = [call EXCEPT ![c].pc = "find",
                             ![c].consumed = intent[call[c].place] = "unused"]
          PROVE  CallsOK'
      BY <2>1, <3>1 DEF Types, CallsOK, Call
    <3> QED BY <1>6, <3>1, AnswerTypes DEF Consume
  <2>3. AnswersOK'
    BY <1>6, <2>1, AnswerTypes DEF Consume, Types, AnswersOK, Answer
  <2> QED BY <1>6, <2>2, <2>3, TypesKept DEF Consume, Types
<1> QED BY <1>1, <1>2, <1>3, <1>4, <1>5, <1>6 DEF CallStep

\* Tokens, requests that begin, and their failures.
LEMMA RequestTypes ==
    ASSUME Types
    PROVE  /\ \A p \in Manual : createTradeIntent(p) => Types'
           /\ \A p \in Manual, c \in Calls : placeIntentTrade(c, p) => Types'
           /\ \A c \in Calls : CallFault(c) => Types'
           /\ WebDies => Types'
<1> USE DEF RequestVars
<1>0. ASSUME Rare, UNCHANGED <<clock, active>>, hanging' \subseteq AllJobs PROVE RestOK'
  BY <1>0 DEF Rare, Types, RestOK
<1>1. ASSUME NEW p \in Manual, createTradeIntent(p) PROVE Types'
  <2>1. AnswersOK'
    BY <1>1 DEF createTradeIntent, Types, AnswersOK
  <2> QED BY <1>1, <2>1, TypesKept DEF createTradeIntent, Types
<1>2. ASSUME NEW p \in Manual, NEW c \in Calls, placeIntentTrade(c, p) PROVE Types'
  <2>1. CallsOK'
    <3>1. intent[p] \in {"unused", "used"}
      BY <1>2 DEF placeIntentTrade, Types, AnswersOK
    <3> QED BY <1>2, <3>1 DEF placeIntentTrade, Types, CallsOK, Call
  <2> QED BY <1>2, <2>1, TypesKept DEF placeIntentTrade, Types
<1>3. ASSUME NEW c \in Calls, CallFails(c) PROVE Types'
  <2>1. CallsOK' /\ AnswersOK'
    BY <1>3, AnswerTypes DEF CallFails, Enqueueing, Refuse, AnswersOK, Answer
  <2>2. hanging' \subseteq AllJobs
    BY <1>3, AnswerTypes DEF CallFails, Enqueueing, Types, RestOK
  <2> QED BY <1>0, <1>3, <2>1, <2>2, TypesKept DEF CallFails, Types
<1>4. ASSUME NEW c \in Calls, CallTimesOut(c) PROVE Types'
  <2>1. CallsOK'
    BY <1>4 DEF CallTimesOut, Enqueueing, Types, CallsOK, Call
  <2>2. AnswersOK'
    BY <1>4, AnswerTypes DEF CallTimesOut, AnswersOK, Answer
  <2> QED BY <1>4, <2>1, <2>2, TypesKept DEF CallTimesOut, Rare, Types, RestOK
<1>5. ASSUME WebDies PROVE Types'
  <2>1. CallsOK'
    <3>1. Ended \in Call /\ Ended.pc = "done"
      BY DEF Ended, IdleCall, Call
    <3> QED BY <1>5, <3>1 DEF WebDies, Types, CallsOK
  <2>2. hanging' \subseteq AllJobs
    BY <1>5 DEF WebDies, Types, RestOK
  <2> QED BY <1>0, <1>5, <2>1, <2>2, TypesKept DEF WebDies, Types
<1>6. ASSUME NEW c \in Calls, ConsumeFails(c) PROVE Types'
  <2>1. CallsOK' /\ told' \in [Manual -> Answer]
    BY <1>6, AnswerTypes DEF ConsumeFails, Answer
  <2>2. intent' \in [Manual -> {"none", "unused", "used"}]
    BY <1>6 DEF ConsumeFails, Types, AnswersOK
  <2> QED BY <1>6, <2>1, <2>2, TypesKept DEF ConsumeFails, Rare, Types, RestOK, AnswersOK
<1> QED BY <1>1, <1>2, <1>3, <1>4, <1>5, <1>6 DEF CallFault

\* The initial state has its types.
LEMMA InitTypes == Init => Types
<1> SUFFICES ASSUME Init PROVE Types OBVIOUS
<1> USE DEF Init
<1>1. SlotsOK /\ CallsOK
  BY DEF SlotsOK, Slot, IdleWorker, CallsOK, Call, IdleCall
<1>2. MoneyOK
  BY AiTradeAssumption DEF MoneyOK, NoTrade, Trade, Account
<1>3. RunsOK /\ RowsOK /\ BullOK
  BY DEF RunsOK, RunRow, RowsOK, Row, BullOK, Bulls, BullJob, NoBull
<1>4. RestOK /\ AnswersOK
  BY DEF RestOK, AnswersOK, Answer
<1>5. CycleOK
  BY DEF CycleOK, Cycle, Seen, NewCycle, Unread, Tally
<1> QED BY <1>1, <1>2, <1>3, <1>4, <1>5 DEF Types

\* Every step keeps the types.
LEMMA NextTypes == Types /\ [Next]_vars => Types'
<1> SUFFICES ASSUME Types, [Next]_vars PROVE Types' OBVIOUS
<1> QED BY EnvironmentTypes, WorkerStepTypes, WorkerFaultTypes, CycleStepTypes, CycleFaultTypes,
          RequestTypes, CallStepTypes DEF Next

\* Every variable keeps its type, and no balance of the Future wallet becomes
\* negative, for any number of users, workers and requests.
THEOREM TypeCorrect == Spec => []TypeOK
<1>1. Init => TypeOK
  BY InitTypes, TypesAreTypeOK
<1>2. TypeOK /\ [Next]_vars => TypeOK'
  <2>1. TypeOK' <=> Types'
    BY DEF TypeOK, Types, SlotsOK, CallsOK, MoneyOK, RunsOK, RowsOK, BullOK, RestOK, AnswersOK, CycleOK,
           RunRow, BullJob, Bulls, Account, Slot, Seen, Cycle, Call, Trade, Answer
  <2> QED BY <2>1, NextTypes, TypesAreTypeOK
<1> QED BY <1>1, <1>2, PTL DEF Spec

-----------------------------------------------------------------------------
(* The wallet is its trades.                                               *)

\* Only the two transactions touch trades and wallets, each for one place.
FinancialStep ==
    \/ UNCHANGED financialVars
    \/ \E p \in Places : createTradeForUser(p) \/ (Settlable(p) /\ settleTrade(p))

\* Money and trades change in createTradeForUser and settleTrade alone.
LEMMA OnlyTransactions ==
    ASSUME Types, [Next]_vars PROVE FinancialStep
<1>1. ASSUME NEW w \in Workers, WorkerStep(w) \/ WorkerFault(w) PROVE FinancialStep
  <2>1. ASSUME worker[w].pc = "run", Possible(worker[w].job), Transact(worker[w].job)
        PROVE  FinancialStep
    BY <2>1, SlotTypes, JobTypes DEF Transact, Possible, FinancialStep
  <2>2. ASSUME Execute(w) \/ ExecuteFails(w) PROVE FinancialStep
    BY <2>1, <2>2 DEF Execute, ExecuteFails, FinancialStep, financialVars
  <2>3. ASSUME NEW j \in AllJobs, Take(w, j) \/ TakeFails(w, j) PROVE FinancialStep
    BY <2>3 DEF Take, TakeFails, FinancialStep
  <2>4. ASSUME Complete(w) \/ Catch(w) \/ Bury(w) \/ Acknowledge(w) \/ CompleteFails(w)
               \/ CatchFails(w) \/ LosesLock(w) PROVE FinancialStep
    BY <2>4 DEF Complete, Catch, Bury, Acknowledge, CompleteFails, CatchFails, LosesLock, FinancialStep
  <2> QED BY <1>1, <2>2, <2>3, <2>4 DEF WorkerStep, WorkerFault
<1>2. ASSUME CycleStep \/ CycleFault PROVE UNCHANGED financialVars
  BY <1>2 DEF CycleStep, CycleFault, CycleVars, openDueSessions, enqueueDueSettlements,
     recoverOverdueSettlementJobs, recoverQueuedJobs, Count, finalizeSession, CycleEnds,
     OpenFails, SettleFails, RecoverFails, RecoverQueuedFails, FinalizeFails
<1>3. ASSUME NEW c \in Calls, CallStep(c) \/ CallFault(c) PROVE UNCHANGED financialVars
  BY <1>3 DEF CallStep, CallFault, RequestVars, Consume, ConsumeFails, FindRow, CreateRow, AddJob, CountRows, SetStatus,
     CallFails, CallTimesOut
<1>4. ASSUME NEW p \in Manual, createTradeIntent(p) \/ \E c \in Calls : placeIntentTrade(c, p)
      PROVE  UNCHANGED financialVars
  BY <1>4 DEF RequestVars, createTradeIntent, placeIntentTrade
<1>5. ASSUME \/ Tick \/ WebDies \/ UNCHANGED vars \/ \E u \in Users : Expire(u) \/ CatchUp(u)
             \/ \E j \in AllJobs : Evict(j) \/ AddArrives(j)
      PROVE  UNCHANGED financialVars
  BY <1>5 DEF Tick, WebDies, RequestVars, Expire, CatchUp, CycleVars, Evict, AddArrives, vars, financialVars
<1> HIDE DEF FinancialStep
<1>6. ASSUME UNCHANGED financialVars PROVE FinancialStep
  BY <1>6 DEF FinancialStep
<1> QED BY <1>1, <1>2, <1>3, <1>4, <1>5, <1>6 DEF Next

\* Both transactions keep wallet and trades equal.
LEMMA BooksStay ==
    ASSUME Types, Books(trade, wallet), FinancialStep PROVE Books(trade', wallet')
<1>0. trade \in [Places -> Trade] /\ wallet \in [Users -> Account]
  BY DEF Types, MoneyOK
<1>1. CASE UNCHANGED financialVars
  BY <1>1 DEF financialVars
<1>2. ASSUME NEW p \in Places, createTradeForUser(p), trade[p].status = "none"
      PROVE  Books(trade', wallet')
  <2> DEFINE b == wallet[p[2]].available
             x == calculatePrincipal(b)
             y == calculateProfit(b, Rate[p[2]])
  <2>1. p[2] \in Users /\ b \in Nat /\ Rate[p[2]] \in Nat
    BY <1>0, PlaceTypes, AiTradeAssumption DEF Account
  <2>2. x \in Nat /\ y \in Nat
    BY <2>1, Amounts
  <2>3. /\ trade' = [trade EXCEPT ![p] = [status |-> "LOCKED", principal |-> x, profit |-> y]]
        /\ wallet' = [wallet EXCEPT ![p[2]].available = @ - x, ![p[2]].locked = @ + x]
    BY <1>2 DEF createTradeForUser
  <2> HIDE DEF x, y
  <2>4. ASSUME NEW u \in Users
        PROVE  wallet'[u] = [available |-> Opening[u] - Principals(trade', u) + Profits(trade', u),
                             locked |-> Principals(trade', u), profit |-> Profits(trade', u)]
    <3>1. /\ Principals(trade', u) = Principals(trade, u) + (IF u = p[2] THEN x ELSE 0)
          /\ Profits(trade', u) = Profits(trade, u)
      <4>1. /\ trade \in [Places -> Trade] /\ trade[p].status = "none"
            /\ trade' \in [Places -> Trade] /\ trade'[p].status = "LOCKED"
            /\ \A q \in Places : q # p => trade'[q] = trade[q]
            /\ trade'[p].principal = x
        BY <1>0, <1>2, <2>2, <2>3 DEF Trade
      <4> QED BY <4>1, OpeningAdds
    <3>2. /\ Principals(trade, u) \in Nat /\ Profits(trade, u) \in Nat /\ Opening[u] \in Nat
      BY <1>0, SumsAreNumbers, AiTradeAssumption
    <3>3. wallet[u] = [available |-> Opening[u] - Principals(trade, u) + Profits(trade, u),
                       locked |-> Principals(trade, u), profit |-> Profits(trade, u)]
      BY DEF Books
    <3> DEFINE l == Principals(trade, u)
               g == Profits(trade, u)
               o == Opening[u]
    <3>4. l \in Nat /\ g \in Nat /\ o \in Nat /\ Profits(trade', u) = g
          /\ wallet[u] = [available |-> o - l + g, locked |-> l, profit |-> g]
      BY <3>1, <3>2, <3>3
    <3> HIDE DEF l, g, o
    <3>5. CASE u = p[2]
      <4>1. Principals(trade', u) = l + x
        BY <3>1, <3>5 DEF l
      <4>2. wallet'[u] = [available |-> (o - l + g) - x, locked |-> l + x, profit |-> g]
        <5>1. wallet'[u] = [wallet[u] EXCEPT !.available = @ - x, !.locked = @ + x]
          BY <1>0, <2>3, <3>5
        <5> DEFINE a == o - l + g
                   v == wallet[u]
                   n == wallet'[u]
        <5>2. v = [available |-> a, locked |-> l, profit |-> g]
          BY <3>4
        <5>3. n = [v EXCEPT !.available = @ - x, !.locked = @ + x]
          BY <5>1
        <5> HIDE DEF a, v, n
        <5>4. n = [available |-> a - x, locked |-> l + x, profit |-> g]
          BY <5>2, <5>3
        <5> QED BY <5>4 DEF a, n
      <4>3. (o - l + g) - x = o - (l + x) + g
        BY <2>2, <3>4
      <4> QED BY <3>4, <4>1, <4>2, <4>3 DEF o
    <3>6. CASE u # p[2]
      <4>1. Principals(trade', u) = l
        BY <3>1, <3>2, <3>6 DEF l
      <4>2. wallet'[u] = wallet[u]
        BY <1>0, <2>3, <3>6
      <4> QED BY <3>4, <4>1, <4>2 DEF o
    <3> QED BY <3>5, <3>6
  <2> QED BY <2>4 DEF Books
<1>3. ASSUME NEW p \in Places, settleTrade(p), Settlable(p), trade[p].status # "SETTLED"
      PROVE  Books(trade', wallet')
  <2> DEFINE x == trade[p].principal
             y == trade[p].profit
  <2>1. p[2] \in Users /\ x \in Nat /\ y \in Nat /\ trade[p].status = "LOCKED"
    BY <1>0, <1>3, PlaceTypes DEF Trade, Settlable
  <2>2. /\ trade' = [trade EXCEPT ![p].status = "SETTLED"]
        /\ wallet' = [wallet EXCEPT ![p[2]].available = @ + x + y, ![p[2]].locked = @ - x,
                                    ![p[2]].profit = @ + y]
    BY <1>3 DEF settleTrade, Settles
  <2> HIDE DEF x, y
  <2>3. ASSUME NEW u \in Users
        PROVE  wallet'[u] = [available |-> Opening[u] - Principals(trade', u) + Profits(trade', u),
                             locked |-> Principals(trade', u), profit |-> Profits(trade', u)]
    <3>1. /\ Principals(trade', u) = Principals(trade, u) - (IF u = p[2] THEN x ELSE 0)
          /\ Profits(trade', u) = Profits(trade, u) + (IF u = p[2] THEN y ELSE 0)
      <4>1. /\ trade \in [Places -> Trade] /\ trade[p].status = "LOCKED"
            /\ trade' \in [Places -> Trade] /\ trade'[p].status = "SETTLED"
            /\ trade'[p].principal = trade[p].principal /\ trade'[p].profit = trade[p].profit
            /\ \A q \in Places : q # p => trade'[q] = trade[q]
        BY <1>0, <2>1, <2>2 DEF Trade
      <4> QED BY <4>1, SettlingMoves DEF x, y
    <3>2. /\ Principals(trade, u) \in Nat /\ Profits(trade, u) \in Nat /\ Opening[u] \in Nat
      BY <1>0, SumsAreNumbers, AiTradeAssumption
    <3>3. wallet[u] = [available |-> Opening[u] - Principals(trade, u) + Profits(trade, u),
                       locked |-> Principals(trade, u), profit |-> Profits(trade, u)]
      BY DEF Books
    <3> DEFINE l == Principals(trade, u)
               g == Profits(trade, u)
               o == Opening[u]
    <3>4. l \in Nat /\ g \in Nat /\ o \in Nat
          /\ wallet[u] = [available |-> o - l + g, locked |-> l, profit |-> g]
      BY <3>1, <3>2, <3>3
    <3> HIDE DEF l, g, o
    <3>5. CASE u = p[2]
      <4>1. Principals(trade', u) = l - x /\ Profits(trade', u) = g + y
        BY <3>1, <3>5 DEF l, g
      <4>2. wallet'[u] = [available |-> (o - l + g) + x + y, locked |-> l - x, profit |-> g + y]
        <5>1. wallet'[u] = [wallet[u] EXCEPT !.available = @ + x + y, !.locked = @ - x,
                                            !.profit = @ + y]
          BY <1>0, <2>2, <3>5
        <5> DEFINE a == o - l + g
                   v == wallet[u]
                   n == wallet'[u]
        <5>2. v = [available |-> a, locked |-> l, profit |-> g]
          BY <3>4
        <5>3. n = [v EXCEPT !.available = @ + x + y, !.locked = @ - x, !.profit = @ + y]
          BY <5>1
        <5> HIDE DEF a, v, n
        <5>4. n = [available |-> a + x + y, locked |-> l - x, profit |-> g + y]
          BY <5>2, <5>3
        <5> QED BY <5>4 DEF a, n
      <4>3. (o - l + g) + x + y = o - (l - x) + (g + y)
        BY <2>1, <3>4
      <4> QED BY <3>4, <4>1, <4>2, <4>3 DEF o
    <3>6. CASE u # p[2]
      <4>1. Principals(trade', u) = l /\ Profits(trade', u) = g
        BY <3>1, <3>2, <3>6 DEF l, g
      <4>2. wallet'[u] = wallet[u]
        BY <1>0, <2>2, <3>6
      <4> QED BY <3>4, <4>1, <4>2 DEF o
    <3> QED BY <3>5, <3>6
  <2> QED BY <2>3 DEF Books
<1>4. ASSUME NEW p \in Places,
             \/ createTradeForUser(p) /\ trade[p].status # "none"
             \/ settleTrade(p) /\ trade[p].status = "SETTLED"
      PROVE  UNCHANGED financialVars
  BY <1>4 DEF createTradeForUser, settleTrade, financialVars
<1> QED BY <1>1, <1>2, <1>3, <1>4 DEF FinancialStep

\* Without trades the wallet holds what it was opened with.
LEMMA InitBooks == Init => Books(trade, wallet)
<1> SUFFICES ASSUME Init, NEW u \in Users
             PROVE  wallet[u] = [available |-> Opening[u] - Principals(trade, u) + Profits(trade, u),
                                 locked |-> Principals(trade, u), profit |-> Profits(trade, u)]
  BY DEF Books
<1>1. Having(trade, u, "LOCKED") = {} /\ Having(trade, u, "SETTLED") = {}
  BY DEF Init, NoTrade, Having, PlacesOf
<1>2. Principals(trade, u) = 0 /\ Profits(trade, u) = 0
  BY <1>1, SumEmpty DEF Principals, Profits
<1>3. wallet[u] = [available |-> Opening[u], locked |-> 0, profit |-> 0] /\ Opening[u] \in Nat
  BY AiTradeAssumption DEF Init
<1>4. Opening[u] - 0 + 0 = Opening[u]
  BY <1>3
<1> QED BY <1>2, <1>3, <1>4

\* For any number of deliveries, retries and lost locks: the Future wallet is the
\* opening balance and what its trades did to it, each locked once and settled
\* at most once.
THEOREM MoneyIsExact == Spec => []WalletIsTrades
<1> DEFINE Inv == Types /\ Books(trade, wallet)
<1>1. Init => Inv
  BY InitTypes, InitBooks
<1>2. Inv /\ [Next]_vars => Inv'
  <2> SUFFICES ASSUME Inv, [Next]_vars PROVE Inv' OBVIOUS
  <2>1. Types'
    BY NextTypes
  <2>2. Books(trade', wallet')
    BY OnlyTransactions, BooksStay
  <2> QED BY <2>1, <2>2 DEF Books, Principals, Profits, Having
<1>3. Inv => WalletIsTrades
  BY BooksAreTrades, TypesAreTypeOK
<1> HIDE DEF Inv
<1> QED BY <1>1, <1>2, <1>3, PTL DEF Spec

-----------------------------------------------------------------------------
(* Completed sessions.  CompletedIsSettled is not inductive: the write that *)
(* completes a session uses four counts of earlier states.                  *)

\* Whoever has a trade, or is worked on, has a row.
TradeHasRow == \A p \in Places : trade[p].status # "none" => row[<<"CREATE", p>>] # "none"
WorkerHasRow == \A w \in Workers : worker[w].pc # "idle" => row[worker[w].job] # "none"

\* A count of settled trades that was read may be exceeded, never missed, until
\* it is used.
CountIsPast ==
    \/ cycle.seen.settled = -1
    \/ /\ cycle.pc = "finalize" /\ cycle.todo # {}
       /\ cycle.seen.settled <= TradesIn(Finalizing[1], {"SETTLED"})

SessionInv == Types /\ TradeHasRow /\ WorkerHasRow /\ CountIsPast

\* The count of settled trades is the size of a finite set.
LEMMA SettledCount ==
    ASSUME NEW r
    PROVE  /\ IsFiniteSet(SettledOf(r)) /\ SettledOf(r) \subseteq Places
           /\ TradesIn(r, {"SETTLED"}) = Cardinality(SettledOf(r))
           /\ TradesIn(r, {"SETTLED"}) \in Nat
<1>1. SettledOf(r) \subseteq Places
  BY DEF SettledOf
<1>2. TradesIn(r, {"SETTLED"}) = Cardinality(SettledOf(r))
  <2>1. {p \in Places : p[1] = r /\ trade[p].status \in {"SETTLED"}} = SettledOf(r)
    BY DEF SettledOf
  <2> QED BY <2>1 DEF TradesIn
<1> QED BY <1>1, <1>2, AiTradeAssumption, FS_Subset, FS_CardinalityType

\* What is settled stays settled.
LEMMA SettledGrows ==
    ASSUME Types, FinancialStep, NEW r
    PROVE  TradesIn(r, {"SETTLED"}) <= TradesIn(r, {"SETTLED"})'
<1>1. ASSUME NEW p \in Places, trade[p].status = "SETTLED" PROVE trade'[p].status = "SETTLED"
  <2>0. trade \in [Places -> Trade]
    BY DEF Types, MoneyOK
  <2>1. CASE UNCHANGED financialVars
    BY <1>1, <2>1 DEF financialVars
  <2>2. ASSUME NEW q \in Places, createTradeForUser(q) PROVE trade'[p].status = "SETTLED"
    BY <1>1, <2>0, <2>2 DEF createTradeForUser, financialVars
  <2>3. ASSUME NEW q \in Places, settleTrade(q) PROVE trade'[p].status = "SETTLED"
    <3>1. CASE trade[q].status = "SETTLED"
      BY <1>1, <2>3, <3>1 DEF settleTrade, financialVars
    <3>2. CASE trade[q].status # "SETTLED"
      <4>1. trade' = [trade EXCEPT ![q].status = "SETTLED"]
        BY <2>3, <3>2 DEF settleTrade, Settles
      <4> QED BY <1>1, <2>0, <4>1 DEF Trade
    <3> QED BY <3>1, <3>2
  <2> QED BY <2>1, <2>2, <2>3 DEF FinancialStep
<1>2. SettledOf(r) \subseteq SettledOf(r)' /\ SettledOf(r)' \subseteq Places
  BY <1>1 DEF SettledOf
<1>3. TradesIn(r, {"SETTLED"})' = Cardinality(SettledOf(r)')
  <2>1. {p \in Places : p[1] = r /\ trade'[p].status \in {"SETTLED"}} = SettledOf(r)'
    BY DEF SettledOf
  <2> QED BY <2>1 DEF TradesIn
<1>4. IsFiniteSet(SettledOf(r)')
  BY <1>2, AiTradeAssumption, FS_Subset
<1>5. Cardinality(SettledOf(r)) <= Cardinality(SettledOf(r)')
  BY <1>2, <1>4, FS_Subset
<1> QED BY <1>3, <1>5, SettledCount

\* A row is never taken back.
LEMMA RowsStay ==
    ASSUME Types, [Next]_vars, NEW j \in AllJobs, row[j] # "none" PROVE row'[j] # "none"
<1>0. row \in [AllJobs -> Row]
  BY DEF Types, RowsOK
<1>1. ASSUME UNCHANGED row PROVE row'[j] # "none"
  BY <1>1
<1>2. ASSUME NEW k, NEW status \in {"QUEUED", "RUNNING", "COMPLETED", "FAILED", "DEAD"},
             row' = [row EXCEPT ![k] = status] PROVE row'[j] # "none"
  BY <1>0, <1>2
<1>3. ASSUME NEW w \in Workers, WorkerStep(w) \/ WorkerFault(w) PROVE row'[j] # "none"
  <2>1. ASSUME NEW k \in AllJobs, Transact(k) PROVE row'[j] # "none"
    BY <1>1, <1>2, <2>1 DEF Transact, createTradeForUser
  <2>2. ASSUME Execute(w) \/ ExecuteFails(w) PROVE row'[j] # "none"
    BY <1>1, <2>1, <2>2, SlotTypes DEF Execute, ExecuteFails
  <2>3. ASSUME NEW k \in AllJobs, Take(w, k) \/ TakeFails(w, k) PROVE row'[j] # "none"
    BY <1>1, <1>2, <2>3 DEF Take, TakeFails
  <2>4. ASSUME Complete(w) \/ Catch(w) PROVE row'[j] # "none"
    BY <1>2, <2>4 DEF Complete, Catch
  <2>5. ASSUME Bury(w) \/ Acknowledge(w) \/ CompleteFails(w) \/ CatchFails(w) \/ LosesLock(w)
        PROVE  UNCHANGED row
    BY <2>5 DEF Bury, Acknowledge, CompleteFails, CatchFails, LosesLock
  <2> QED BY <1>1, <1>3, <2>2, <2>3, <2>4, <2>5 DEF WorkerStep, WorkerFault
<1>4. ASSUME CycleStep \/ CycleFault PROVE row'[j] # "none"
  <2>1. ASSUME NEW jobs, row' = Queued(row, jobs) PROVE row'[j] # "none"
    BY <2>1 DEF Queued
  <2>2. ASSUME NEW jobs, Recovered(jobs) PROVE row'[j] # "none"
    BY <2>2 DEF Recovered
  <2>3. ASSUME openDueSessions \/ OpenFails PROVE row'[j] # "none"
    BY <2>1, <2>3 DEF openDueSessions, OpenFails
  <2>4. ASSUME recoverOverdueSettlementJobs \/ RecoverFails PROVE row'[j] # "none"
    BY <2>2, <2>4 DEF recoverOverdueSettlementJobs, RecoverFails
  <2>5. ASSUME \/ enqueueDueSettlements \/ recoverQueuedJobs \/ Count \/ finalizeSession \/ CycleEnds
               \/ SettleFails \/ RecoverQueuedFails \/ FinalizeFails
        PROVE  UNCHANGED row
    BY <2>5 DEF enqueueDueSettlements, recoverQueuedJobs, Count, finalizeSession, CycleEnds,
       SettleFails, RecoverQueuedFails, FinalizeFails
  <2> QED BY <1>1, <1>4, <2>3, <2>4, <2>5 DEF CycleStep, CycleFault
<1>5. ASSUME NEW c \in Calls, CallStep(c) \/ CallFault(c) PROVE row'[j] # "none"
  <2>1. ASSUME CreateRow(c) PROVE row'[j] # "none"
    BY <1>1, <1>2, <2>1 DEF CreateRow
  <2>2. ASSUME \/ Consume(c) \/ FindRow(c) \/ AddJob(c) \/ CountRows(c) \/ SetStatus(c)
               \/ ConsumeFails(c) \/ CallFails(c) \/ CallTimesOut(c)
        PROVE  UNCHANGED row
    BY <2>2 DEF Consume, ConsumeFails, FindRow, AddJob, CountRows, SetStatus, CallFails, CallTimesOut
  <2> QED BY <1>1, <1>5, <2>1, <2>2 DEF CallStep, CallFault
<1>6. ASSUME \/ Tick \/ WebDies \/ UNCHANGED vars \/ \E u \in Users : Expire(u)
             \/ \E k \in AllJobs : Evict(k) \/ AddArrives(k)
             \/ \E p \in Manual : createTradeIntent(p) \/ \E c \in Calls : placeIntentTrade(c, p)
      PROVE  UNCHANGED row
  BY <1>6 DEF Tick, WebDies, Expire, Evict, AddArrives, createTradeIntent, placeIntentTrade, vars
<1>7. ASSUME NEW u \in Users, CatchUp(u) PROVE row'[j] # "none"
  BY <1>7 DEF CatchUp, Queued
<1> QED BY <1>1, <1>3, <1>4, <1>5, <1>6, <1>7 DEF Next

\* A slot that works after a step worked before on the same job, or has just
\* marked its row.
LEMMA SlotsStay ==
    ASSUME Types, [Next]_vars, NEW w \in Workers, worker'[w].pc # "idle"
    PROVE  \/ worker[w].pc # "idle" /\ worker'[w].job = worker[w].job
           \/ row'[worker'[w].job] # "none"
<1> DEFINE Goal == \/ worker[w].pc # "idle" /\ worker'[w].job = worker[w].job
                   \/ row'[worker'[w].job] # "none"
<1>0. worker \in [Workers -> Slot] /\ row \in [AllJobs -> Row]
  BY DEF Types, SlotsOK, RowsOK
<1>1. ASSUME UNCHANGED worker PROVE Goal
  BY <1>1
<1>2. ASSUME NEW v \in Workers, NEW pc, WorkerAt(v, pc), worker[v].pc # "idle" PROVE Goal
  BY <1>0, <1>2 DEF WorkerAt, Slot
<1>3. ASSUME NEW v \in Workers, WorkerRests(v) PROVE Goal
  BY <1>0, <1>3 DEF WorkerRests, IdleWorker, Slot
<1>4. ASSUME NEW v \in Workers, WorkerStep(v) \/ WorkerFault(v) PROVE Goal
  <2>1. ASSUME NEW j \in AllJobs, Take(v, j) PROVE Goal
    BY <1>0, <2>1 DEF Take, Slot
  <2>2. ASSUME NEW j \in AllJobs, TakeFails(v, j) PROVE Goal
    BY <1>1, <2>2 DEF TakeFails
  <2>3. ASSUME LosesLock(v) PROVE Goal
    <3>1. ASSUME worker' = [worker EXCEPT ![v].held = FALSE] PROVE Goal
      BY <1>0, <3>1 DEF Slot
    <3> QED BY <1>3, <2>3, <3>1 DEF LosesLock
  <2>4. ASSUME Execute(v) \/ ExecuteFails(v) PROVE Goal
    BY <1>2, <2>4 DEF Execute, ExecuteFails
  <2>5. ASSUME Complete(v) \/ CompleteFails(v) PROVE Goal
    BY <1>2, <2>5 DEF Complete, CompleteFails
  <2>6. ASSUME Bury(v) \/ Acknowledge(v) PROVE Goal
    BY <1>2, <1>3, <2>6 DEF Bury, Acknowledge
  <2>7. ASSUME Catch(v) \/ CatchFails(v) PROVE Goal
    BY <1>2, <1>3, <2>7 DEF Catch, CatchFails, Throw
  <2> HIDE DEF Goal
  <2> QED BY <1>4, <2>1, <2>2, <2>3, <2>4, <2>5, <2>6, <2>7 DEF WorkerStep, WorkerFault
<1>5. ASSUME CycleStep \/ CycleFault PROVE UNCHANGED worker
  BY <1>5 DEF CycleStep, CycleFault, CycleVars, openDueSessions, enqueueDueSettlements,
     recoverOverdueSettlementJobs, recoverQueuedJobs, Count, finalizeSession, CycleEnds,
     OpenFails, SettleFails, RecoverFails, RecoverQueuedFails, FinalizeFails
<1>6. ASSUME NEW c \in Calls, CallStep(c) \/ CallFault(c) PROVE UNCHANGED worker
  BY <1>6 DEF CallStep, CallFault, RequestVars, Consume, ConsumeFails, FindRow, CreateRow, AddJob, CountRows, SetStatus,
     CallFails, CallTimesOut
<1>7. ASSUME \/ Tick \/ WebDies \/ UNCHANGED vars \/ \E u \in Users : Expire(u) \/ CatchUp(u)
             \/ \E j \in AllJobs : Evict(j) \/ AddArrives(j)
             \/ \E p \in Manual : createTradeIntent(p) \/ \E c \in Calls : placeIntentTrade(c, p)
      PROVE  UNCHANGED worker
  BY <1>7 DEF Tick, WebDies, RequestVars, Expire, CatchUp, CycleVars, Evict, AddArrives, createTradeIntent,
     placeIntentTrade, vars
<1> HIDE DEF Goal
<1>8. Goal
  BY <1>1, <1>4, <1>5, <1>6, <1>7 DEF Next
<1> QED BY <1>8 DEF Goal

\* A trade begins in the hands of a worker that runs its creation.
LEMMA TradesHaveWorkers ==
    ASSUME Types, [Next]_vars, NEW p \in Places, trade[p].status = "none", trade'[p].status # "none"
    PROVE  \E w \in Workers : worker[w].pc # "idle" /\ worker[w].job = <<"CREATE", p>>
<1>0. trade \in [Places -> Trade]
  BY DEF Types, MoneyOK
<1>1. ~UNCHANGED financialVars
  BY DEF financialVars
<1>2. ASSUME NEW j \in AllJobs, Possible(j), Transact(j) PROVE j = <<"CREATE", p>>
  <2>1. j[2] \in Places /\ j = <<j[1], j[2]>>
    BY JobTypes
  <2>2. CASE j[1] = "CREATE"
    <3>1. createTradeForUser(j[2]) /\ trade[j[2]].status = "none"
      BY <1>1, <1>2, <2>2 DEF Transact, createTradeForUser
    <3>2. \A q \in Places : q # j[2] => trade'[q] = trade[q]
      BY <1>0, <3>1 DEF createTradeForUser
    <3> QED BY <2>1, <2>2, <3>2
  <2>3. CASE j[1] # "CREATE"
    <3>1. trade' = [trade EXCEPT ![j[2]].status = "SETTLED"] /\ trade[j[2]].status # "none"
      BY <1>1, <1>2, <2>3 DEF Transact, Possible, settleTrade, Settles, Settlable
    <3>2. p # j[2]
      BY <3>1
    <3> QED BY <1>0, <2>1, <3>1, <3>2
  <2> QED BY <2>2, <2>3
<1>3. ASSUME NEW w \in Workers, Execute(w) \/ ExecuteFails(w)
      PROVE  worker[w].pc # "idle" /\ worker[w].job = <<"CREATE", p>>
  <2>1. worker[w].pc = "run" /\ Possible(worker[w].job) /\ Transact(worker[w].job)
    BY <1>1, <1>3 DEF Execute, ExecuteFails, financialVars
  <2>2. worker[w].job \in AllJobs
    BY <2>1, SlotTypes
  <2> QED BY <1>2, <2>1, <2>2
<1>4. ASSUME NEW w \in Workers, WorkerStep(w) \/ WorkerFault(w), ~Execute(w), ~ExecuteFails(w)
      PROVE  UNCHANGED financialVars
  BY <1>4 DEF WorkerStep, WorkerFault, Take, TakeFails, Complete, Catch, Bury, Acknowledge,
     CompleteFails, CatchFails, LosesLock
<1>5. ASSUME CycleStep \/ CycleFault PROVE UNCHANGED financialVars
  BY <1>5 DEF CycleStep, CycleFault, CycleVars, openDueSessions, enqueueDueSettlements,
     recoverOverdueSettlementJobs, recoverQueuedJobs, Count, finalizeSession, CycleEnds,
     OpenFails, SettleFails, RecoverFails, RecoverQueuedFails, FinalizeFails
<1>6. ASSUME NEW c \in Calls, CallStep(c) \/ CallFault(c) PROVE UNCHANGED financialVars
  BY <1>6 DEF CallStep, CallFault, RequestVars, Consume, ConsumeFails, FindRow, CreateRow, AddJob, CountRows, SetStatus,
     CallFails, CallTimesOut
<1>7. ASSUME \/ Tick \/ WebDies \/ UNCHANGED vars \/ \E u \in Users : Expire(u) \/ CatchUp(u)
             \/ \E j \in AllJobs : Evict(j) \/ AddArrives(j)
             \/ \E q \in Manual : createTradeIntent(q) \/ \E c \in Calls : placeIntentTrade(c, q)
      PROVE  UNCHANGED financialVars
  BY <1>7 DEF Tick, WebDies, RequestVars, Expire, CatchUp, CycleVars, Evict, AddArrives, createTradeIntent,
     placeIntentTrade, vars, financialVars
<1> QED BY <1>1, <1>3, <1>4, <1>5, <1>6, <1>7 DEF Next

\* The session that finalizeSession is at is one that recoverQueuedJobs found.
LEMMA FinalizingIsTodo == cycle.todo # {} => Finalizing \in cycle.todo
BY DEF Finalizing

\* A run becomes COMPLETED by finalizeSession alone, from counts that agree with
\* the number it was found with.
LEMMA OnlyFinalizing ==
    ASSUME Types, [Next]_vars, NEW r \in Runs, Completes(r)
    PROVE  /\ finalizeSession /\ r = Finalizing[1]
           /\ cycle.seen.settled # -1 /\ cycle.seen.settled = Finalizing[2]
<1> USE DEF Completes
<1>0. run \in [Runs -> RunRow]
  BY DEF Types, RunsOK
<1>1. ~UNCHANGED run
  OBVIOUS
<1>2. ASSUME NEW k, NEW n, run' = [run EXCEPT ![k] = [status |-> "RUNNING", eligible |-> n]]
      PROVE  FALSE
  BY <1>0, <1>2
<1>3. \A w \in Workers : ~(WorkerStep(w) \/ WorkerFault(w))
  <2> SUFFICES ASSUME NEW w \in Workers, WorkerStep(w) \/ WorkerFault(w) PROVE FALSE
    OBVIOUS
  <2>1. ~Bury(w)
    BY <1>0 DEF Bury, RunRow
  <2> QED BY <1>1, <2>1 DEF WorkerStep, WorkerFault, Take, TakeFails, Execute, ExecuteFails,
       Complete, Catch, Acknowledge, CompleteFails, CatchFails, LosesLock
<1>4. \A c \in Calls : ~(CallStep(c) \/ CallFault(c))
  <2> SUFFICES ASSUME NEW c \in Calls, CallStep(c) \/ CallFault(c) PROVE FALSE
    OBVIOUS
  <2>1. ~SetStatus(c)
    BY <1>2 DEF SetStatus
  <2> QED BY <1>1, <2>1 DEF CallStep, CallFault, Consume, ConsumeFails, FindRow, CreateRow, AddJob,
       CountRows, CallFails, CallTimesOut
<1>5. ~(\/ Tick \/ WebDies \/ UNCHANGED vars \/ \E u \in Users : Expire(u) \/ CatchUp(u)
        \/ \E j \in AllJobs : Evict(j) \/ AddArrives(j)
        \/ \E p \in Manual : createTradeIntent(p) \/ \E c \in Calls : placeIntentTrade(c, p))
  <2>1. \A u \in Users : ~CatchUp(u)
    BY <1>2 DEF CatchUp
  <2> QED BY <1>1, <2>1 DEF Tick, WebDies, Expire, Evict, AddArrives, createTradeIntent,
       placeIntentTrade, vars
<1>6. ~(openDueSessions \/ enqueueDueSettlements \/ SettleFails)
  <2>1. ~openDueSessions
    BY <1>1, <1>2 DEF openDueSessions
  <2>2. \A runs : run' # Settling(runs)
    BY <1>0 DEF Settling, RunRow
  <2> QED BY <2>1, <2>2 DEF enqueueDueSettlements, SettleFails
<1>7. ~(\/ recoverOverdueSettlementJobs \/ recoverQueuedJobs \/ Count \/ CycleEnds
        \/ OpenFails \/ RecoverFails \/ RecoverQueuedFails \/ FinalizeFails)
  BY <1>1 DEF recoverOverdueSettlementJobs, recoverQueuedJobs, Count, CycleEnds, OpenFails,
     RecoverFails, RecoverQueuedFails, FinalizeFails
<1>8. finalizeSession
  BY <1>3, <1>4, <1>5, <1>6, <1>7 DEF Next, CycleStep, CycleFault
<1>9. /\ \A name \in DOMAIN cycle.seen : cycle.seen[name] # -1
      /\ run' = [run EXCEPT ![Finalizing[1]].status =
                    IF Conclusive(cycle.seen, Finalizing[2]) THEN "COMPLETED"
                    ELSE IF cycle.seen.dead > 0 THEN "PARTIAL_FAILURE" ELSE @]
  BY <1>8 DEF finalizeSession
<1>10. r = Finalizing[1] /\ Conclusive(cycle.seen, Finalizing[2])
  BY <1>0, <1>9 DEF RunRow
<1>11. cycle.seen.settled # -1
  BY <1>9 DEF Types, CycleOK, Cycle, Seen
<1> QED BY <1>8, <1>10, <1>11 DEF Conclusive

\* A count that is kept was read in the cycle's last phase, of the session it is on.
LEMMA CountsStay ==
    ASSUME Types, [Next]_vars, CountIsPast PROVE CountIsPast'
<1> DEFINE n == cycle.seen.settled
<1>0. cycle \in Cycle /\ cycle.seen \in Seen
  BY DEF Types, CycleOK, Cycle
<1>1. ASSUME cycle'.pc = cycle.pc, cycle'.todo = cycle.todo, cycle'.seen.settled = n PROVE CountIsPast'
  <2>1. PICK r : r = Finalizing[1] /\ r = Finalizing[1]'
    BY <1>1 DEF Finalizing
  <2>2. TradesIn(r, {"SETTLED"}) <= TradesIn(r, {"SETTLED"})'
    BY OnlyTransactions, SettledGrows
  <2>3. TradesIn(Finalizing[1], {"SETTLED"}) = TradesIn(r, {"SETTLED"})
        /\ TradesIn(Finalizing[1], {"SETTLED"})' = TradesIn(r, {"SETTLED"})'
    BY <2>1 DEF TradesIn
  <2>4. TradesIn(r, {"SETTLED"}) \in Nat /\ TradesIn(r, {"SETTLED"})' \in Nat /\ n \in Tally
    <3>1. TradesIn(r, {"SETTLED"})' \in Nat
      <4>1. {p \in Places : p[1] = r /\ trade'[p].status \in {"SETTLED"}} \subseteq Places
        OBVIOUS
      <4> QED BY <4>1, AiTradeAssumption, FS_Subset, FS_CardinalityType DEF TradesIn
    <3> QED BY <1>0, <3>1, SettledCount DEF Seen
  <2>5. CASE n = -1
    BY <1>1, <2>5 DEF CountIsPast
  <2>6. CASE n # -1
    <3>1. cycle.pc = "finalize" /\ cycle.todo # {} /\ n <= TradesIn(r, {"SETTLED"})
      BY <2>3, <2>6 DEF CountIsPast
    <3>2. n <= TradesIn(Finalizing[1], {"SETTLED"})'
      <4> HIDE DEF n
      <4> QED BY <2>2, <2>3, <2>4, <3>1 DEF Tally
    <3> QED BY <1>1, <3>1, <3>2 DEF CountIsPast
  <2> QED BY <2>5, <2>6
<1>2. ASSUME cycle'.seen.settled = -1 PROVE CountIsPast'
  BY <1>2 DEF CountIsPast
<1>3. cycle.pc # "finalize" => n = -1
  BY DEF CountIsPast
<1>4. NewCycle.seen.settled = -1 /\ Unread.settled = -1
  BY DEF NewCycle, Unread
<1>5. ASSUME CycleStep \/ CycleFault PROVE CountIsPast'
  <2>1. ASSUME NEW pc, Goto(pc), cycle.pc # "finalize" PROVE cycle'.seen.settled = -1
    BY <1>0, <1>3, <2>1 DEF Goto, Cycle
  <2>2. ASSUME openDueSessions \/ enqueueDueSettlements \/ recoverOverdueSettlementJobs
        PROVE  CountIsPast'
    BY <1>2, <2>1, <2>2 DEF openDueSessions, enqueueDueSettlements, recoverOverdueSettlementJobs
  <2>3. ASSUME recoverQueuedJobs PROVE cycle'.seen.settled = -1
    BY <1>0, <1>3, <2>3 DEF recoverQueuedJobs, Cycle
  <2>4. ASSUME Count PROVE CountIsPast'
    <3>1. PICK name \in DOMAIN Unread : cycle' = [cycle EXCEPT !.seen[name] = CountOf(Finalizing[1])[name]]
      BY <2>4 DEF Count
    <3>2. CASE name # "settled"
      BY <1>0, <1>1, <3>1, <3>2 DEF Cycle, Seen
    <3>3. CASE name = "settled"
      <4>1. /\ cycle'.pc = cycle.pc /\ cycle'.todo = cycle.todo
            /\ cycle'.seen.settled = CountOf(Finalizing[1]).settled
        BY <1>0, <3>1, <3>3 DEF Cycle, Seen
      <4>2. CountOf(Finalizing[1]).settled = TradesIn(Finalizing[1], {"SETTLED"})
        BY DEF CountOf
      <4>3. Finalizing' = Finalizing /\ trade' = trade
        BY <2>4, <4>1 DEF Finalizing, Count, CycleVars, financialVars
      <4>4. TradesIn(Finalizing[1], {"SETTLED"})' = TradesIn(Finalizing[1], {"SETTLED"})
        BY <4>3 DEF TradesIn
      <4>5. TradesIn(Finalizing[1], {"SETTLED"}) \in Nat
        BY SettledCount
      <4>6. cycle.pc = "finalize" /\ cycle.todo # {}
        BY <2>4 DEF Count
      <4> QED BY <4>1, <4>2, <4>4, <4>5, <4>6 DEF CountIsPast
    <3> QED BY <3>2, <3>3
  <2>5. ASSUME finalizeSession PROVE cycle'.seen.settled = -1
    BY <1>0, <1>4, <2>5 DEF finalizeSession, Cycle
  <2>6. ASSUME CycleEnds \/ CycleFault PROVE cycle'.seen.settled = -1
    BY <1>4, <2>6 DEF CycleEnds, CycleFault, OpenFails, SettleFails, RecoverFails, RecoverQueuedFails,
       FinalizeFails
  <2> QED BY <1>2, <1>5, <2>2, <2>3, <2>4, <2>5, <2>6 DEF CycleStep
<1>6. ASSUME NEW w \in Workers, WorkerStep(w) \/ WorkerFault(w) PROVE UNCHANGED cycle
  BY <1>6 DEF WorkerStep, WorkerFault, SlotVars, Take, TakeFails, Execute, ExecuteFails, Complete, Catch,
     Bury, Acknowledge, CompleteFails, CatchFails, LosesLock
<1>7. ASSUME NEW c \in Calls, CallStep(c) \/ CallFault(c) PROVE UNCHANGED cycle
  BY <1>7 DEF CallStep, CallFault, RequestVars, Consume, ConsumeFails, FindRow, CreateRow, AddJob, CountRows, SetStatus,
     CallFails, CallTimesOut
<1>8. ASSUME \/ Tick \/ WebDies \/ UNCHANGED vars \/ \E u \in Users : Expire(u) \/ CatchUp(u)
             \/ \E j \in AllJobs : Evict(j) \/ AddArrives(j)
             \/ \E p \in Manual : createTradeIntent(p) \/ \E c \in Calls : placeIntentTrade(c, p)
      PROVE  UNCHANGED cycle
  BY <1>8 DEF Tick, WebDies, RequestVars, Expire, CatchUp, CycleVars, Evict, AddArrives, createTradeIntent,
     placeIntentTrade, vars
<1>9. ASSUME UNCHANGED cycle PROVE CountIsPast'
  BY <1>1, <1>9
<1> QED BY <1>5, <1>6, <1>7, <1>8, <1>9 DEF Next

\* No session is counted or completed at the start.
LEMMA InitSessionInv == Init => SessionInv
<1> SUFFICES ASSUME Init PROVE SessionInv OBVIOUS
<1>1. Types
  BY InitTypes
<1>2. TradeHasRow /\ WorkerHasRow
  BY DEF Init, TradeHasRow, WorkerHasRow, NoTrade, IdleWorker
<1>3. CountIsPast
  BY DEF Init, CountIsPast, NewCycle, Unread
<1> QED BY <1>1, <1>2, <1>3 DEF SessionInv

\* Every step keeps the invariant of the sessions.
LEMMA NextSessionInv == SessionInv /\ [Next]_vars => SessionInv'
<1> SUFFICES ASSUME SessionInv, [Next]_vars PROVE SessionInv' OBVIOUS
<1> USE DEF SessionInv
<1>1. Types'
  BY NextTypes
<1>2. TradeHasRow'
  <2> SUFFICES ASSUME NEW p \in Places, trade'[p].status # "none" PROVE row'[<<"CREATE", p>>] # "none"
    BY DEF TradeHasRow
  <2>1. <<"CREATE", p>> \in AllJobs
    BY PlaceTypes
  <2>2. row[<<"CREATE", p>>] # "none"
    <3>1. CASE trade[p].status # "none"
      BY <3>1 DEF TradeHasRow
    <3>2. CASE trade[p].status = "none"
      BY <3>2, TradesHaveWorkers DEF WorkerHasRow
    <3> QED BY <3>1, <3>2
  <2> QED BY <2>1, <2>2, RowsStay
<1>3. WorkerHasRow'
  <2> SUFFICES ASSUME NEW w \in Workers, worker'[w].pc # "idle" PROVE row'[worker'[w].job] # "none"
    BY DEF WorkerHasRow
  <2>1. ASSUME worker[w].pc # "idle", worker'[w].job = worker[w].job PROVE row'[worker'[w].job] # "none"
    BY <2>1, SlotTypes, RowsStay DEF WorkerHasRow
  <2> QED BY <2>1, SlotsStay
<1>4. CountIsPast'
  BY CountsStay
<1> QED BY <1>1, <1>2, <1>3, <1>4

\* The step that completes a session finds as many trades settled as it has
\* counted; each of them has its row, so if the rows are no more they are settled.
LEMMA CompletingIsSettled ==
    ASSUME SessionInv, [Next]_vars, NEW r \in Runs, Completes(r)
    PROVE  \E t \in cycle.todo :
              /\ t[1] = r /\ Cardinality(SettledOf(r)) >= t[2]
              /\ t[2] = Cardinality(QueuedFor(r)) => QueuedFor(r) \subseteq SettledOf(r)
<1> USE DEF SessionInv
<1> DEFINE t == Finalizing
           S == SettledOf(r)
           Q == QueuedFor(r)
<1>1. r = t[1] /\ cycle.seen.settled # -1 /\ cycle.seen.settled = t[2]
  BY OnlyFinalizing
<1>2. cycle.todo # {} /\ cycle.seen.settled <= TradesIn(t[1], {"SETTLED"})
  BY <1>1 DEF CountIsPast
<1>3. t \in cycle.todo
  BY <1>2, FinalizingIsTodo
<1>4. t[2] \in Nat
  BY <1>3 DEF Types, CycleOK, Cycle
<1>5. t[2] <= Cardinality(S)
  BY <1>1, <1>2, SettledCount
<1>6. S \subseteq Q /\ Q \subseteq Places
  BY DEF SettledOf, QueuedFor, TradeHasRow
<1>7. IsFiniteSet(Q) /\ IsFiniteSet(S)
  BY <1>6, AiTradeAssumption, FS_Subset
<1> HIDE DEF S, Q, t
<1>8. /\ Cardinality(S) \in Nat /\ Cardinality(Q) \in Nat /\ Cardinality(S) <= Cardinality(Q)
      /\ Cardinality(S) = Cardinality(Q) => S = Q
  BY <1>6, <1>7, FS_Subset, FS_CardinalityType
<1>9. t[2] = Cardinality(Q) => Q \subseteq S
  BY <1>4, <1>5, <1>8
<1>10. Cardinality(S) >= t[2]
  BY <1>4, <1>5, <1>8
<1> QED BY <1>1, <1>3, <1>9, <1>10 DEF S, Q

\* For any number of users, workers, requests, retries and faults, with the
\* counts taken one by one in any order and a catch-up in between: a session is
\* COMPLETED only when as many trades are settled as the finalization had read.
THEOREM SessionsCompleteSettled == Spec => CompletedIsSettled
<1>1. Init => SessionInv
  BY InitSessionInv
<1>2. SessionInv /\ [Next]_vars => SessionInv'
  BY NextSessionInv
<1>3. ASSUME SessionInv, [Next]_vars
      PROVE  [\A r \in Runs : Completes(r) =>
                \E t \in cycle.todo :
                    /\ t[1] = r /\ Cardinality(SettledOf(r)) >= t[2]
                    /\ t[2] = Cardinality(QueuedFor(r)) => QueuedFor(r) \subseteq SettledOf(r)]_vars
  BY <1>3, CompletingIsSettled
<1> QED BY <1>1, <1>2, <1>3, PTL DEF Spec, CompletedIsSettled
=============================================================================
