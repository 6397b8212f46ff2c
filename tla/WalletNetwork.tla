--------------------------- MODULE WalletNetwork ---------------------------
(***************************************************************************)
(* What moves money between the members of the network: transfers between  *)
(* a user's two wallets, with the referral income and the ranks they       *)
(* cause, AI Bot purchases with the sponsor's share, the administrator's   *)
(* funds, the locks and settlements of trades, registrations.              *)
(*                                                                         *)
(* Each of them is one SERIALIZABLE transaction, hence one step, except a  *)
(* registration, which runs READ COMMITTED: it reads everybody's wallet    *)
(* document and writes everybody's back.  A transfer and a fund have a     *)
(* form in front of them, with a request key and an answer that may be     *)
(* lost; the forms are modelled step by step.                              *)
(***************************************************************************)
EXTENDS RankEngine, WalletLedgers, Sequences

CONSTANTS
    Late,           \* users who register while the system runs
    Amounts,        \* per user, what is transferred, in units every fee divides
    Grants,         \* what the administrator adds, or takes if negative
    BotPrice, MaxLevel,
    Stake, Profit   \* what a trade locks, and what it earns

ASSUME NetworkAssumption ==
    /\ Late \subseteq Users /\ DOMAIN SponsorOf = Users
    /\ \A u \in Users \ Late : SponsorOf[u] \notin Late
    /\ Amounts \in [Users -> SUBSET Nat] /\ Grants \subseteq Int
    /\ {BotPrice, MaxLevel, Stake, Profit} \subseteq Nat
    \* a sponsor is registered before the users who name it
    /\ \A u \in Users : \A k \in {1} \cup 1 .. MaxLevel : Above(u, k) # u

VARIABLES
    members,
    distribution,   \* per user, the amount its first transfer distributed, -1 for none
    entry,          \* referral income paid: source, recipient, kind, level, amount
    eligible,       \* per user, the amount in the eligibility row, -1 for none
    bot,            \* per user, the subscriptions bought, and whether one runs
    funds,          \* AdminFundTransaction rows
    form,           \* per user, the transfer screen and its request
    desk,           \* the administrator's fund form and its request
    open            \* the open registration, with the documents and rows it read

incomeVars == <<distribution, entry, eligible>>
networkVars == <<members, incomeVars, bot, funds, form, desk, open>>

NoRegistration == [user |-> Nobody, docs |-> <<>>, rows |-> <<>>]
\* from: the wallet selected, and sent: the one the request names;
\* shown: the deduction the confirmation dialog shows
IdleForm == [pc |-> "idle", from |-> "spot", sent |-> "spot", amount |-> 0, key |-> 0,
             pending |-> FALSE, shown |-> 0]
\* posted: the rows committed since the form was filled in (an observer)
IdleDesk == [pc |-> "idle", user |-> Nobody, delta |-> 0, key |-> 0, posted |-> 0]

NetworkInit ==
    /\ members = Users \ Late
    /\ distribution = [u \in Users |-> -1] /\ eligible = [u \in Users |-> -1]
    /\ entry = {} /\ funds = {}
    /\ bot = [u \in Users |-> [bought |-> {}, active |-> FALSE]]
    /\ form = [u \in Users |-> IdleForm] /\ desk = IdleDesk
    /\ open = NoRegistration

-----------------------------------------------------------------------------
(* Ranks and rewards, at the end of every transfer and registration.       *)

retainedFuturePrincipal(w, row) == IF row.open THEN row.retained ELSE w.principal

Capital(ms, docs, rows) == [u \in ms |-> retainedFuturePrincipal(docs[u], rows[u])]

\* every member's document is written
recalculateAuthoritativeNetwork(ms, docs, rows) ==
    LET capital == Capital(ms, docs, rows)
        star == evaluateRankNetwork(ms, capital, [u \in ms |-> docs[u].star])
        rewarded(u) == {n \in DOMAIN Ranks : hasProcessed(docs[u], <<"reward", n>>)}
        rewards(u) == {<<<<"reward", n>>, Ranks[n].reward>> :
                          n \in newRewardRanks(star[u], rewarded(u))}
    IN [u \in Users |->
          IF u \notin ms THEN docs[u]
          ELSE [docs[u] EXCEPT !.principal = capital[u], !.star = star[u],
                    !.spot = @ + Sum(rewards(u)), !.ledger = @ \cup rewards(u)]]

-----------------------------------------------------------------------------
(* The income of a user's first transfer from Spot to Future.              *)

Percent(amount, n) == (amount * n) \div 100

\* buildFirstTransferPayoutPlan: five percent to the sponsor, one to each level
Plan(u, amount) ==
    LET income(kind, level, percent) ==
            [source |-> u, recipient |-> Above(u, level), kind |-> kind,
             level |-> level, amount |-> Percent(amount, percent)]
    IN {e \in {income("referral", 1, 5)} \cup {income("level", k, 1) : k \in 1 .. MaxLevel} :
          amount >= Qualifying /\ e.recipient # Nobody}

\* mutant: the sponsor must keep a principal, too
QualifiedAtEveryLevel(e) ==
    retainedFuturePrincipal(doc[e.recipient], financial[e.recipient]) >= Qualifying

\* levels above the first are paid to those who keep a principal themselves
Qualified(e) ==
    e.kind = "level" /\ e.level >= 2
        => retainedFuturePrincipal(doc[e.recipient], financial[e.recipient]) >= Qualifying

\* distributeFirstSpotToFuture: a distribution made before keeps its amount
Payable(u, amount) ==
    LET decided == IF distribution[u] >= 0 THEN distribution[u] ELSE amount
    IN {e \in Plan(u, decided) : e \notin entry /\ Qualified(e)}

WithIncome(docs, paid) ==
    [u \in Users |->
        LET mine == {<<<<"income", e.source, e.kind, e.level>>, e.amount>> :
                        e \in {x \in paid : x.recipient = u}}
        IN [docs[u] EXCEPT !.spot = @ + Sum(mine), !.ledger = @ \cup mine]]

-----------------------------------------------------------------------------
(* Transfers: POST /api/account/transfer.                                  *)

Row(u) == Ensured(financial[u], doc[u])
Wallet(u) == Mirrored(doc[u], Row(u))

\* getFutureMetrics: seven tenths of the principal are earned
Unlocked(row) == 10 * row.profit >= 7 * row.retained

\* getTransferQuote
FeeOf(u) ==
    IF form[u].sent = "future" /\ ~Unlocked(Row(u)) THEN Percent(form[u].amount, 20) ELSE 0

Processed(u) == hasProcessed(Wallet(u), <<"transfer", form[u].key>>)

Answer(u, a) == form' = [form EXCEPT ![u].pc = a]

\* transferBetweenWallets, on the user's own document; it rates the user among
\* members without principal and stars, which leaves none
transferBetweenWallets(w, from, amount, fee, key) ==
    [PostSpot(w, <<"transfer", key>>, IF from = "spot" THEN -amount ELSE amount - fee)
        EXCEPT !.consumed = @ \/ from = "spot", !.star = 0]

SpotDebits(w) == {e[1][2] : e \in {x \in w.ledger : x[1][1] = "transfer" /\ x[2] < 0}}

\* a request with a key that is in the document: if it is the first transfer
\* from Spot, the income is distributed to the levels qualified by now
TransferAnswered(u) ==
    /\ form[u].pc = "sent" /\ Processed(u)
    /\ LET debits == SpotDebits(doc[u])
           first == /\ form[u].sent = "spot" /\ form[u].key \in debits
                    /\ \A k \in debits : form[u].key <= k
           paid == IF first THEN Payable(u, form[u].amount) ELSE {}
       IN /\ doc' = WithIncome(doc, paid) /\ entry' = entry \cup paid
          /\ distribution' = [distribution EXCEPT ![u] =
                                 IF first /\ @ < 0 THEN form[u].amount ELSE @]
    /\ financial' = [financial EXCEPT ![u] = Row(u)] /\ Answer(u, "ok")
    /\ UNCHANGED <<aiLedger, stale, ops, members, eligible, bot, funds, desk, open>>

\* a deduction must be confirmed first; the Future wallet's row stays behind
TransferUnconfirmed(u) ==
    /\ form[u].pc = "sent" /\ ~Processed(u) /\ FeeOf(u) > 0 /\ ~form[u].pending
    /\ form' = [form EXCEPT ![u].pc = "confirm", ![u].shown = FeeOf(u)]
    /\ financial' = [financial EXCEPT ![u] = Row(u)]
    /\ UNCHANGED <<doc, aiLedger, stale, ops, members, incomeVars, bot, funds,
                   desk, open>>

Proceeds(u) ==
    form[u].pc = "sent" /\ ~Processed(u) /\ (FeeOf(u) = 0 \/ form[u].pending)

Available(u) == IF form[u].sent = "spot" THEN doc[u].spot ELSE Row(u).available

TransferRefused(u) ==
    /\ Proceeds(u) /\ form[u].amount > Available(u) /\ Answer(u, "error")
    /\ UNCHANGED <<ledgerVars, stale, ops, members, incomeVars, bot, funds,
                   desk, open>>

\* a key lost from the document may still be in the Future wallet's ledger,
\* which then keeps its row as it is (mutateFutureWallet); the own document is
\* computed before the income is distributed and written after it; then mirror
\* and ranks
Transfer(u) ==
    /\ Proceeds(u) /\ form[u].amount <= Available(u)
    /\ LET f == form[u]
           delta == IF f.sent = "spot" THEN f.amount ELSE -f.amount
           posting == <<<<"transfer", f.key>>, delta>>
           row == IF posting \in aiLedger[u] THEN Row(u)
                  ELSE Mutated(Row(u), delta, 0, 0, delta)
           first == f.sent = "spot" /\ ~Wallet(u).consumed
           paid == IF first THEN Payable(u, f.amount) ELSE {}
           own == transferBetweenWallets(Wallet(u), f.sent, f.amount, FeeOf(u), f.key)
       IN /\ financial' = [financial EXCEPT ![u] = row]
          /\ aiLedger' = [aiLedger EXCEPT ![u] = @ \cup {posting}]
          /\ entry' = entry \cup paid
          /\ distribution' = [distribution EXCEPT ![u] = IF first /\ @ < 0 THEN f.amount ELSE @]
          /\ eligible' = [eligible EXCEPT ![u] =
                             IF f.sent = "spot" /\ @ < 0 THEN f.amount ELSE @]
          /\ doc' = recalculateAuthoritativeNetwork(members,
                        [WithIncome(doc, paid) EXCEPT ![u] = Mirrored(own, row)], financial')
    /\ Answer(u, "ok")
    /\ UNCHANGED <<stale, ops, members, bot, funds, desk, open>>

\* a serialization failure, which is not retried, or a lost answer
TransferFails(u) ==
    /\ form[u].pc \in {"sent", "ok", "confirm"} /\ Answer(u, "error")
    /\ UNCHANGED <<ledgerVars, stale, ops, members, incomeVars, bot, funds, desk, open>>

-----------------------------------------------------------------------------
(* The transfer screen.                                                    *)

\* every submission has a key of its own, and names the wallet selected
Submit(u, from, amount) ==
    /\ u \in members /\ form[u] = IdleForm /\ Begun
    /\ form' = [form EXCEPT ![u] = [IdleForm EXCEPT !.pc = "sent", !.from = from, !.sent = from,
                                                    !.amount = amount, !.key = ops']]
    /\ UNCHANGED <<ledgerVars, stale, members, incomeVars, bot, funds, desk, open>>

\* the dialog's button: the same key, and the wallet selected by now
Confirm(u) ==
    /\ form[u].pc = "idle" /\ form[u].pending
    /\ form' = [form EXCEPT ![u].pc = "sent", ![u].sent = form[u].from]
    /\ UNCHANGED <<ledgerVars, stale, ops, members, incomeVars, bot, funds, desk, open>>

CloseConfirmation(u) ==
    /\ form[u].pc = "idle" /\ form[u].pending
    /\ form' = [form EXCEPT ![u] = IdleForm]
    /\ UNCHANGED <<ledgerVars, stale, ops, members, incomeVars, bot, funds, desk, open>>

\* the dialog covers the selection, but a request that runs does not; the
\* server never looks at it, so when in the run it happens makes no difference
ChangeFrom(u) ==
    /\ form[u].pc = "confirm" /\ ~form[u].pending
    /\ form' = [form EXCEPT ![u].from = IF @ = "spot" THEN "future" ELSE "spot"]
    /\ UNCHANGED <<ledgerVars, stale, ops, members, incomeVars, bot, funds, desk, open>>

\* complete: a success closes the dialog, a failure leaves it as it is
AnswerArrives(u) ==
    /\ form[u].pc \in {"ok", "confirm", "error"}
    /\ form' = [form EXCEPT ![u] =
                  IF @.pc = "confirm" \/ (@.pc = "error" /\ @.pending)
                  THEN [@ EXCEPT !.pc = "idle", !.pending = TRUE] ELSE IdleForm]
    /\ UNCHANGED <<ledgerVars, stale, ops, members, incomeVars, bot, funds, desk, open>>

TransferStep(u) ==
    \/ \E from \in {"spot", "future"}, amount \in Amounts[u] : Submit(u, from, amount)
    \/ Confirm(u) \/ CloseConfirmation(u) \/ ChangeFrom(u) \/ AnswerArrives(u)
    \/ TransferAnswered(u) \/ TransferUnconfirmed(u) \/ TransferRefused(u)
    \/ Transfer(u) \/ TransferFails(u)

-----------------------------------------------------------------------------
(* AI Bot: POST /api/ai-bot.  A repeated key finds its subscription and    *)
(* changes nothing.                                                        *)

BuyBot(u) ==
    /\ u \in members /\ ~bot[u].active /\ doc[u].spot >= BotPrice /\ Begun
    /\ bot' = [bot EXCEPT ![u] = [bought |-> @.bought \cup {ops'}, active |-> TRUE]]
    /\ LET paid == [doc EXCEPT ![u] = PostSpot(@, <<"bot", ops'>>, -BotPrice)]
           sponsor == SponsorOf[u]
       IN doc' = IF sponsor = Nobody THEN paid
                 ELSE [paid EXCEPT ![sponsor] =
                          PostSpot(@, <<"botincome", ops'>>, Percent(BotPrice, 10))]
    /\ UNCHANGED <<financial, aiLedger, stale, members, incomeVars, funds, form,
                   desk, open>>

\* the thirty days are over; the next request marks the row
ExpireBot(u) ==
    /\ bot[u].active /\ bot' = [bot EXCEPT ![u].active = FALSE]
    /\ UNCHANGED <<ledgerVars, stale, ops, members, incomeVars, funds, form, desk, open>>

-----------------------------------------------------------------------------
(* The administrator's funds: the form, its request key, and applyAdminFund. *)

\* the user found stays in the form, and so does the key
SearchUser(u) ==
    /\ desk.pc = "idle" /\ Begun /\ desk' = [desk EXCEPT !.user = u]
    /\ UNCHANGED <<ledgerVars, stale, members, incomeVars, bot, funds, form, open>>

\* editing a field drops the key
FillIn(delta) ==
    /\ desk.pc = "idle" /\ desk.user # Nobody
    /\ desk' = [desk EXCEPT !.delta = delta, !.key = 0, !.posted = 0]
    /\ UNCHANGED <<ledgerVars, stale, ops, members, incomeVars, bot, funds, form, open>>

\* mutant: a new key for every confirmation
SubmitFundAfresh ==
    /\ desk.pc = "idle" /\ desk.user # Nobody /\ desk.delta # 0 /\ Begun
    /\ desk' = [desk EXCEPT !.pc = "sent", !.key = ops']
    /\ UNCHANGED <<ledgerVars, stale, members, incomeVars, bot, funds, form, open>>

SubmitFund ==
    /\ desk.pc = "idle" /\ desk.user # Nobody /\ desk.delta # 0
    /\ IF desk.key # 0 THEN UNCHANGED ops ELSE Begun
    /\ desk' = [desk EXCEPT !.pc = "sent", !.key = IF @ = 0 THEN ops' ELSE @]
    /\ UNCHANGED <<ledgerVars, stale, members, incomeVars, bot, funds, form, open>>

\* a known key: the same request is answered again, another is refused
FundAnswered ==
    /\ desk.pc = "sent"
    /\ \E f \in funds :
         /\ f.key = desk.key
         /\ desk' = [desk EXCEPT !.pc =
                       IF f.user = desk.user /\ f.delta = desk.delta THEN "ok" ELSE "error"]
    /\ UNCHANGED <<ledgerVars, stale, ops, members, incomeVars, bot, funds, form, open>>

FundIsNew == desk.pc = "sent" /\ \A f \in funds : f.key # desk.key

FundRefused ==
    /\ FundIsNew /\ doc[desk.user].spot + desk.delta < 0
    /\ desk' = [desk EXCEPT !.pc = "error"]
    /\ UNCHANGED <<ledgerVars, stale, ops, members, incomeVars, bot, funds, form, open>>

applyAdminFund ==
    /\ FundIsNew /\ doc[desk.user].spot + desk.delta >= 0
    /\ doc' = [doc EXCEPT ![desk.user] = PostSpot(@, <<"fund", desk.key>>, desk.delta)]
    /\ funds' = funds \cup {[key |-> desk.key, user |-> desk.user, delta |-> desk.delta]}
    /\ desk' = [desk EXCEPT !.pc = "ok", !.posted = @ + 1]
    /\ UNCHANGED <<financial, aiLedger, stale, ops, members, incomeVars, bot, form, open>>

FundFails ==
    /\ desk.pc \in {"sent", "ok"} /\ desk' = [desk EXCEPT !.pc = "error"]
    /\ UNCHANGED <<ledgerVars, stale, ops, members, incomeVars, bot, funds, form, open>>

\* success clears the form and the key; a failure keeps both
FundShown ==
    /\ desk.pc \in {"ok", "error"}
    /\ desk' = IF desk.pc = "ok" THEN [IdleDesk EXCEPT !.user = desk.user]
               ELSE [desk EXCEPT !.pc = "idle"]
    /\ UNCHANGED <<ledgerVars, stale, ops, members, incomeVars, bot, funds, form, open>>

DeskStep ==
    \/ \E u \in members : SearchUser(u)
    \/ \E delta \in Grants : FillIn(delta)
    \/ SubmitFund \/ FundAnswered \/ FundRefused \/ applyAdminFund \/ FundFails \/ FundShown

-----------------------------------------------------------------------------
(* Trades, as far as they concern the wallets.                             *)

\* lockAuthoritativeFutureWallet throws without a row and its opening entry
HasOpening(u) == financial[u].open

\* lockTradePrincipal and the mirror
TradeLocks(u) ==
    /\ HasOpening(u) /\ financial[u].available >= Stake /\ Begun
    /\ LET row == Mutated(financial[u], -Stake, Stake, 0, 0)
       IN /\ financial' = [financial EXCEPT ![u] = row]
          /\ aiLedger' = [aiLedger EXCEPT ![u] = @ \cup {<<<<"lock", ops'>>, -Stake>>}]
          /\ doc' = [doc EXCEPT ![u] = Mirrored(@, row)]
    /\ UNCHANGED <<stale, members, incomeVars, bot, funds, form, desk, open>>

\* returnTradePrincipal, creditAiProfit and the mirror
TradeSettles(u) ==
    /\ \E e \in aiLedger[u] :
         LET row == Mutated(financial[u], Stake + Profit, -Stake, Profit, 0)
             settled == {<<<<"return", e[1][2]>>, Stake>>, <<<<"profit", e[1][2]>>, Profit>>}
         IN /\ e[1][1] = "lock" /\ ~(settled \subseteq aiLedger[u])
            /\ financial' = [financial EXCEPT ![u] = row]
            /\ aiLedger' = [aiLedger EXCEPT ![u] = @ \cup settled]
            /\ doc' = [doc EXCEPT ![u] = Mirrored(@, row)]
    /\ UNCHANGED <<stale, ops, members, incomeVars, bot, funds, form, desk, open>>

-----------------------------------------------------------------------------
(* Registration.                                                           *)

RegisterRead(u) ==
    /\ u \in Late \ members /\ SponsorOf[u] \in members \cup {Nobody}
    /\ open.user = Nobody
    /\ open' = [user |-> u, docs |-> doc, rows |-> financial]
    /\ UNCHANGED <<ledgerVars, stale, ops, members, incomeVars, bot, funds, form, desk>>

\* the new user among them, everybody's document is written as it was read,
\* whatever it has become since
RegisterWrite ==
    /\ open.user # Nobody
    /\ members' = members \cup {open.user}
    /\ doc' = recalculateAuthoritativeNetwork(members', open.docs, open.rows)
    /\ stale' = stale \cup {u \in Users : open.docs[u] # doc[u]}
    /\ open' = NoRegistration
    /\ UNCHANGED <<financial, aiLedger, ops, incomeVars, bot, funds, form, desk>>

RegisterFails ==
    /\ open.user # Nobody
    /\ open' = NoRegistration
    /\ UNCHANGED <<ledgerVars, stale, ops, members, incomeVars, bot, funds, form, desk>>

NetworkNext ==
    \/ \E u \in Users :
         \/ TransferStep(u) \/ BuyBot(u) \/ ExpireBot(u)
         \/ TradeLocks(u) \/ TradeSettles(u)
         \/ RegisterRead(u)
    \/ DeskStep \/ RegisterWrite \/ RegisterFails
=============================================================================
