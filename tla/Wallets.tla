------------------------------ MODULE Wallets ------------------------------
(***************************************************************************)
(* The network and the deposits together: they share the wallet documents. *)
(***************************************************************************)
EXTENDS WalletNetwork, NowPayments

vars == <<ledgerVars, stale, ops, networkVars, depositVars>>

Init == LedgersInit /\ NetworkInit /\ DepositsInit

Next ==
    \/ NetworkNext /\ UNCHANGED depositVars
    \/ DepositNext /\ UNCHANGED networkVars

Spec == Init /\ [][Next]_vars

-----------------------------------------------------------------------------
Posted(u, kind) == {e[1] : e \in {x \in doc[u].ledger : x[1][1] = kind}}

TypeOK ==
    /\ \A u \in Users :
         /\ {doc[u].spot, doc[u].future, doc[u].locked, doc[u].principal} \subseteq Nat
         /\ {financial[u].available, financial[u].locked, financial[u].retained} \subseteq Nat
         /\ doc[u].star \in 0 .. Len(Ranks)
         /\ form[u].pc \in {"idle", "sent", "ok", "confirm", "error"}
    /\ members \subseteq Users /\ ops \in 0 .. MaxOps
    /\ desk.pc \in {"idle", "sent", "ok", "error"}
    /\ stale \subseteq Users

\* The Spot balance is the opening balance and everything the ledger in the
\* same document says, although five features rewrite the document.
DocumentAddsUp == \A u \in Users : doc[u].spot = Opening[u] + Sum(doc[u].ledger)

\* The ledger in a document and the tables beside it tell the same story:
\* nothing is entered twice, and nothing is lost but by writing an old document
\* over a newer one, which costs no other document anything.
LedgersAgree ==
    \A u \in Users \ stale :
        /\ Posted(u, "transfer") = {e[1] : e \in {x \in aiLedger[u] : x[1][1] = "transfer"}}
        /\ Posted(u, "income") =
             {<<"income", e.source, e.kind, e.level>> : e \in {x \in entry : x.recipient = u}}
        /\ Posted(u, "bot") = {<<"bot", n>> : n \in bot[u].bought}
        /\ Posted(u, "botincome") =
             {<<"botincome", n>> : n \in UNION {bot[v].bought : v \in {w \in Users : SponsorOf[w] = u}}}
        /\ Posted(u, "fund") = {<<"fund", f.key>> : f \in {g \in funds : g.user = u}}
        /\ Posted(u, "deposit") =
             {<<"deposit", p>> : p \in {q \in Payments : u = Depositor /\ deposit[q].credited}}

\* The document mirrors the Future wallet, which transfers, trades and ranks
\* change in different transactions, with the same exception.
MirrorIsExact ==
    \A u \in Users \ stale :
        financial[u].open =>
            /\ doc[u].future = financial[u].available /\ doc[u].locked = financial[u].locked
            /\ doc[u].profit = financial[u].profit /\ doc[u].principal = financial[u].retained

\* The stars in the documents are those the rules give for the principals and
\* stars of now: no member's rank waits for a further evaluation.
StarsAreEarned ==
    LET star == [u \in members |-> doc[u].star]
    IN star = Pass(members, Capital(members, doc, financial), star)

\* Every rank up to the present one has been rewarded, the skipped ones, too.
StarsAreRewarded ==
    \A u \in members : \A n \in 1 .. doc[u].star : <<"reward", n>> \in Posted(u, "reward")

\* All the books of a member agree after every step, whichever of the writers
\* took it.  A registration or a deposit that was overtaken between its read and
\* its write damages only the documents that changed in between, and even there
\* the balance is the sum of the ledger.
BooksAgree == DocumentAddsUp /\ LedgersAgree /\ MirrorIsExact

\* Ranks and rewards follow every change of a principal at once, as long as no
\* document was overwritten by an older one; rewards do always.
RanksAreRight == StarsAreRewarded /\ (stale = {} => StarsAreEarned)

\* A transfer puts everybody's rank right again, whatever stars and principals
\* an overtaken registration or deposit wrote back before it.
RanksHeal ==
    [][\A u \in Users :
          (\E e \in aiLedger'[u] \ aiLedger[u] : e[1][1] = "transfer") => StarsAreEarned']_vars

\* The first transfer decides the referral income: what was paid belongs to
\* that transfer's plan, the sponsor's two shares were paid whatever the
\* sponsor holds, and the eligibility row remembers the same transfer.
IncomeFollowsFirst ==
    \A u \in Users :
        LET paid == {e \in entry : e.source = u} IN
        /\ eligible[u] = distribution[u]
        /\ paid \subseteq Plan(u, distribution[u])
        /\ {e \in Plan(u, distribution[u]) : e.level = 1} \subseteq paid

\* A deduction is taken only if the dialog showed it for this very request.
FeeWasShown ==
    [][\A u \in Users : \A e \in doc'[u].ledger \ doc[u].ledger :
          e[1] = <<"transfer", form[u].key>> /\ e[2] > 0 /\ e[2] < form[u].amount
             => form[u].shown = form[u].amount - e[2]]_vars

\* A form the administrator has filled in funds one account once, however
\* often it is confirmed after a lost answer, also for another user.
FundedOnce == desk.posted <= 1

\* What a deposit has added to the wallet is an amount the provider once
\* reported as confirmed, within the tolerance of what was requested.
DepositIsEarned ==
    \A e \in doc[Depositor].ledger :
        e[1][1] = "deposit" =>
            \E r \in reported[e[1][2]] :
                /\ r.paid = e[2] /\ r.status \in {"FINISHED", "PARTIALLY_PAID"}
                /\ r.paid \in (Requested - Tolerance) .. (Requested + Tolerance)

\* Money sent to the provider belongs to a payment that has a row, so that a
\* callback finds it, also when a creation failed half way.
PaidIsKnown == \A p \in Payments : provider[p].paid > 0 => Known(p)

\* A credited deposit is shown as completed with the amount that was credited
\* (DepositStale.cfg).
CreditedIsCompleted ==
    \A p \in Payments :
        deposit[p].credited =>
            deposit[p].status = "COMPLETED" /\ <<<<"deposit", p>>, deposit[p].amount>> \in doc[Depositor].ledger

\* A transfer that was confirmed in the dialog takes the direction the dialog
\* was about (TransferSwitched.cfg).
ConfirmedDirection ==
    [][\A u \in Users : form[u].pending /\ form[u].shown > 0 /\ aiLedger'[u] # aiLedger[u]
          /\ form[u].pc = "sent" /\ form'[u].pc = "ok"
             => form[u].sent = "future"]_vars
=============================================================================
