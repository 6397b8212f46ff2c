--------------------------- MODULE WalletLedgers ---------------------------
(***************************************************************************)
(* The two places that hold a user's money, and the operations every       *)
(* transaction on them is made of.                                         *)
(*                                                                         *)
(* The wallet document (UserState.wallet) is a JSON value that is read and *)
(* written as a whole: the Spot balance with its ledger, and a mirror of   *)
(* the Future wallet.  The Future wallet itself is a row of its own        *)
(* (AiFinancialWallet) with a ledger of its own (AiWalletLedger), created  *)
(* from the document the first time it is locked.                          *)
(*                                                                         *)
(* An entry of a ledger is <<key, amount>>; a key names what may be done   *)
(* only once.                                                              *)
(*                                                                         *)
(* A SERIALIZABLE transaction is one step: it writes every document it     *)
(* reads a balance from, and the database aborts it if another transaction *)
(* has written one of them since it began.  A registration and a deposit's *)
(* credit run READ COMMITTED and lock no document: they read documents in  *)
(* one step and write them back in a later one, whatever was written in    *)
(* between.                                                                *)
(***************************************************************************)
EXTENDS Integers, FiniteSetsExt

CONSTANTS
    Users,
    Opening,        \* per user, the Spot balance to begin with
    MaxOps          \* requests ever begun

ASSUME LedgerAssumption ==
    Opening \in [Users -> Nat] /\ MaxOps \in Nat

VARIABLES
    doc,            \* per user, the wallet document
    financial,      \* per user, the Future wallet's row
    aiLedger,       \* per user, the Future wallet's ledger
    stale,          \* users whose document was overwritten by an older one (an observer)
    ops

ledgerVars == <<doc, financial, aiLedger>>

NewDocument(u) ==
    [spot |-> Opening[u], ledger |-> {}, consumed |-> FALSE, star |-> 0,
     future |-> 0, locked |-> 0, profit |-> 0, principal |-> 0]

NoRow == [available |-> 0, locked |-> 0, profit |-> 0, retained |-> 0, open |-> FALSE]

LedgersInit ==
    /\ doc = [u \in Users |-> NewDocument(u)]
    /\ financial = [u \in Users |-> NoRow] /\ aiLedger = [u \in Users |-> {}]
    /\ stale = {} /\ ops = 0

Begun == ops < MaxOps /\ ops' = ops + 1

Sum(ledger) == SumFunctionOnSet([e \in ledger |-> e[2]], ledger)

-----------------------------------------------------------------------------
(* The document.                                                           *)

hasProcessed(w, key) == \E e \in w.ledger : e[1] = key

\* creditSpotDeposit, deductSpotFund, purchaseAiBotFromSpot and
\* creditAiBotSponsorIncome: a key processed before changes nothing
PostSpot(w, key, amount) ==
    IF hasProcessed(w, key) THEN w
    ELSE [w EXCEPT !.spot = @ + amount, !.ledger = @ \cup {<<key, amount>>}]

-----------------------------------------------------------------------------
(* The Future wallet.                                                      *)

\* ensureFutureWallet: the row is seeded from the document, once
Ensured(row, w) ==
    IF row.open THEN row
    ELSE [available |-> w.future, locked |-> w.locked, profit |-> w.profit,
          retained |-> w.principal, open |-> TRUE]

\* mutateFutureWallet: only transfers touch the retained principal, which
\* never falls below zero
Mutated(row, available, locked, profit, retained) ==
    [row EXCEPT !.available = @ + available, !.locked = @ + locked,
                !.profit = @ + profit, !.retained = Max({0, @ + retained})]

\* mutant: the locked principal is left out
MirroredAvailable(w, row) ==
    [w EXCEPT !.future = row.available, !.profit = row.profit, !.principal = row.retained]

\* reconcileLegacyMirror
Mirrored(w, row) ==
    [w EXCEPT !.future = row.available, !.locked = row.locked,
              !.profit = row.profit, !.principal = row.retained]
=============================================================================
