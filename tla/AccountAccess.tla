--------------------------- MODULE AccountAccess ---------------------------
(***************************************************************************)
(* Who can sign in: passwords, database sessions, sign-in and sign-out,    *)
(* the user's own change of password and the administrator's reset.        *)
(*                                                                         *)
(* A browser runs one request at a time, one database statement per step.  *)
(* A stored hash is named by the password it verifies.  Session rows are   *)
(* numbered in the order they are created; a cookie may name a row that    *)
(* is gone.  The reset's transaction runs READ COMMITTED: its update locks *)
(* the user's row, its delete takes the session rows committed by then,    *)
(* and nobody sees either before the commit.                               *)
(***************************************************************************)
EXTENDS Naturals, FiniteSets, Functions, Sequences

CONSTANTS
    Users,          \* user rows, registered beforehand
    Targets,        \* the ids a reset may name; an id may have no user row
    Admins,         \* the users with role ADMIN
    Browsers,       \* each holds one session cookie
    Passwords,      \* what can be typed
    Acceptable,     \* the passwords the policy accepts
    Initial,        \* every account's first password
    NoUser,
    MaxSessions,    \* session rows ever created
    MaxChanges,     \* changes and resets ever asked for
    MaxFaults       \* failures of the database or of the network

ASSUME AccessAssumption ==
    /\ Users \subseteq Targets /\ Admins \subseteq Users
    /\ NoUser \notin Targets \cup Browsers
    /\ Acceptable \subseteq Passwords /\ Initial \in Acceptable
    /\ MaxSessions \in Nat /\ MaxChanges \in Nat /\ MaxFaults \in Nat

VARIABLES
    passwordHash,   \* per user, as committed
    session,        \* the rows in the order of their creation: owner and fate
    cookie,         \* per browser, the row its token names, 0 for none
    req,            \* per browser, the request in flight
    modal,          \* per browser: closed, open, loading, error (open, with
                    \* an error) or success (closed, with the banner)
    rowLock,        \* per user, the browser whose transaction has its row
    audit,          \* USER_PASSWORD_RESET entries
    floor,          \* per user, the sessions created when the last committed
                    \* reset deleted (an observer of the other variables)
    changes, faults

vars == <<passwordHash, session, cookie, req, modal, rowLock,
          audit, floor, changes, faults>>

Tokens == 1 .. MaxSessions
\* seen: the floor a change read, or the sessions created at a reset's delete
Idle == [pc |-> "idle", user |-> NoUser, new |-> Initial, removed |-> {}, seen |-> 0]
ResetPcs == {"find", "update", "delete", "commit", "succeeded", "failed"}

Live(t) == t \in DOMAIN session /\ session[t].fate = "live"
\* mutant: administrators stay signed in
SessionsOfMembers(u) == {t \in DOMAIN session : session[t].user = u /\ u \notin Admins /\ Live(t)}
SessionsOf(u) == {t \in DOMAIN session : session[t].user = u /\ Live(t)}

\* auth(): the user of the cookie's session row, if the row is still there
CurrentUser(b) == IF Live(cookie[b]) THEN session[cookie[b]].user ELSE NoUser

Init ==
    /\ passwordHash = [u \in Users |-> Initial]
    /\ session = <<>> /\ cookie = [b \in Browsers |-> 0]
    /\ req = [b \in Browsers |-> Idle]
    /\ modal = [b \in Browsers |-> "closed"]
    /\ rowLock = [u \in Users |-> NoUser]
    /\ audit = {} /\ floor = [u \in Users |-> 0]
    /\ changes = 0 /\ faults = 0

Goto(b, pc) == req' = [req EXCEPT ![b].pc = pc]
Finish(b) == req' = [req EXCEPT ![b] = Idle]

-----------------------------------------------------------------------------
(* Signing in and out.                                                     *)

\* verifyLoginCredentials: the hash is read and verified before anything is
\* written; a wrong password leaves no trace
VerifyCredentials(b, u) ==
    /\ req[b].pc = "idle" /\ Len(session) < MaxSessions
    /\ req' = [req EXCEPT ![b] = [Idle EXCEPT !.pc = "signing", !.user = u]]
    /\ UNCHANGED <<passwordHash, session, cookie, modal, rowLock,
                   audit, floor, changes, faults>>

\* jwt.encode: the row of the new token, whatever became of the password
CreateSession(b) ==
    /\ req[b].pc = "signing"
    /\ IF Len(session) < MaxSessions
       THEN /\ session' = Append(session, [user |-> req[b].user, fate |-> "live"])
            /\ cookie' = [cookie EXCEPT ![b] = Len(session) + 1]
       ELSE UNCHANGED <<session, cookie>>
    /\ Finish(b)
    /\ UNCHANGED <<passwordHash, modal, rowLock, audit, floor,
                   changes, faults>>

\* a row that an open transaction has deleted is locked until it ends
BeingDeleted(t) == \E b \in Browsers : t \in req[b].removed

\* signOut leaves the page for the sign-in screen
SignOut(b) ==
    /\ cookie[b] # 0 /\ req[b].pc = "idle" /\ ~BeingDeleted(cookie[b])
    /\ session' = IF Live(cookie[b])
                  THEN [session EXCEPT ![cookie[b]].fate = "signed out"] ELSE session
    /\ cookie' = [cookie EXCEPT ![b] = 0] /\ modal' = [modal EXCEPT ![b] = "closed"]
    /\ UNCHANGED <<passwordHash, req, rowLock, audit, floor, changes, faults>>

-----------------------------------------------------------------------------
(* The user's own change: read, verify, then write without a condition.    *)

\* the current password is verified against the hash read here
ChangeRead(b, new) ==
    /\ req[b].pc = "idle" /\ changes < MaxChanges
    /\ LET u == CurrentUser(b) IN
       /\ u # NoUser /\ new \in Acceptable
       /\ new # passwordHash[u]
       /\ req' = [req EXCEPT ![b] =
                    [pc |-> "changing", user |-> u, new |-> new, removed |-> {}, seen |-> floor[u]]]
    /\ changes' = changes + 1
    /\ UNCHANGED <<passwordHash, session, cookie, modal, rowLock,
                   audit, floor, faults>>

ChangeWrite(b) ==
    /\ req[b].pc = "changing" /\ rowLock[req[b].user] = NoUser
    /\ passwordHash' = [passwordHash EXCEPT ![req[b].user] = req[b].new]
    /\ Finish(b)
    /\ UNCHANGED <<session, cookie, modal, rowLock, audit, floor,
                   changes, faults>>

-----------------------------------------------------------------------------
(* The administrator's reset: the dialog, the route and its transaction.   *)

\* the page shows the action once the administrators' data has loaded
OpenModal(b) ==
    /\ modal[b] \in {"closed", "success"} /\ req[b].pc = "idle"
    /\ CurrentUser(b) \in Admins /\ modal' = [modal EXCEPT ![b] = "open"]
    /\ UNCHANGED <<passwordHash, session, cookie, req, rowLock,
                   audit, floor, changes, faults>>

CancelModal(b) ==
    /\ modal[b] \in {"open", "error"} /\ modal' = [modal EXCEPT ![b] = "closed"]
    /\ UNCHANGED <<passwordHash, session, cookie, req, rowLock,
                   audit, floor, changes, faults>>

\* what adminPasswordResetSchema does not parse
Malformed(new, confirm) == new \notin Acceptable \/ new # confirm

\* what the route refuses before it calls resetUserPassword: 401, 403, 400
Refused(b, new, confirm) == CurrentUser(b) \notin Admins \/ Malformed(new, confirm)

SubmitReset(b, target, new, confirm) ==
    /\ modal[b] \in {"open", "error"} /\ req[b].pc = "idle" /\ changes < MaxChanges
    /\ modal' = [modal EXCEPT ![b] = "loading"]
    /\ req' = [req EXCEPT ![b] =
                 IF Refused(b, new, confirm) THEN [Idle EXCEPT !.pc = "failed"]
                 ELSE [Idle EXCEPT !.pc = "find", !.user = target, !.new = new]]
    /\ changes' = changes + 1
    /\ UNCHANGED <<passwordHash, session, cookie, rowLock, audit, floor, faults>>

ResetFind(b) ==
    /\ req[b].pc = "find"
    /\ Goto(b, IF req[b].user \in Users THEN "update" ELSE "failed")
    /\ UNCHANGED <<passwordHash, session, cookie, modal, rowLock,
                   audit, floor, changes, faults>>

ResetUpdate(b) ==
    /\ req[b].pc = "update" /\ rowLock[req[b].user] = NoUser
    /\ rowLock' = [rowLock EXCEPT ![req[b].user] = b]
    /\ Goto(b, "delete")
    /\ UNCHANGED <<passwordHash, session, cookie, modal, audit,
                   floor, changes, faults>>

ResetDelete(b) ==
    /\ req[b].pc = "delete"
    /\ req' = [req EXCEPT ![b].pc = "commit",
                          ![b].removed = SessionsOf(req[b].user),
                          ![b].seen = Len(session)]
    /\ UNCHANGED <<passwordHash, session, cookie, modal, rowLock,
                   audit, floor, changes, faults>>

\* the audit entry and the commit: hash, sessions and entry appear together
ResetCommit(b) ==
    /\ req[b].pc = "commit"
    /\ LET u == req[b].user IN
       /\ passwordHash' = [passwordHash EXCEPT ![u] = req[b].new]
       /\ session' = [t \in DOMAIN session |->
                        IF t \in req[b].removed THEN [session[t] EXCEPT !.fate = "reset"]
                        ELSE session[t]]
       /\ audit' = audit \cup {[id |-> Cardinality(audit) + 1, target |-> u,
                                by |-> b, sessions |-> Cardinality(req[b].removed)]}
       /\ floor' = [floor EXCEPT ![u] = req[b].seen]
       /\ rowLock' = [rowLock EXCEPT ![u] = NoUser]
    /\ req' = [req EXCEPT ![b] = [Idle EXCEPT !.pc = "succeeded"]]
    /\ UNCHANGED <<cookie, modal, changes, faults>>

\* mutant: the failed transaction is not rolled back
FailsHoldingRow(b) ==
    /\ req[b].pc \in {"find", "update", "delete", "commit"} /\ faults < MaxFaults
    /\ req' = [req EXCEPT ![b] = [Idle EXCEPT !.pc = "failed"]]
    /\ faults' = faults + 1
    /\ UNCHANGED <<passwordHash, session, cookie, modal, rowLock, audit, floor, changes>>

\* any statement, the hashing or the commit fails: 500 and a rollback
ResetFails(b) ==
    /\ req[b].pc \in {"find", "update", "delete", "commit"} /\ faults < MaxFaults
    /\ rowLock' = [u \in Users |-> IF rowLock[u] = b THEN NoUser ELSE rowLock[u]]
    /\ req' = [req EXCEPT ![b] = [Idle EXCEPT !.pc = "failed"]]
    /\ faults' = faults + 1
    /\ UNCHANGED <<passwordHash, session, cookie, modal, audit,
                   floor, changes>>

\* the answer, or the commit's own answer, is lost
AnswerLost(b) ==
    /\ req[b].pc = "succeeded" /\ faults < MaxFaults
    /\ Goto(b, "failed") /\ faults' = faults + 1
    /\ UNCHANGED <<passwordHash, session, cookie, modal, rowLock,
                   audit, floor, changes>>

\* mutant: any answer closes the dialog
ShowAnyAnswer(b) ==
    /\ req[b].pc \in {"succeeded", "failed"}
    /\ modal' = [modal EXCEPT ![b] = "success"] /\ Finish(b)
    /\ UNCHANGED <<passwordHash, session, cookie, rowLock, audit, floor, changes, faults>>

\* handleSubmit: success closes the dialog, anything else keeps it open
ShowAnswer(b) ==
    /\ req[b].pc \in {"succeeded", "failed"}
    /\ modal' = [modal EXCEPT ![b] = IF req[b].pc = "succeeded" THEN "success" ELSE "error"]
    /\ Finish(b)
    /\ UNCHANGED <<passwordHash, session, cookie, rowLock, audit, floor,
                   changes, faults>>

-----------------------------------------------------------------------------
ResetStep(b) ==
    \/ ResetFind(b) \/ ResetUpdate(b) \/ ResetDelete(b) \/ ResetCommit(b)
    \/ ShowAnswer(b)

ServerStep(b) == CreateSession(b) \/ ChangeWrite(b) \/ ResetStep(b)

UserStep(b) ==
    \/ \E u \in Users : VerifyCredentials(b, u)
    \/ SignOut(b) \/ OpenModal(b) \/ CancelModal(b)
    \/ \E p \in Passwords : ChangeRead(b, p)
    \/ \E u \in Targets, p, q \in Passwords : SubmitReset(b, u, p, q)

Failure(b) == ResetFails(b) \/ AnswerLost(b)

Next ==
    \E b \in Browsers : ServerStep(b) \/ UserStep(b) \/ Failure(b)

Spec == Init /\ [][Next]_vars

\* the server goes on with a request it has taken
FairSpec == Spec /\ \A b \in Browsers : WF_vars(ServerStep(b))

-----------------------------------------------------------------------------
TypeOK ==
    /\ passwordHash \in [Users -> Acceptable]
    /\ session \in Seq([user : Users, fate : {"live", "signed out", "reset"}])
    /\ Len(session) <= MaxSessions /\ cookie \in [Browsers -> 0 .. Len(session)]
    /\ \A b \in Browsers :
         /\ req[b].pc \in {"idle", "signing", "changing"} \cup ResetPcs
         /\ req[b].removed \subseteq DOMAIN session
         /\ (modal[b] = "loading") <=> (req[b].pc \in ResetPcs)
    /\ modal \in [Browsers -> {"closed", "open", "loading", "error", "success"}]
    /\ rowLock \in [Users -> Browsers \cup {NoUser}]

\* A reset signs its user out everywhere, the administrator's own browser
\* included: no live session is older than the delete of its owner's last
\* committed reset, whatever signed in, signed out or failed meanwhile.
ResetSignsOut ==
    \A t \in DOMAIN session : Live(t) => t > floor[session[t].user]

\* The audit log accounts for every session a reset ended, and for no other:
\* two resets, a sign-out and a rolled-back reset never count one twice.
AuditIsExact ==
    \A u \in Users :
        Cardinality({t \in DOMAIN session : session[t] = [user |-> u, fate |-> "reset"]})
            = SumFunctionOnSet([e \in audit |-> e.sessions], {e \in audit : e.target = u})

\* A dialog that reports success has a committed reset of its own behind it;
\* whatever failed or was lost is reported as an error.
SuccessIsCommitted ==
    \A b \in Browsers : modal[b] = "success" => \E e \in audit : e.by = b

\* Every submission is answered: the dialog does not stay in its loading
\* state, whoever else holds the user's row.
ResetIsAnswered == \A b \in Browsers : (modal[b] = "loading") ~> (modal[b] # "loading")

\* A change of password is not written over a reset it does not know of: it
\* verified the password that the reset replaced (AccountResetUndone.cfg).
ResetPrevails ==
    [][\A b \in Browsers :
          req[b].pc = "changing" /\ req'[b].pc = "idle"
             => req[b].seen = floor[req[b].user]]_vars
=============================================================================
