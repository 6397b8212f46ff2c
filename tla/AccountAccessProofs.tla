------------------------ MODULE AccountAccessProofs ------------------------
(***************************************************************************)
(* Theorems about AccountAccess for any number of users, browsers and      *)
(* sessions: a committed reset has signed its user out everywhere, the     *)
(* audit log counts the sessions resets have ended exactly, and a dialog   *)
(* that reports success has a committed reset behind it.                   *)
(***************************************************************************)
EXTENDS AccountAccess, SequenceTheorems, SetSums, TLAPS

\* A request's user is a user row once the route has found it, and its
\* transaction has chosen rows to delete only between delete and commit.
Request == [pc : {"idle", "signing", "changing"} \cup ResetPcs,
            user : Targets \cup {NoUser}, new : Acceptable,
            removed : SUBSET Nat, seen : Nat]
RequestOK ==
    /\ req \in [Browsers -> Request]
    /\ \A b \in Browsers :
         /\ req[b].pc \in {"signing", "changing", "update", "delete", "commit"}
               => req[b].user \in Users
         /\ req[b].pc # "commit" => req[b].removed = {}

\* A user's row is locked by the transaction that has updated it, and by no other.
RowIsHeld ==
    \A b \in Browsers, u \in Users :
        rowLock[u] = b <=> req[b].pc \in {"delete", "commit"} /\ req[b].user = u

\* Until it commits, a transaction deletes exactly the live sessions of its
\* user that existed at its delete: nobody signs one out, nothing revives one.
DeleteIsCurrent ==
    \A b \in Browsers : req[b].pc = "commit" =>
        /\ req[b].seen <= Len(session)
        /\ \A t \in DOMAIN session :
             t \in req[b].removed
               <=> session[t].user = req[b].user /\ Live(t) /\ t <= req[b].seen

Row == [user : Users, fate : {"live", "signed out", "reset"}]

FloorOK == /\ floor \in [Users -> Nat]
           /\ \A u \in Users : floor[u] <= Len(session)

IInv ==
    /\ TypeOK /\ RequestOK /\ RowIsHeld /\ DeleteIsCurrent
    /\ FloorOK /\ ResetSignsOut
-----------------------------------------------------------------------------
\* Nobody is signed in at the start and no request is in flight.
LEMMA InitIInv == Init => IInv
<1> SUFFICES ASSUME Init PROVE IInv OBVIOUS
<1> USE AccessAssumption DEF Init, Idle
<1>1. session \in Seq(Row) /\ Len(session) = 0 /\ DOMAIN session = {}
  BY EmptySeq
<1>2. TypeOK
  BY <1>1 DEF TypeOK, ResetPcs, Row
<1>3. RequestOK
  BY DEF RequestOK, Request
<1>4. RowIsHeld /\ DeleteIsCurrent /\ FloorOK
  BY <1>1 DEF RowIsHeld, DeleteIsCurrent, FloorOK
<1>5. ResetSignsOut
  BY <1>1 DEF ResetSignsOut
<1> QED BY <1>2, <1>3, <1>4, <1>5 DEF IInv

\* The session table is a sequence of rows of users.
LEMMA SessionRows ==
    ASSUME TypeOK
    PROVE  /\ session \in Seq(Row) /\ Len(session) \in Nat /\ DOMAIN session = 1 .. Len(session)
           /\ \A t \in DOMAIN session : session[t] \in Row /\ session[t].user \in Users
<1>1. session \in Seq(Row)
  BY DEF TypeOK, Row
<1>2. Len(session) \in Nat /\ DOMAIN session = 1 .. Len(session)
  BY <1>1, LenProperties
<1>3. \A t \in DOMAIN session : session[t] \in Row
  BY <1>1, <1>2, ElementOfSeq
<1> QED BY <1>1, <1>2, <1>3 DEF Row

\* A step of one request that is outside its transaction before and after, and
\* leaves the sessions, the rows' locks and the floors alone.
LEMMA Quiet ==
    ASSUME IInv, NEW b \in Browsers, UNCHANGED <<session, rowLock, floor>>,
           NEW r \in Request, req' = [req EXCEPT ![b] = r],
           req[b].pc \notin {"delete", "commit"}, r.pc \notin {"delete", "commit"},
           r.removed = {}, r.pc \in {"signing", "changing", "update"} => r.user \in Users,
           passwordHash' \in [Users -> Acceptable],
           cookie' \in [Browsers -> 0 .. Len(session)],
           modal' \in [Browsers -> {"closed", "open", "loading", "error", "success"}],
           \A c \in Browsers : (modal'[c] = "loading") <=> (req'[c].pc \in ResetPcs)
    PROVE  IInv'
<1> USE DEF IInv
<1>1. /\ req' \in [Browsers -> Request] /\ req'[b] = r
      /\ \A c \in Browsers \ {b} : req'[c] = req[c]
  BY DEF RequestOK
<1>2. RequestOK'
  BY <1>1 DEF RequestOK
<1>3. TypeOK'
  <2>1. \A c \in Browsers : req'[c].removed \subseteq DOMAIN session
    BY <1>1 DEF TypeOK
  <2>2. \A c \in Browsers : req'[c].pc \in {"idle", "signing", "changing"} \cup ResetPcs
    BY <1>1 DEF Request
  <2> QED BY <2>1, <2>2 DEF TypeOK
<1>4. RowIsHeld'
  BY <1>1 DEF RowIsHeld
<1>5. DeleteIsCurrent'
  BY <1>1 DEF DeleteIsCurrent, Live
<1>6. FloorOK' /\ ResetSignsOut'
  BY DEF FloorOK, ResetSignsOut, Live
<1> QED BY <1>2, <1>3, <1>4, <1>5, <1>6

\* A sign-in that has verified its password has no session yet.
LEMMA VerifyStep ==
    ASSUME IInv, NEW b \in Browsers, NEW u \in Users, VerifyCredentials(b, u)
    PROVE  IInv'
<1> DEFINE r == [Idle EXCEPT !.pc = "signing", !.user = u]
<1>1. r \in Request /\ r.pc = "signing" /\ r.removed = {} /\ r.user = u
  BY AccessAssumption DEF Idle, Request
<1>2. req' = [req EXCEPT ![b] = r]
  BY DEF VerifyCredentials
<1> HIDE DEF r
<1>3. \A c \in Browsers : (modal'[c] = "loading") <=> (req'[c].pc \in ResetPcs)
  BY <1>1, <1>2 DEF VerifyCredentials, IInv, TypeOK, RequestOK, ResetPcs
<1> QED BY <1>1, <1>2, <1>3, Quiet DEF VerifyCredentials, IInv, TypeOK

\* A change of password remembers the floor it saw.
LEMMA ChangeReadStep ==
    ASSUME IInv, NEW b \in Browsers, NEW p \in Passwords, ChangeRead(b, p)
    PROVE  IInv'
<1> DEFINE u == CurrentUser(b)
           r == [pc |-> "changing", user |-> u, new |-> p, removed |-> {}, seen |-> floor[u]]
<1>1. u \in Users
  BY SessionRows DEF ChangeRead, CurrentUser, IInv, Live
<1>2. r \in Request /\ r.pc = "changing" /\ r.removed = {} /\ r.user = u
  BY <1>1, AccessAssumption DEF Request, IInv, FloorOK, ChangeRead
<1>3. req' = [req EXCEPT ![b] = r]
  BY DEF ChangeRead
<1> HIDE DEF r, u
<1>4. \A c \in Browsers : (modal'[c] = "loading") <=> (req'[c].pc \in ResetPcs)
  BY <1>2, <1>3 DEF ChangeRead, IInv, TypeOK, RequestOK, ResetPcs
<1>5. /\ req[b].pc = "idle" /\ UNCHANGED <<session, rowLock, floor, passwordHash, cookie, modal>>
  BY DEF ChangeRead
<1> QED BY <1>1, <1>2, <1>3, <1>4, <1>5, Quiet DEF IInv, TypeOK

\* The browser between two requests.
LEMMA IdleRequest == Idle \in Request /\ Idle.pc = "idle" /\ Idle.removed = {}
BY AccessAssumption DEF Idle, Request

\* A change of password writes a hash and no session.
LEMMA ChangeWriteStep ==
    ASSUME IInv, NEW b \in Browsers, ChangeWrite(b) PROVE IInv'
<1>1. passwordHash' \in [Users -> Acceptable]
  BY DEF ChangeWrite, IInv, TypeOK, RequestOK, Request
<1> QED BY <1>1, IdleRequest, Quiet DEF ChangeWrite, Finish, IInv, TypeOK, RequestOK, ResetPcs

\* A reset begins without having deleted anything.
LEMMA SubmitStep ==
    ASSUME IInv, NEW b \in Browsers, NEW u \in Targets, NEW p \in Passwords,
           NEW q \in Passwords, SubmitReset(b, u, p, q)
    PROVE  IInv'
<1> DEFINE r == IF Refused(b, p, q) THEN [Idle EXCEPT !.pc = "failed"]
                ELSE [Idle EXCEPT !.pc = "find", !.user = u, !.new = p]
<1>1. r \in Request /\ r.pc \in {"find", "failed"} /\ r.removed = {}
  BY AccessAssumption DEF Idle, Request, ResetPcs, Refused, Malformed
<1>2. req' = [req EXCEPT ![b] = r]
  BY DEF SubmitReset
<1> HIDE DEF r
<1>3. \A c \in Browsers : (modal'[c] = "loading") <=> (req'[c].pc \in ResetPcs)
  BY <1>1, <1>2 DEF SubmitReset, IInv, TypeOK, RequestOK, ResetPcs
<1>4. /\ req[b].pc = "idle" /\ modal' = [modal EXCEPT ![b] = "loading"]
      /\ UNCHANGED <<session, rowLock, floor, passwordHash, cookie>>
  BY DEF SubmitReset
<1> QED BY <1>1, <1>2, <1>3, <1>4, Quiet DEF IInv, TypeOK

\* The lookup of the user leads to the update or to a refusal.
LEMMA FindStep ==
    ASSUME IInv, NEW b \in Browsers, ResetFind(b) PROVE IInv'
<1> DEFINE r == [req[b] EXCEPT !.pc = IF req[b].user \in Users THEN "update" ELSE "failed"]
<1>1. /\ r \in Request /\ r.pc \in {"update", "failed"} /\ r.removed = {}
      /\ r.pc = "update" => r.user \in Users
  BY DEF ResetFind, IInv, RequestOK, Request, ResetPcs
<1>2. req' = [req EXCEPT ![b] = r]
  BY DEF ResetFind, Goto, IInv, RequestOK
<1> HIDE DEF r
<1> QED BY <1>1, <1>2, Quiet DEF ResetFind, IInv, TypeOK, RequestOK, ResetPcs

\* A lost answer leaves what was committed.
LEMMA LostStep ==
    ASSUME IInv, NEW b \in Browsers, AnswerLost(b) PROVE IInv'
<1> DEFINE r == [req[b] EXCEPT !.pc = "failed"]
<1>1. r \in Request /\ r.pc = "failed" /\ r.removed = {}
  BY DEF AnswerLost, IInv, RequestOK, Request, ResetPcs
<1>2. req' = [req EXCEPT ![b] = r]
  BY DEF AnswerLost, Goto, IInv, RequestOK
<1> HIDE DEF r
<1> QED BY <1>1, <1>2, Quiet DEF AnswerLost, IInv, TypeOK, RequestOK, ResetPcs

\* The dialog shows success only for a request that succeeded.
LEMMA ShowStep ==
    ASSUME IInv, NEW b \in Browsers, ShowAnswer(b) PROVE IInv'
<1>1. /\ modal' \in [Browsers -> {"closed", "open", "loading", "error", "success"}]
      /\ \A c \in Browsers : (modal'[c] = "loading") <=> (req'[c].pc \in ResetPcs)
  BY IdleRequest DEF ShowAnswer, Finish, IInv, TypeOK, RequestOK, ResetPcs
<1> QED BY <1>1, IdleRequest, Quiet DEF ShowAnswer, Finish, IInv, TypeOK, RequestOK

\* Opening and closing the dialog touches no session.
LEMMA ModalStep ==
    ASSUME IInv, NEW b \in Browsers, OpenModal(b) \/ CancelModal(b) PROVE IInv'
<1>1. UNCHANGED <<session, rowLock, floor, passwordHash, cookie, req>>
  BY DEF OpenModal, CancelModal
<1>2. /\ modal' \in [Browsers -> {"closed", "open", "loading", "error", "success"}]
      /\ \A c \in Browsers : (modal'[c] = "loading") <=> (req'[c].pc \in ResetPcs)
  BY DEF OpenModal, CancelModal, IInv, TypeOK, ResetPcs
<1>3. TypeOK'
  BY <1>1, <1>2 DEF IInv, TypeOK
<1>4. RequestOK' /\ RowIsHeld' /\ FloorOK'
  BY <1>1 DEF IInv, RequestOK, RowIsHeld, FloorOK
<1>5. DeleteIsCurrent' /\ ResetSignsOut'
  BY <1>1 DEF IInv, DeleteIsCurrent, ResetSignsOut, Live
<1> QED BY <1>3, <1>4, <1>5 DEF IInv

\* A token whose row is created now is newer than every floor and every delete.
LEMMA CreateStep ==
    ASSUME IInv, NEW b \in Browsers, CreateSession(b) PROVE IInv'
<1>1. CASE Len(session) >= MaxSessions
  <2>1. /\ req[b].pc = "signing" /\ req' = [req EXCEPT ![b] = Idle]
        /\ UNCHANGED <<session, rowLock, floor, passwordHash, cookie, modal>>
    BY <1>1, SessionRows, AccessAssumption DEF CreateSession, Finish, IInv
  <2>2. \A c \in Browsers : (modal'[c] = "loading") <=> (req'[c].pc \in ResetPcs)
    BY <2>1, IdleRequest DEF IInv, TypeOK, RequestOK, ResetPcs
  <2> QED BY <2>1, <2>2, IdleRequest, Quiet DEF IInv, TypeOK
<1>2. CASE Len(session) < MaxSessions
  <2> DEFINE row == [user |-> req[b].user, fate |-> "live"]
  <2>1. row \in Row
    BY DEF CreateSession, IInv, RequestOK, Row
  <2>2. session \in Seq(Row)
    BY DEF IInv, TypeOK, Row
  <2>3. session' = Append(session, row)
    BY <1>2 DEF CreateSession
  <2> HIDE DEF row
  <2>4. /\ session' \in Seq(Row) /\ Len(session') = Len(session) + 1
        /\ DOMAIN session = 1 .. Len(session) /\ DOMAIN session' = 1 .. Len(session) + 1
        /\ Len(session) \in Nat
        /\ \A t \in DOMAIN session : session'[t] = session[t]
        /\ session'[Len(session) + 1] = row
    BY <2>1, <2>2, <2>3, AppendProperties
  <2>5. \A t \in DOMAIN session : Live(t)' <=> Live(t)
    BY <2>4 DEF Live
  <2>6. /\ req' = [req EXCEPT ![b] = Idle] /\ req[b].pc = "signing"
        /\ UNCHANGED <<passwordHash, modal, rowLock, floor>>
        /\ cookie' = [cookie EXCEPT ![b] = Len(session) + 1]
    BY <1>2 DEF CreateSession, Finish
  <2>7. \A c \in Browsers : req'[c] = req[c] \/ (c = b /\ req'[c] = Idle)
    BY <2>6 DEF IInv, RequestOK
  <2>8. RequestOK'
    BY <2>6, <2>7, IdleRequest DEF IInv, RequestOK
  <2>9. TypeOK'
    <3>1. \A c \in Browsers :
             /\ req'[c].pc \in {"idle", "signing", "changing"} \cup ResetPcs
             /\ req'[c].removed \subseteq DOMAIN session'
             /\ (modal'[c] = "loading") <=> (req'[c].pc \in ResetPcs)
      <4> TAKE c \in Browsers
      <4>1. CASE req'[c] = req[c]
        <5>1. DOMAIN session \subseteq DOMAIN session' /\ modal' = modal
          BY <2>4, <2>6
        <5> QED BY <4>1, <5>1 DEF IInv, TypeOK
      <4>2. CASE c = b /\ req'[c] = Idle
        BY <2>6, <4>2, IdleRequest DEF IInv, TypeOK, ResetPcs
      <4> QED BY <2>7, <4>1, <4>2
    <3>2. cookie' \in [Browsers -> 0 .. Len(session')] /\ Len(session') <= MaxSessions
      <4>1. cookie \in [Browsers -> 0 .. Len(session)]
        BY DEF IInv, TypeOK
      <4> QED BY <1>2, <2>4, <2>6, <4>1, AccessAssumption
    <3> QED BY <2>4, <2>6, <3>1, <3>2 DEF IInv, TypeOK, Row
  <2>10. RowIsHeld'
    BY <2>6, <2>7, IdleRequest DEF IInv, RowIsHeld
  <2>11. DeleteIsCurrent'
    <3> SUFFICES ASSUME NEW c \in Browsers, req'[c].pc = "commit"
                 PROVE  /\ req'[c].seen <= Len(session')
                        /\ \A t \in DOMAIN session' :
                             t \in req'[c].removed
                               <=> session'[t].user = req'[c].user /\ Live(t)' /\ t <= req'[c].seen
      BY DEF DeleteIsCurrent
    <3>1. req'[c] = req[c] /\ req[c].seen \in Nat /\ req[c].removed \subseteq DOMAIN session
      BY <2>7, IdleRequest DEF IInv, RequestOK, Request, TypeOK
    <3>2. req[c].seen <= Len(session)
      BY <3>1 DEF IInv, DeleteIsCurrent
    <3> QED BY <2>4, <2>5, <3>1, <3>2 DEF IInv, DeleteIsCurrent
  <2>12. FloorOK'
    BY <2>4, <2>6 DEF IInv, FloorOK
  <2>13. ResetSignsOut'
    <3> SUFFICES ASSUME NEW t \in DOMAIN session', Live(t)'
                 PROVE  t > floor'[session'[t].user]
      BY DEF ResetSignsOut
    <3>1. CASE t \in DOMAIN session
      BY <2>4, <2>5, <2>6, <3>1 DEF IInv, ResetSignsOut
    <3>2. CASE t = Len(session) + 1
      <4>1. session'[t] = row /\ row.user \in Users
        BY <2>1, <2>4, <3>2 DEF Row
      <4>2. floor'[row.user] <= Len(session) /\ floor'[row.user] \in Nat
        BY <2>6, <4>1 DEF IInv, FloorOK
      <4> QED BY <2>4, <3>2, <4>1, <4>2
    <3> QED BY <2>4, <3>1, <3>2
  <2> QED BY <2>8, <2>9, <2>10, <2>11, <2>12, <2>13 DEF IInv
<1> QED BY <1>1, <1>2, AccessAssumption, SessionRows DEF IInv

\* What a step that only changes fates leaves of the sessions.
LEMMA FatesOnly ==
    ASSUME session \in Seq(Row), DOMAIN session' = DOMAIN session,
           session' = [t \in DOMAIN session |-> session'[t]],
           \A t \in DOMAIN session : session'[t] \in Row
    PROVE  session' \in Seq(Row) /\ Len(session') = Len(session)
<1>1. DOMAIN session = 1 .. Len(session) /\ Len(session) \in Nat
  BY LenProperties
<1>2. session' \in [1 .. Len(session) -> Row]
  BY <1>1
<1>3. session' \in Seq(Row)
  BY <1>1, <1>2, SeqDef
<1> QED BY <1>1, <1>3, LenProperties

\* A sign-out ends a live session, which no floor needs.
LEMMA SignOutStep ==
    ASSUME IInv, NEW b \in Browsers, SignOut(b) PROVE IInv'
<1> DEFINE k == cookie[b]
<1>1. session \in Seq(Row) /\ DOMAIN session = 1 .. Len(session) /\ Len(session) \in Nat
  BY SessionRows DEF IInv
<1>2. /\ \A c \in Browsers : k \notin req[c].removed
      /\ session' = IF Live(k) THEN [session EXCEPT ![k].fate = "signed out"] ELSE session
      /\ UNCHANGED <<passwordHash, req, rowLock, floor>>
      /\ cookie' = [cookie EXCEPT ![b] = 0]
      /\ modal' = [modal EXCEPT ![b] = "closed"] /\ req[b].pc = "idle"
  BY DEF SignOut, BeingDeleted
<1> HIDE DEF k
<1>3. /\ DOMAIN session' = DOMAIN session
      /\ session' = [t \in DOMAIN session |-> session'[t]]
      /\ \A t \in DOMAIN session :
           /\ t # k => session'[t] = session[t]
           /\ session'[t] \in Row /\ session'[t].user = session[t].user
           /\ Live(t)' => Live(t) /\ t # k
           /\ Live(t) /\ t # k => Live(t)'
  <2>1. \A t \in DOMAIN session : session[t] \in Row
    BY <1>1, ElementOfSeq
  <2>2. CASE Live(k)
    BY <1>1, <1>2, <2>1, <2>2 DEF Live, Row
  <2>3. CASE ~Live(k)
    <3>1. session' = session
      BY <1>2, <2>3
    <3>2. session = [t \in DOMAIN session |-> session[t]]
      BY <1>1, LenProperties
    <3> QED BY <2>1, <2>3, <3>1, <3>2 DEF Live, Row
  <2> QED BY <2>2, <2>3
<1>4. session' \in Seq(Row) /\ Len(session') = Len(session)
  BY <1>1, <1>3, FatesOnly
<1>5. TypeOK'
  <2>1. cookie' \in [Browsers -> 0 .. Len(session')]
    <3>1. cookie \in [Browsers -> 0 .. Len(session)]
      BY DEF IInv, TypeOK
    <3>2. cookie' = [cookie EXCEPT ![b] = 0]
      BY <1>2
    <3>3. 0 \in 0 .. Len(session)
      BY <1>1
    <3> QED BY <1>4, <3>1, <3>2, <3>3
  <2>2. \A c \in Browsers : (modal'[c] = "loading") <=> (req'[c].pc \in ResetPcs)
    BY <1>2 DEF IInv, TypeOK, ResetPcs
  <2> QED BY <1>2, <1>3, <1>4, <2>1, <2>2 DEF IInv, TypeOK, Row
<1>6. RequestOK' /\ RowIsHeld' /\ FloorOK'
  <2>1. RequestOK'
    BY <1>2 DEF IInv, RequestOK
  <2>2. RowIsHeld'
    <3>1. UNCHANGED <<req, rowLock>>
      BY <1>2
    <3> QED BY <3>1 DEF IInv, RowIsHeld
  <2>3. FloorOK'
    BY <1>2, <1>4 DEF IInv, FloorOK
  <2> QED BY <2>1, <2>2, <2>3
<1>7. DeleteIsCurrent'
  BY <1>2, <1>3, <1>4 DEF IInv, DeleteIsCurrent
<1>8. ResetSignsOut'
  BY <1>2, <1>3 DEF IInv, ResetSignsOut
<1> QED BY <1>5, <1>6, <1>7, <1>8 DEF IInv
\* The update takes the lock of the user's row.
LEMMA UpdateStep ==
    ASSUME IInv, NEW b \in Browsers, ResetUpdate(b) PROVE IInv'
<1> DEFINE u == req[b].user
           r == [req[b] EXCEPT !.pc = "delete"]
<1>1. /\ req' = [req EXCEPT ![b] = r] /\ r \in Request /\ r.removed = {}
      /\ r.pc = "delete" /\ r.user = u /\ u \in Users /\ req[b].pc = "update"
  BY DEF ResetUpdate, Goto, IInv, RequestOK, Request, ResetPcs
<1>2. /\ rowLock' = [rowLock EXCEPT ![u] = b] /\ rowLock[u] = NoUser
      /\ UNCHANGED <<passwordHash, session, cookie, modal, floor>>
  BY DEF ResetUpdate
<1> HIDE DEF r, u
<1>3. /\ req' \in [Browsers -> Request] /\ req'[b] = r
      /\ \A c \in Browsers \ {b} : req'[c] = req[c]
  BY <1>1 DEF IInv, RequestOK
<1>4. RequestOK'
  BY <1>1, <1>3 DEF IInv, RequestOK
<1>5. TypeOK'
  <2>1. rowLock' \in [Users -> Browsers \cup {NoUser}]
    BY <1>1, <1>2 DEF IInv, TypeOK
  <2>2. \A c \in Browsers :
          /\ req'[c].pc \in {"idle", "signing", "changing"} \cup ResetPcs
          /\ req'[c].removed \subseteq DOMAIN session
          /\ (modal[c] = "loading") <=> (req'[c].pc \in ResetPcs)
    BY <1>1, <1>3 DEF IInv, TypeOK, ResetPcs
  <2> QED BY <1>2, <2>1, <2>2 DEF IInv, TypeOK
<1>6. RowIsHeld'
  <2> SUFFICES ASSUME NEW c \in Browsers, NEW v \in Users
               PROVE  rowLock'[v] = c <=> req'[c].pc \in {"delete", "commit"} /\ req'[c].user = v
    BY DEF RowIsHeld
  <2>1. rowLock[v] = c <=> req[c].pc \in {"delete", "commit"} /\ req[c].user = v
    BY DEF IInv, RowIsHeld
  <2>2. rowLock'[v] = IF v = u THEN b ELSE rowLock[v]
    BY <1>1, <1>2 DEF IInv, TypeOK
  <2>3. CASE c = b
    BY <1>1, <1>3, <2>1, <2>2, <2>3
  <2>4. CASE c # b
    BY <1>2, <1>3, <2>1, <2>2, <2>4, AccessAssumption
  <2> QED BY <2>3, <2>4
<1>7. DeleteIsCurrent' /\ FloorOK' /\ ResetSignsOut'
  <2>1. DeleteIsCurrent'
    BY <1>1, <1>2, <1>3 DEF IInv, DeleteIsCurrent, Live
  <2> QED BY <1>2, <2>1 DEF IInv, FloorOK, ResetSignsOut, Live
<1> QED BY <1>4, <1>5, <1>6, <1>7 DEF IInv

\* The delete names every session of the user that is live by then.
LEMMA DeleteStep ==
    ASSUME IInv, NEW b \in Browsers, ResetDelete(b) PROVE IInv'
<1> DEFINE u == req[b].user
           r == [req[b] EXCEPT !.pc = "commit", !.removed = SessionsOf(u), !.seen = Len(session)]
<1>1. Len(session) \in Nat /\ DOMAIN session = 1 .. Len(session)
  BY SessionRows DEF IInv
<1>2. req[b] \in Request /\ req[b].pc = "delete" /\ u \in Users
  BY DEF ResetDelete, IInv, RequestOK
<1>3. SessionsOf(u) \subseteq DOMAIN session /\ SessionsOf(u) \in SUBSET Nat
  BY <1>1 DEF SessionsOf
<1>4. /\ r \in Request /\ r.pc = "commit" /\ r.user = u
      /\ r.removed = SessionsOf(u) /\ r.seen = Len(session)
  BY <1>1, <1>2, <1>3 DEF Request, ResetPcs
<1>5. /\ req' = [req EXCEPT ![b] = r]
      /\ UNCHANGED <<passwordHash, session, cookie, modal, rowLock, floor>>
  BY DEF ResetDelete, IInv, RequestOK
<1> HIDE DEF r, u
<1>6. /\ req' \in [Browsers -> Request] /\ req'[b] = r
      /\ \A c \in Browsers \ {b} : req'[c] = req[c]
  BY <1>4, <1>5 DEF IInv, RequestOK
<1>7. RequestOK'
  BY <1>2, <1>4, <1>6 DEF IInv, RequestOK
<1>8. TypeOK'
  <2>1. \A c \in Browsers :
          /\ req'[c].pc \in {"idle", "signing", "changing"} \cup ResetPcs
          /\ req'[c].removed \subseteq DOMAIN session
          /\ (modal[c] = "loading") <=> (req'[c].pc \in ResetPcs)
    BY <1>2, <1>3, <1>4, <1>6 DEF IInv, TypeOK, ResetPcs
  <2> QED BY <1>5, <2>1 DEF IInv, TypeOK
<1>9. RowIsHeld'
  BY <1>2, <1>4, <1>5, <1>6 DEF IInv, RowIsHeld, u
<1>10. DeleteIsCurrent'
  <2> SUFFICES ASSUME NEW c \in Browsers, req'[c].pc = "commit"
               PROVE  /\ req'[c].seen <= Len(session)
                      /\ \A t \in DOMAIN session :
                           t \in req'[c].removed
                             <=> session[t].user = req'[c].user /\ Live(t) /\ t <= req'[c].seen
    BY <1>5 DEF DeleteIsCurrent, Live
  <2>1. CASE c = b
    BY <1>1, <1>4, <1>6, <2>1 DEF SessionsOf
  <2>2. CASE c # b
    BY <1>6, <2>2 DEF IInv, DeleteIsCurrent
  <2> QED BY <2>1, <2>2
<1>11. FloorOK' /\ ResetSignsOut'
  BY <1>5 DEF IInv, FloorOK, ResetSignsOut, Live
<1> QED BY <1>7, <1>8, <1>9, <1>10, <1>11 DEF IInv

\* A request that leaves its transaction drops its lock, if it had one.
LEMMA FailStep ==
    ASSUME IInv, NEW b \in Browsers, ResetFails(b) PROVE IInv'
<1> DEFINE r == [Idle EXCEPT !.pc = "failed"]
<1>1. /\ r \in Request /\ r.pc = "failed" /\ r.removed = {}
  BY AccessAssumption DEF Idle, Request, ResetPcs
<1>2. /\ req' = [req EXCEPT ![b] = r]
      /\ req[b].pc \in {"find", "update", "delete", "commit"}
      /\ rowLock' = [u \in Users |-> IF rowLock[u] = b THEN NoUser ELSE rowLock[u]]
      /\ UNCHANGED <<passwordHash, session, cookie, modal, floor>>
  BY DEF ResetFails
<1> HIDE DEF r
<1>3. /\ req' \in [Browsers -> Request] /\ req'[b] = r
      /\ \A c \in Browsers \ {b} : req'[c] = req[c]
  BY <1>1, <1>2 DEF IInv, RequestOK
<1>4. RequestOK'
  BY <1>1, <1>3 DEF IInv, RequestOK
<1>5. TypeOK'
  <2>1. rowLock' \in [Users -> Browsers \cup {NoUser}]
    BY <1>2 DEF IInv, TypeOK
  <2>2. \A c \in Browsers :
          /\ req'[c].pc \in {"idle", "signing", "changing"} \cup ResetPcs
          /\ req'[c].removed \subseteq DOMAIN session
          /\ (modal[c] = "loading") <=> (req'[c].pc \in ResetPcs)
    BY <1>1, <1>2, <1>3 DEF IInv, TypeOK, ResetPcs
  <2> QED BY <1>2, <2>1, <2>2 DEF IInv, TypeOK
<1>6. RowIsHeld'
  <2> SUFFICES ASSUME NEW c \in Browsers, NEW v \in Users
               PROVE  rowLock'[v] = c <=> req'[c].pc \in {"delete", "commit"} /\ req'[c].user = v
    BY DEF RowIsHeld
  <2>1. rowLock[v] = c <=> req[c].pc \in {"delete", "commit"} /\ req[c].user = v
    BY DEF IInv, RowIsHeld
  <2>2. rowLock'[v] = IF rowLock[v] = b THEN NoUser ELSE rowLock[v]
    BY <1>2
  <2>3. CASE c = b
    BY <1>1, <1>3, <2>1, <2>2, <2>3, AccessAssumption
  <2>4. CASE c # b
    BY <1>3, <2>1, <2>2, <2>4, AccessAssumption
  <2> QED BY <2>3, <2>4
<1>7. DeleteIsCurrent' /\ FloorOK' /\ ResetSignsOut'
  <2>1. DeleteIsCurrent'
    BY <1>1, <1>2, <1>3 DEF IInv, DeleteIsCurrent, Live
  <2> QED BY <1>2, <2>1 DEF IInv, FloorOK, ResetSignsOut, Live
<1> QED BY <1>4, <1>5, <1>6, <1>7 DEF IInv

\* The commit: what it deletes is every live session up to the floor it sets,
\* and no other open transaction has chosen a session of the same user.
LEMMA CommitStep ==
    ASSUME IInv, NEW b \in Browsers, ResetCommit(b) PROVE IInv'
<1> DEFINE u == req[b].user
           gone == req[b].removed
           r == [Idle EXCEPT !.pc = "succeeded"]
<1>1. /\ session \in Seq(Row) /\ Len(session) \in Nat /\ DOMAIN session = 1 .. Len(session)
      /\ \A t \in DOMAIN session : session[t] \in Row /\ session[t].user \in Users
  BY SessionRows DEF IInv
<1>2. /\ req[b] \in Request /\ req[b].pc = "commit" /\ u \in Users
      /\ req[b].seen \in Nat /\ req[b].new \in Acceptable
  BY DEF ResetCommit, IInv, RequestOK, Request
<1>3. /\ req[b].seen <= Len(session)
      /\ \A t \in DOMAIN session :
           t \in gone <=> session[t].user = u /\ Live(t) /\ t <= req[b].seen
  BY <1>2 DEF IInv, DeleteIsCurrent
<1>4. /\ r \in Request /\ r.pc = "succeeded" /\ r.removed = {}
  BY AccessAssumption DEF Idle, Request, ResetPcs
<1>5. /\ req' = [req EXCEPT ![b] = r]
      /\ passwordHash' = [passwordHash EXCEPT ![u] = req[b].new]
      /\ session' = [t \in DOMAIN session |->
                       IF t \in gone THEN [session[t] EXCEPT !.fate = "reset"] ELSE session[t]]
      /\ floor' = [floor EXCEPT ![u] = req[b].seen]
      /\ rowLock' = [rowLock EXCEPT ![u] = NoUser]
      /\ UNCHANGED <<cookie, modal>>
  BY DEF ResetCommit
<1> HIDE DEF r, u, gone
<1>6. /\ req' \in [Browsers -> Request] /\ req'[b] = r
      /\ \A c \in Browsers \ {b} : req'[c] = req[c]
  BY <1>4, <1>5 DEF IInv, RequestOK
<1>7. /\ DOMAIN session' = DOMAIN session
      /\ session' = [t \in DOMAIN session |-> session'[t]]
      /\ \A t \in DOMAIN session :
           session'[t] \in Row /\ session'[t].user = session[t].user
      /\ \A t \in DOMAIN session : Live(t)' <=> Live(t) /\ t \notin gone
  BY <1>1, <1>5 DEF Live, Row
<1>8. session' \in Seq(Row) /\ Len(session') = Len(session)
  BY <1>1, <1>7, FatesOnly
<1>9. RequestOK'
  BY <1>4, <1>6 DEF IInv, RequestOK
<1>10. TypeOK'
  <2>1. passwordHash' \in [Users -> Acceptable]
    BY <1>2, <1>5 DEF IInv, TypeOK
  <2>2. rowLock' \in [Users -> Browsers \cup {NoUser}]
    BY <1>5 DEF IInv, TypeOK
  <2>3. \A c \in Browsers :
          /\ req'[c].pc \in {"idle", "signing", "changing"} \cup ResetPcs
          /\ req'[c].removed \subseteq DOMAIN session
          /\ (modal[c] = "loading") <=> (req'[c].pc \in ResetPcs)
    BY <1>2, <1>4, <1>6 DEF IInv, TypeOK, ResetPcs
  <2>4. UNCHANGED <<cookie, modal>>
    BY <1>5
  <2> QED BY <1>7, <1>8, <2>1, <2>2, <2>3, <2>4 DEF IInv, TypeOK, Row
<1>11. RowIsHeld'
  <2>1. rowLock[u] = b /\ \A v \in Users : rowLock[v] = b => v = u
    BY <1>2 DEF IInv, RowIsHeld, u
  <2>2. rowLock' = [rowLock EXCEPT ![u] = NoUser]
    BY <1>5
  <2> SUFFICES ASSUME NEW c \in Browsers, NEW v \in Users
               PROVE  rowLock'[v] = c <=> req'[c].pc \in {"delete", "commit"} /\ req'[c].user = v
    BY DEF RowIsHeld
  <2>3. rowLock[v] = c <=> req[c].pc \in {"delete", "commit"} /\ req[c].user = v
    BY DEF IInv, RowIsHeld
  <2>4. rowLock'[v] = IF v = u THEN NoUser ELSE rowLock[v]
    BY <2>2 DEF IInv, TypeOK
  <2>5. CASE c = b
    BY <1>4, <1>6, <2>1, <2>4, <2>5, AccessAssumption
  <2>6. CASE c # b
    BY <1>6, <2>1, <2>3, <2>4, <2>6, AccessAssumption
  <2> QED BY <2>5, <2>6
<1>12. DeleteIsCurrent'
  <2> SUFFICES ASSUME NEW c \in Browsers, req'[c].pc = "commit"
               PROVE  /\ req'[c].seen <= Len(session')
                      /\ \A t \in DOMAIN session' :
                           t \in req'[c].removed
                             <=> /\ session'[t].user = req'[c].user
                                 /\ Live(t)' /\ t <= req'[c].seen
    BY DEF DeleteIsCurrent
  <2>1. c # b /\ req'[c] = req[c] /\ req[c].pc = "commit"
    BY <1>4, <1>6
  <2>2. req[c].user # u
    <3>1. rowLock[u] = b
      BY <1>2 DEF IInv, RowIsHeld, u
    <3>2. rowLock[req[c].user] = c
      BY <2>1 DEF IInv, RowIsHeld, RequestOK
    <3> QED BY <2>1, <3>1, <3>2
  <2> QED BY <1>3, <1>7, <1>8, <2>1, <2>2 DEF IInv, DeleteIsCurrent
<1>13. FloorOK'
  <2>1. floor' = [floor EXCEPT ![u] = req[b].seen]
    BY <1>5
  <2> QED BY <1>2, <1>3, <1>8, <2>1 DEF IInv, FloorOK
<1>14. ResetSignsOut'
  <2> SUFFICES ASSUME NEW t \in DOMAIN session, Live(t)'
               PROVE  t > floor'[session[t].user]
    BY <1>7 DEF ResetSignsOut
  <2>1. Live(t) /\ t \notin gone /\ floor' = [floor EXCEPT ![u] = req[b].seen]
    BY <1>5, <1>7
  <2>2. CASE session[t].user = u
    BY <1>1, <1>2, <1>3, <2>1, <2>2 DEF IInv, FloorOK
  <2>3. CASE session[t].user # u
    BY <1>1, <2>1, <2>3 DEF IInv, FloorOK, ResetSignsOut
  <2> QED BY <2>2, <2>3
<1> QED BY <1>9, <1>10, <1>11, <1>12, <1>13, <1>14 DEF IInv

\* Every step keeps the inductive invariant, action by action.
LEMMA NextIInv == IInv /\ [Next]_vars => IInv'
<1> SUFFICES ASSUME IInv, [Next]_vars PROVE IInv' OBVIOUS
<1>1. ASSUME NEW b \in Browsers, ServerStep(b) PROVE IInv'
  BY <1>1, CreateStep, ChangeWriteStep, FindStep, UpdateStep, DeleteStep, CommitStep,
     ShowStep DEF ServerStep, ResetStep
<1>2. ASSUME NEW b \in Browsers, UserStep(b) PROVE IInv'
  BY <1>2, VerifyStep, SignOutStep, ModalStep, ChangeReadStep, SubmitStep DEF UserStep
<1>3. ASSUME NEW b \in Browsers, Failure(b) PROVE IInv'
  BY <1>3, FailStep, LostStep DEF Failure
<1>4. CASE UNCHANGED vars
  <2>1. TypeOK' /\ RequestOK'
    BY <1>4 DEF vars, IInv, TypeOK, RequestOK
  <2>2. RowIsHeld' /\ DeleteIsCurrent' /\ FloorOK' /\ ResetSignsOut'
    BY <1>4 DEF vars, IInv, RowIsHeld, DeleteIsCurrent, FloorOK, ResetSignsOut, Live
  <2> QED BY <2>1, <2>2 DEF IInv
<1> QED BY <1>1, <1>2, <1>3, <1>4 DEF Next

\* The inductive invariant holds in every state: types, locks and floors of the
\* reset's transaction (user-password-reset.server.ts) agree.
THEOREM Invariance == Spec => []IInv
BY InitIInv, NextIInv, PTL DEF Spec

\* Every variable of sign-in, change and reset keeps its type; a dialog is
\* loading exactly while its request is in flight.
THEOREM TypeCorrect == Spec => []TypeOK
<1>1. IInv => TypeOK
  BY DEF IInv
<1> QED BY <1>1, Invariance, PTL

\* Whatever signs in, signs out, changes or fails between a reset's statements:
\* no session created before the delete of a committed reset is still live.
THEOREM SignsOutEverywhere == Spec => []ResetSignsOut
<1>1. IInv => ResetSignsOut
  BY DEF IInv
<1> QED BY <1>1, Invariance, PTL

-----------------------------------------------------------------------------
\* An answer on its way to the dialog as a success follows a committed entry.
SuccessInv ==
    /\ SuccessIsCommitted
    /\ \A b \in Browsers : req[b].pc = "succeeded" => \E e \in audit : e.by = b

\* The banner of success is shown only over a reset of that browser which has
\* committed and left its audit entry; failures and lost answers never show it.
THEOREM SuccessFollowsCommit == Spec => []SuccessIsCommitted
<1>1. Init => SuccessInv
  BY DEF Init, Idle, SuccessInv, SuccessIsCommitted
<1>2. IInv /\ SuccessInv /\ [Next]_vars => SuccessInv'
  <2> SUFFICES ASSUME IInv, SuccessInv, [Next]_vars PROVE SuccessInv' OBVIOUS
  <2> USE DEF SuccessInv, SuccessIsCommitted, IInv, RequestOK, Finish, Goto, Idle, TypeOK
  <2>1. ASSUME NEW b \in Browsers, ServerStep(b) PROVE SuccessInv'
    <3>1. CASE ResetCommit(b)
      <4>1. audit \subseteq audit' /\ \E e \in audit' : e.by = b
        <5> DEFINE e == [id |-> Cardinality(audit) + 1, target |-> req[b].user,
                         by |-> b, sessions |-> Cardinality(req[b].removed)]
        <5>1. audit' = audit \cup {e}
          BY <3>1 DEF ResetCommit
        <5>2. e.by = b
          OBVIOUS
        <5> HIDE DEF e
        <5> QED BY <5>1, <5>2
      <4>2. modal' = modal /\ \A c \in Browsers \ {b} : req'[c] = req[c]
        BY <3>1 DEF ResetCommit
      <4> QED BY <4>1, <4>2
    <3>2. CASE ShowAnswer(b)
      BY <3>2 DEF ShowAnswer
    <3>3. CASE CreateSession(b) \/ ChangeWrite(b)
      <4>1. UNCHANGED <<audit, modal>> /\ req' = [req EXCEPT ![b] = Idle] /\ Idle.pc # "succeeded"
        BY <3>3 DEF CreateSession, ChangeWrite
      <4> QED BY <4>1
    <3>4. CASE ResetFind(b) \/ ResetUpdate(b) \/ ResetDelete(b)
      <4>1. UNCHANGED <<audit, modal>> /\ \A c \in Browsers \ {b} : req'[c] = req[c]
        BY <3>4 DEF ResetFind, ResetUpdate, ResetDelete
      <4>2. req'[b].pc # "succeeded"
        <5>1. b \in DOMAIN req /\ "pc" \in DOMAIN req[b]
          BY DEF Request
        <5>2. CASE ResetFind(b)
          BY <5>1, <5>2 DEF ResetFind
        <5>3. CASE ResetUpdate(b)
          BY <5>1, <5>3 DEF ResetUpdate
        <5>4. CASE ResetDelete(b)
          BY <5>1, <5>4 DEF ResetDelete
        <5> QED BY <3>4, <5>2, <5>3, <5>4
      <4> QED BY <4>1, <4>2
    <3> QED BY <2>1, <3>1, <3>2, <3>3, <3>4 DEF ServerStep, ResetStep
  <2>2. ASSUME NEW b \in Browsers, UserStep(b) PROVE SuccessInv'
    <3>1. ASSUME NEW u \in Users, VerifyCredentials(b, u) PROVE SuccessInv'
      BY <3>1 DEF VerifyCredentials
    <3>2. CASE SignOut(b) \/ OpenModal(b) \/ CancelModal(b)
      BY <3>2 DEF SignOut, OpenModal, CancelModal
    <3>3. ASSUME NEW p \in Passwords, ChangeRead(b, p) PROVE SuccessInv'
      BY <3>3 DEF ChangeRead
    <3>4. ASSUME NEW u \in Targets, NEW p \in Passwords, NEW q \in Passwords,
                 SubmitReset(b, u, p, q)
          PROVE  SuccessInv'
      BY <3>4 DEF SubmitReset
    <3> QED BY <2>2, <3>1, <3>2, <3>3, <3>4 DEF UserStep
  <2>3. ASSUME NEW b \in Browsers, Failure(b) PROVE SuccessInv'
    BY <2>3 DEF Failure, ResetFails, AnswerLost
  <2>4. CASE UNCHANGED vars
    BY <2>4 DEF vars
  <2> QED BY <2>1, <2>2, <2>3, <2>4 DEF Next
<1>3. SuccessInv => SuccessIsCommitted
  BY DEF SuccessInv
<1> QED BY <1>1, <1>2, <1>3, Invariance, PTL DEF Spec

-----------------------------------------------------------------------------
\* The rows of user u that a committed reset has ended.
Ended(u) == {t \in DOMAIN session : session[t] = [user |-> u, fate |-> "reset"]}
Entries(u) == {e \in audit : e.target = u}

\* An entry's id is the number of entries that were there with it, so that a
\* new one is never an old one.
AuditInv ==
    /\ IsFiniteSet(audit)
    /\ \A e \in audit : e.id \in 1 .. Cardinality(audit) /\ e.sessions \in Nat
    /\ AuditIsExact

\* A step that ends no session by a reset and writes no entry.
LEMMA NoneEnded ==
    ASSUME AuditInv, audit' = audit, \A u \in Users : Ended(u)' = Ended(u)
    PROVE  AuditInv'
BY DEF AuditInv, AuditIsExact, Ended

\* What the commit adds to the log for user u is what it ends.
LEMMA CommitCounts ==
    ASSUME IInv, AuditInv, NEW b \in Browsers, ResetCommit(b)
    PROVE  AuditInv'
<1> DEFINE u == req[b].user
           gone == req[b].removed
           new == [id |-> Cardinality(audit) + 1, target |-> u, by |-> b, sessions |-> Cardinality(gone)]
           n == [e \in audit |-> e.sessions]
           m == [e \in audit' |-> e.sessions]
<1>1. /\ session \in Seq(Row) /\ Len(session) \in Nat /\ DOMAIN session = 1 .. Len(session)
      /\ \A t \in DOMAIN session : session[t] \in Row
  BY SessionRows DEF IInv
<1>2. /\ u \in Users
      /\ \A t \in DOMAIN session : t \in gone <=> session[t].user = u /\ Live(t) /\ t <= req[b].seen
      /\ gone \subseteq DOMAIN session
  BY DEF ResetCommit, IInv, RequestOK, DeleteIsCurrent, TypeOK
<1>3. /\ audit' = audit \cup {new}
      /\ session' = [t \in DOMAIN session |->
                       IF t \in gone THEN [session[t] EXCEPT !.fate = "reset"] ELSE session[t]]
  BY DEF ResetCommit
<1>4. IsFiniteSet(DOMAIN session)
  BY <1>1, FS_Interval
<1>5. IsFiniteSet(gone) /\ Cardinality(gone) \in Nat
  BY <1>2, <1>4, FS_Subset, FS_CardinalityType
<1>6. /\ new.id = Cardinality(audit) + 1 /\ new.target = u /\ new.sessions = Cardinality(gone)
      /\ new.sessions \in Nat
  BY <1>5
<1> HIDE DEF new
<1>7. Cardinality(audit) \in Nat /\ new \notin audit
  BY <1>6, FS_CardinalityType DEF AuditInv
<1>8. IsFiniteSet(audit') /\ Cardinality(audit') = Cardinality(audit) + 1
  BY <1>3, <1>7, FS_AddElement DEF AuditInv
<1>9. \A e \in audit' : e.id \in 1 .. Cardinality(audit') /\ e.sessions \in Nat
  BY <1>3, <1>6, <1>7, <1>8 DEF AuditInv
<1>10. \A v \in Users : Cardinality(Ended(v)') = SumFunctionOnSet(m, Entries(v)')
  <2> TAKE v \in Users
  <2>1. /\ IsFiniteSet(Entries(v)) /\ IsFiniteSet(Ended(v))
        /\ Cardinality(Ended(v)) = SumFunctionOnSet(n, Entries(v))
    <3>1. Entries(v) \in SUBSET audit /\ Ended(v) \in SUBSET (DOMAIN session)
      BY DEF Entries, Ended
    <3> QED BY <1>4, <3>1, FS_Subset DEF AuditInv, AuditIsExact, Entries, Ended
  <2>2. SumFunctionOnSet(m, Entries(v)) = SumFunctionOnSet(n, Entries(v))
    <3>1. \A e \in Entries(v) : m[e] = n[e]
      BY <1>3 DEF Entries
    <3> HIDE DEF m, n
    <3> QED BY <2>1, <3>1, SumSame
  <2>3. CASE v # u
    <3>1. Entries(v)' = Entries(v)
      BY <1>3, <1>6, <2>3 DEF Entries
    <3>2. Ended(v)' = Ended(v)
      <4>1. DOMAIN session' = DOMAIN session
        BY <1>3
      <4>2. ASSUME NEW t \in DOMAIN session
            PROVE  session'[t] = [user |-> v, fate |-> "reset"]
                     <=> session[t] = [user |-> v, fate |-> "reset"]
        <5>1. CASE t \in gone
          <6>1. session[t].user = u /\ session'[t] = [session[t] EXCEPT !.fate = "reset"]
            BY <1>2, <1>3, <5>1
          <6>2. session[t].user # v /\ session'[t].user # v
            BY <1>1, <2>3, <6>1 DEF Row
          <6> QED BY <6>2
        <5>2. CASE t \notin gone
          BY <1>3, <5>2
        <5> QED BY <5>1, <5>2
      <4> QED BY <4>1, <4>2 DEF Ended
    <3> QED BY <2>1, <2>2, <3>1, <3>2
  <2>4. CASE v = u
    <3>1. Entries(v)' = Entries(v) \cup {new} /\ new \notin Entries(v)
      BY <1>3, <1>6, <1>7, <2>4 DEF Entries
    <3>2. Ended(v)' = Ended(v) \cup gone
      BY <1>1, <1>2, <1>3, <2>4 DEF Ended, Row
    <3>3. Ended(v) \cap gone = {}
      <4>1. \A t \in Ended(v) : session[t].fate = "reset"
        BY DEF Ended
      <4>2. \A t \in gone : session[t].fate = "live"
        BY <1>2 DEF Live
      <4> QED BY <4>1, <4>2
    <3>4. Cardinality(Ended(v)') = Cardinality(Ended(v)) + Cardinality(gone)
      <4>1. Cardinality(Ended(v) \cup gone)
              = Cardinality(Ended(v)) + Cardinality(gone) - Cardinality(Ended(v) \cap gone)
        BY <1>5, <2>1, FS_Union
      <4>2. Cardinality(Ended(v) \cap gone) = 0
        BY <3>3, FS_EmptySet
      <4>3. Cardinality(Ended(v)) \in Nat
        BY <2>1, FS_CardinalityType
      <4> HIDE DEF gone
      <4> QED BY <1>5, <3>2, <4>1, <4>2, <4>3
    <3>5. m[new] = Cardinality(gone) /\ m[new] \in Int /\ \A e \in Entries(v) : m[e] \in Int
      <4>1. new \in audit' /\ m[new] = new.sessions
        BY <1>3
      <4>2. \A e \in Entries(v) : m[e] = e.sessions /\ e.sessions \in Nat
        BY <1>3 DEF Entries, AuditInv
      <4> HIDE DEF m, gone
      <4> QED BY <1>6, <4>1, <4>2
    <3>6. SumFunctionOnSet(m, Entries(v) \cup {new}) = SumFunctionOnSet(m, Entries(v)) + m[new]
      <4> HIDE DEF m
      <4> QED BY <2>1, <3>1, <3>5, SumAdd
    <3> HIDE DEF m, n, gone
    <3> QED BY <2>1, <2>2, <3>1, <3>4, <3>5, <3>6
  <2> QED BY <2>3, <2>4
<1>11. AuditIsExact'
  BY <1>10 DEF AuditIsExact, Ended, Entries
<1> QED BY <1>8, <1>9, <1>11 DEF AuditInv

\* The audit log of user-password-reset.server.ts accounts for every session a
\* reset has ended and for no other, whoever signs out, is locked out or fails
\* in between: no session is counted by two entries, none is missing.
THEOREM AuditCountsSessions == Spec => []AuditIsExact
<1>1. Init => AuditInv
  <2> SUFFICES ASSUME Init PROVE AuditInv OBVIOUS
  <2>1. audit = {} /\ session = <<>> /\ DOMAIN session = {}
    BY EmptySeq DEF Init
  <2>2. \A u \in Users : Ended(u) = {} /\ Entries(u) = {}
    BY <2>1 DEF Ended, Entries
  <2>3. \A u \in Users : Cardinality(Ended(u)) = SumFunctionOnSet([e \in audit |-> e.sessions], Entries(u))
    BY <2>2, SumEmpty, FS_EmptySet
  <2>4. AuditIsExact
    BY <2>3 DEF AuditIsExact, Ended, Entries
  <2> QED BY <2>1, <2>4, FS_EmptySet DEF AuditInv
<1>2. IInv /\ AuditInv /\ [Next]_vars => AuditInv'
  <2> SUFFICES ASSUME IInv, AuditInv, [Next]_vars PROVE AuditInv' OBVIOUS
  <2>1. UNCHANGED <<session, audit>> => AuditInv'
    BY NoneEnded DEF Ended
  <2>2. ASSUME NEW b \in Browsers, CreateSession(b) PROVE AuditInv'
    <3>1. session \in Seq(Row) /\ Len(session) \in Nat /\ DOMAIN session = 1 .. Len(session)
      BY SessionRows DEF IInv
    <3>2. CASE Len(session) >= MaxSessions
      BY <2>1, <2>2, <3>1, <3>2, AccessAssumption DEF CreateSession
    <3>3. CASE Len(session) < MaxSessions
      <4> DEFINE row == [user |-> req[b].user, fate |-> "live"]
      <4>1. row \in Row /\ row.fate = "live"
        BY <2>2 DEF CreateSession, IInv, RequestOK, Row
      <4>2. session' = Append(session, row) /\ audit' = audit
        BY <2>2, <3>3 DEF CreateSession
      <4> HIDE DEF row
      <4>3. /\ DOMAIN session' = 1 .. Len(session) + 1
            /\ \A t \in DOMAIN session : session'[t] = session[t]
            /\ session'[Len(session) + 1] = row
        BY <3>1, <4>1, <4>2, AppendProperties
      <4>4. \A u \in Users : row # [user |-> u, fate |-> "reset"]
        BY <4>1
      <4>5. \A u \in Users : Ended(u)' = Ended(u)
        BY <3>1, <4>3, <4>4 DEF Ended
      <4> QED BY <4>2, <4>5, NoneEnded
    <3> QED BY <3>1, <3>2, <3>3, AccessAssumption
  <2>3. ASSUME NEW b \in Browsers, SignOut(b) PROVE AuditInv'
    <3>1. /\ audit' = audit
          /\ session' = IF Live(cookie[b])
                        THEN [session EXCEPT ![cookie[b]].fate = "signed out"] ELSE session
      BY <2>3 DEF SignOut
    <3>2. \A t \in DOMAIN session : session[t] \in Row
      BY SessionRows DEF IInv
    <3>3. CASE Live(cookie[b])
      <4>1. /\ DOMAIN session' = DOMAIN session
            /\ \A t \in DOMAIN session : session'[t] = session[t]
                 \/ (session'[t].fate = "signed out" /\ session[t].fate = "live")
        BY <3>1, <3>2, <3>3 DEF Live, Row
      <4>2. \A u \in Users : Ended(u)' = Ended(u)
        <5>1. \A u \in Users : [user |-> u, fate |-> "reset"].fate = "reset"
          OBVIOUS
        <5>2. \A u \in Users, t \in DOMAIN session :
                session'[t] = [user |-> u, fate |-> "reset"]
                  <=> session[t] = [user |-> u, fate |-> "reset"]
          BY <4>1, <5>1
        <5> QED BY <4>1, <5>2 DEF Ended
      <4> QED BY <3>1, <4>2, NoneEnded
    <3> QED BY <2>1, <3>1, <3>3
  <2>4. ASSUME NEW b \in Browsers, ServerStep(b) PROVE AuditInv'
    <3>1. CASE ChangeWrite(b) \/ ResetFind(b) \/ ResetUpdate(b) \/ ResetDelete(b) \/ ShowAnswer(b)
      BY <2>1, <3>1 DEF ChangeWrite, ResetFind, ResetUpdate, ResetDelete, ShowAnswer
    <3> QED BY <2>2, <2>4, <3>1, CommitCounts DEF ServerStep, ResetStep
  <2>5. ASSUME NEW b \in Browsers, UserStep(b) PROVE AuditInv'
    <3>1. SignOut(b) \/ UNCHANGED <<session, audit>>
      BY <2>5 DEF UserStep, VerifyCredentials, OpenModal, CancelModal, ChangeRead, SubmitReset
    <3> QED BY <2>1, <2>3, <3>1
  <2>6. ASSUME NEW b \in Browsers, Failure(b) PROVE AuditInv'
    BY <2>1, <2>6 DEF Failure, ResetFails, AnswerLost
  <2>7. CASE UNCHANGED vars
    BY <2>1, <2>7 DEF vars
  <2> QED BY <2>4, <2>5, <2>6, <2>7 DEF Next
<1>3. AuditInv => AuditIsExact
  BY DEF AuditInv
<1> QED BY <1>1, <1>2, <1>3, Invariance, PTL DEF Spec
=============================================================================
